------------------------------- MODULE MCWire -------------------------------
(* Instances of the two codecs.  They share nothing, so that a behaviour uses one. *)
EXTENDS MessageCodec, PacketCodec

Run(b, n) == [i \in 1..n |-> b]

\* Three routes, the first one also with a space before it, and a route too long for
\* its length byte; dictionaries that extend, repeat or contradict one another.
RouteA == <<97, 46, 97>>
RouteB == <<98>>
LongRoute == Run(99, 256)
MCTrim(r) == IF r = <<32>> \o RouteA THEN RouteA ELSE r
MCRoutes == {RouteA, RouteB, LongRoute, <<32>> \o RouteA}
MCDicts == { {<<RouteA, 1>>},
             {<<RouteB, 1>>},
             {<<RouteA, 1>>, <<RouteB, 258>>},
             {<<RouteB, 258>>, <<LongRoute, 3>>},
             {<<<<32>> \o RouteA, 3>>, <<RouteA, 1>>, <<RouteB, 258>>} }

\* zlib, on data that is one byte repeated and on data that is not.
MCDeflate(d) ==
  IF Len(d) > 4 /\ d = Run(d[1], Len(d)) THEN <<120, 156, d[1], Len(d)>>
  ELSE <<120, 1>> \o d
MCInflate(z) ==
  CASE Len(z) = 4 /\ SubSeq(z, 1, 2) = <<120, 156>> -> <<Run(z[3], z[4])>>
    [] Len(z) >= 2 /\ SubSeq(z, 1, 2) = <<120, 1>> -> <<SubSeq(z, 3, Len(z))>>
    [] OTHER -> <<>>

\* IDs below, at and above the boundaries of one and two bytes.
MCMessages ==
  [Type : 0..3, ID : {300}, Route : {RouteA, RouteB, LongRoute},
   Data : {<<1, 2>>, Run(0, 20)}, Err : {FALSE}]
  \cup
  [Type : 0..2, ID : {0, 127, 128, 16384}, Route : {<<>>}, Data : {<<>>}, Err : {TRUE}]

MCPayloads == {Run(1, n) : n \in {0, 1, 4, 5, 26, 124, 125, 126}}

MCInit == CodecInit /\ PacketInit
MCNext ==
  \/ CodecNext /\ sent = <<>> /\ UNCHANGED packetVars
  \/ PacketNext /\ calls = 0 /\ original = <<>> /\ UNCHANGED codecVars
MCSpec == MCInit /\ [][MCNext]_<<codecVars, packetVars>>
=============================================================================
