---------------------------- MODULE MessageCodec ----------------------------
(***************************************************************************)
(* The message codec of conn/message: Encode and Decode between processes   *)
(* that each have a dictionary of routes, filled by SetDictionary.  A       *)
(* message is encoded in place, maybe more than once, and its bytes are     *)
(* decoded with the dictionary their receiver has by then.                  *)
(*                                                                         *)
(* Byte strings are sequences of 0..255; bit masks are sums, quotients and  *)
(* remainders by powers of two.                                             *)
(***************************************************************************)
EXTENDS Naturals, Sequences

CONSTANTS
  Procs,         \* processes that exchange messages
  Routes,        \* routes, as byte strings
  Codes,         \* uint16 codes of routes
  Dicts,         \* arguments of SetDictionary: sets of pairs of a route and a code
  Trim(_),       \* strings.TrimSpace
  Messages,      \* the messages a process may build
  Deflate(_),    \* compression.DeflateData
  Inflate(_),    \* compression.InflateData: a sequence with the data, or with nothing
  MaxDicts,      \* bound: calls of SetDictionary
  MaxEncodes     \* bound: times a message is encoded

\* The values of Type, and the bits of the flag byte.
Request  == 0
Notify   == 1
Response == 2
msgRouteCompressMask == 1
gzipMask  == 16
errorMask == 32
msgHeadLength == 2

Bytes == Seq(0..255)
MaxUint16 == 65535

\* Inflating what was deflated gives the data back, as zlib promises.
ASSUME CodecAssumption ==
  /\ \A r \in Routes : Trim(r) \in Routes
  /\ Codes \subseteq 0..MaxUint16 /\ \A d \in Dicts : d \subseteq Routes \X Codes
  /\ Messages \subseteq [Type : 0..255, ID : Nat, Route : Bytes, Data : Bytes, Err : BOOLEAN]
  /\ \A m \in Messages : Deflate(m.Data) \in Bytes /\ Inflate(Deflate(m.Data)) = <<m.Data>>
  /\ MaxDicts \in Nat /\ MaxEncodes \in Nat

VARIABLES
  routes,    \* per process: route to code
  codes,     \* per process: code to route
  calls,     \* calls of SetDictionary so far
  original,  \* the message that was built: a sequence of at most one
  data,      \* its Data field now
  encodes,   \* times it has been encoded
  wire       \* its last encoding, by whom, and whether its data was whole: at most one

dictVars == <<routes, codes, calls>>
msgVars == <<original, data, encodes, wire>>
codecVars == <<dictVars, msgVars>>

-----------------------------------------------------------------------------
(* Messages and bytes *)

\* Mutant: only requests carry an ID.
hasIDRequest(t) == t = Request

routable(t) == t = Request \/ t = Notify
hasID(t) == t = Request \/ t = Response
invalidType(t) == t > Response

Flag(mask, set) == IF set THEN mask ELSE 0
Has(flag, mask) == (flag \div mask) % 2 = 1

\* The ID in groups of seven bits, all but the last one marked.
idBytes[n \in Nat] ==
  IF n < 128 THEN <<n>> ELSE <<(n % 128) + 128>> \o idBytes[n \div 128]

idOf[b \in Bytes] ==
  IF b = <<>> THEN 0 ELSE (b[1] % 128) + 128 * idOf[Tail(b)]

\* The encoding of message m by a process with the dictionary rts, whose encoder
\* compresses data or does not; also what is left in message.Data.
encode(m, rts, DataCompression) ==
  LET compressed == m.Route \in DOMAIN rts
      d == Deflate(m.Data)
      shorter == DataCompression /\ Len(d) < Len(m.Data)
      left == IF shorter THEN d ELSE m.Data
      flag == m.Type * 2 + Flag(msgRouteCompressMask, compressed)
                + Flag(errorMask, m.Err) + Flag(gzipMask, shorter)
      id == IF hasID(m.Type) THEN idBytes[m.ID] ELSE <<>>
      route == IF ~routable(m.Type) THEN <<>>
               ELSE IF compressed THEN <<rts[m.Route] \div 256, rts[m.Route] % 256>>
               ELSE <<Len(m.Route) % 256>> \o m.Route
  IN [bytes |-> <<flag>> \o id \o route \o left, left |-> left]

Fail(e) == [err |-> e]

\* The part of Decode after the route: b is the rest of the bytes.
decodeData(m, gzip, b) ==
  IF ~gzip THEN [m EXCEPT !.Data = b]
  ELSE IF Inflate(b) = <<>> THEN Fail("zlib") ELSE [m EXCEPT !.Data = Inflate(b)[1]]

Drop(b, n) == SubSeq(b, n + 1, Len(b))

\* The part of Decode from the route on.
decodeRoute(m, flag, b, cds) ==
  LET gzip == Has(flag, gzipMask)
      code == b[1] * 256 + b[2]
  IN IF ~routable(m.Type) THEN decodeData(m, gzip, b)
     ELSE IF Has(flag, msgRouteCompressMask) THEN
       IF Len(b) < 2 THEN Fail("invalid message")
       ELSE IF code \notin DOMAIN cds THEN Fail("route info not found")
       ELSE decodeData([m EXCEPT !.Route = cds[code]], gzip, Drop(b, 2))
     ELSE
       IF b = <<>> THEN Fail("index out of range")
       ELSE IF Len(b) < 1 + b[1] THEN Fail("invalid message")
       ELSE decodeData([m EXCEPT !.Route = SubSeq(b, 2, 1 + b[1])], gzip, Drop(b, 1 + b[1]))

\* Decode with the dictionary cds.  An ID without an end counts, but is not skipped.
decode(b, cds) ==
  LET flag == b[1]
      type == (flag \div 2) % 8
      ends == {i \in 2..Len(b) : b[i] < 128}
      end == CHOOSE i \in ends : \A j \in ends : i <= j
      last == IF ~hasID(type) THEN 1 ELSE IF ends = {} THEN Len(b) ELSE end
      m == [err |-> "", Type |-> type, Err |-> Has(flag, errorMask),
            ID |-> idOf[SubSeq(b, 2, last)], Route |-> <<>>, Data |-> <<>>]
  IN IF Len(b) < msgHeadLength THEN Fail("invalid message")
     ELSE IF invalidType(type) THEN Fail("wrong message type")
     ELSE decodeRoute(m, flag, Drop(b, IF hasID(type) /\ ends = {} THEN 1 ELSE last), cds)

-----------------------------------------------------------------------------
(* Steps *)

RoutesOf(entries) == {Trim(e[1]) : e \in entries}
CodesOf(entries) == {e[2] : e \in entries}

\* Mutant: only the route is looked up.
FitsRoute(p, entries) ==
  \A e \in entries :
    /\ Trim(e[1]) \notin DOMAIN routes[p]
    /\ \A f \in entries \ {e} : Trim(f[1]) # Trim(e[1])

\* No entry meets one of the dictionary of p or of the others with its route or code.
Fits(p, entries) ==
  \A e \in entries :
    /\ Trim(e[1]) \notin DOMAIN routes[p] /\ e[2] \notin DOMAIN codes[p]
    /\ \A f \in entries \ {e} : Trim(f[1]) # Trim(e[1]) /\ f[2] # e[2]

\* SetDictionary takes the entries of the map d in any order, under the lock, and
\* stops at the first duplicate: those before it stay.
SetDictionary(p, d) ==
  /\ calls < MaxDicts
  /\ calls' = calls + 1
  /\ \E done \in SUBSET d :
       /\ Fits(p, done)
       /\ done = d \/ \E e \in d \ done : ~Fits(p, done \cup {e})
       /\ routes' = [routes EXCEPT ![p] =
            [r \in DOMAIN @ \cup RoutesOf(done) |->
               IF r \in RoutesOf(done) THEN (CHOOSE e \in done : Trim(e[1]) = r)[2] ELSE @[r]]]
       /\ codes' = [codes EXCEPT ![p] =
            [c \in DOMAIN @ \cup CodesOf(done) |->
               IF c \in CodesOf(done) THEN Trim((CHOOSE e \in done : e[2] = c)[1]) ELSE @[c]]]
  /\ UNCHANGED msgVars

\* The application fills a new Message.
NewMessage(m) ==
  /\ original = <<>>
  /\ original' = <<m>> /\ data' = m.Data
  /\ UNCHANGED <<dictVars, encodes, wire>>

\* Encode overwrites message.Data when it compresses; it refuses an unknown type.
Encode(p, DataCompression) ==
  /\ original # <<>> /\ encodes < MaxEncodes
  /\ ~invalidType(original[1].Type)
  /\ LET e == encode([original[1] EXCEPT !.Data = data], routes[p], DataCompression) IN
       /\ data' = e.left
       /\ wire' = <<[by |-> p, bytes |-> e.bytes, whole |-> data = original[1].Data]>>
  /\ encodes' = encodes + 1
  /\ UNCHANGED <<dictVars, original>>

CodecInit ==
  /\ routes = [p \in Procs |-> <<>>] /\ codes = [p \in Procs |-> <<>>] /\ calls = 0
  /\ original = <<>> /\ data = <<>> /\ encodes = 0 /\ wire = <<>>

CodecNext ==
  \/ \E p \in Procs : (\E d \in Dicts : SetDictionary(p, d)) \/ \E z \in BOOLEAN : Encode(p, z)
  \/ \E m \in Messages : NewMessage(m)

CodecSpec == CodecInit /\ [][CodecNext]_codecVars

-----------------------------------------------------------------------------
(* Properties *)

\* In every process the two maps of the dictionary are inverse to one another, also
\* after calls of SetDictionary that failed half-way: a code stands for one route.
DictionariesInvert ==
  \A p \in Procs :
    /\ \A r \in DOMAIN routes[p] :
         routes[p][r] \in DOMAIN codes[p] /\ codes[p][routes[p][r]] = r
    /\ \A c \in DOMAIN codes[p] :
         codes[p][c] \in DOMAIN routes[p] /\ routes[p][codes[p][c]] = c

\* q knows the routes of p under the same codes.
Understands(q, p) ==
  \A r \in DOMAIN routes[p] :
    routes[p][r] \in DOMAIN codes[q] /\ codes[q][routes[p][r]] = r

\* What was encoded is what is decoded, at any later time, by any process that knows
\* the sender's routes: dictionaries only grow, and the flag, the ID, the route and
\* the data are read back as written.  A route of 256 bytes or more must be in the
\* dictionary, and a message must not have been compressed by an earlier Encode.
RoundTrip ==
  \A w \in {wire[i] : i \in DOMAIN wire}, q \in Procs :
    LET o == original[1]
        m == decode(w.bytes, codes[q])
        coded == Has(w.bytes[1], msgRouteCompressMask)
    IN w.whole /\ Understands(q, w.by) /\ (routable(o.Type) /\ ~coded => Len(o.Route) < 256)
       => /\ m.err = "" /\ m.Type = o.Type /\ m.Err = o.Err /\ m.Data = o.Data
          /\ o.Type \in {Request, Response} => m.ID = o.ID
          /\ routable(o.Type) => m.Route = o.Route
=============================================================================
