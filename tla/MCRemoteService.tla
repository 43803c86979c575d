--------------------------- MODULE MCRemoteService ---------------------------
(* Instance of RemoteService for TLC.  The gate's application makes the call `ask',
   whose handler on a game server makes the call `back' to the gate, whose handler
   makes the call `again' to a game server: to the one that runs `ask', or to the
   other, or to a type nobody has.  All three belong to one player; of the game servers one has a worker
   pool and one only the semaphore. *)
EXTENDS RemoteService

CONSTANTS ask, back, again

MCTypeOf == [s \in Servers |-> IF s = "gate" THEN "gate" ELSE "game"]
MCParent == [c \in Calls |-> CASE c = back -> ask [] c = again -> back [] OTHER -> NoCall]
MCShare == [c \in Calls |-> "player"]
To(mt, type, id, form) == [mt |-> mt, svType |-> type, toID |-> id, form |-> form]
MCInputs ==
  [c \in Calls |->
     CASE c = ask   -> {To("Request", "game", "", "good")}
       [] c = back  -> {To("Request", "gate", "gate", "good"),
                        To("Request", "game", "", "good")}
       [] c = again -> {To("Request", "game", "", "good"),
                        To("Request", "gate", "game1", "badReply"),
                        To("Request", "game", "", "badArg"),
                        To("Request", "chat", "", "good"),
                        To("Notify", "game", "", "unknown")}]
\* A hook that gives untyped errors a code of the application.
MCAfterHooks == << [r \in Results |-> IF r = "plain" THEN "APP" ELSE r] >>
=============================================================================
