------------------------------- MODULE Reply -------------------------------
(***************************************************************************)
(* What the coordinator promises a caller about one answer: it shows what  *)
(* the engine said, in the order in which it was said, nothing else and    *)
(* nothing twice; it calls the answer finished only when the engine called *)
(* it complete and all of it has been shown; and an answer that is not     *)
(* finished is called failed, unless there is an excuse for saying nothing *)
(* (the caller left).                                                      *)
(***************************************************************************)
EXTENDS Sequences, Naturals

VARIABLES said, complete,   \* the engine's answer so far, and whether that is all
          shown, end,       \* the caller's view of it, and how it ended
          excused

replyVars == <<said, complete, shown, end, excused>>

Begins(s, t) == Len(s) <= Len(t) /\ SubSeq(t, 1, Len(s)) = s

ReplyInit ==
    /\ shown = <<>> /\ end = "open"
    /\ said \in Seq([on : {"text", "thinking", "tool"} \X Nat, span : Nat]) /\ complete \in BOOLEAN
    /\ excused \in BOOLEAN

Engine ==
    /\ Begins(said, said') /\ ~complete
    /\ UNCHANGED <<shown, end>>
Excuse == excused' /\ UNCHANGED <<said, complete, shown, end>>
Show ==
    /\ end = "open"
    /\ Begins(shown, shown') /\ Begins(shown', said)
    /\ end' \in {"open", "failed"}
    /\ UNCHANGED <<said, complete, excused>>
Finish ==
    /\ end = "open" /\ complete
    /\ Begins(shown, said) /\ shown' = said /\ end' = "finished"
    /\ UNCHANGED <<said, complete, excused>>
Cut ==
    /\ end = "open" /\ excused'
    /\ Begins(shown, shown') /\ Begins(shown', said)
    /\ end' = "cut"
    /\ UNCHANGED <<said, complete>>

ReplyNext == Engine \/ Excuse \/ Show \/ Finish \/ Cut
ReplySpec == ReplyInit /\ [][ReplyNext]_replyVars
=============================================================================
