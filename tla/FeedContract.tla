----------------------------- MODULE FeedContract -----------------------------
(***************************************************************************)
(* What a FeedingMediaPipelineClient promises the server, without saying   *)
(* how: each source's stream arrives from frame 0, in order, no frame      *)
(* skipped and none repeated, and the end of the stream is announced only  *)
(* once every frame has been accepted.  The one escape is a reposition     *)
(* (rewindSource) that overtakes a round already under way: from then on,  *)
(* and until a reposition between two rounds, nothing is promised.         *)
(***************************************************************************)
EXTENDS Naturals, Sequences

CONSTANTS Sources,      \* source ids returned by attachSource
          StreamLength  \* frames in the stream registered for a source

VARIABLES got,     \* got[s]: frames the server accepted since s was positioned
          voided,  \* sources repositioned in the middle of a round
          over     \* over[s]: the server has been told that s is at its end

contractVars == <<got, voided, over>>

Init == /\ got    = [s \in Sources |-> << >>]
        /\ voided = {}
        /\ over   = [s \in Sources |-> FALSE]

\* The next frame of the stream, and no other, is accepted.
Deliver(s) == /\ s \notin voided
              /\ Len(got[s]) < StreamLength
              /\ got' = [got EXCEPT ![s] = Append(@, Len(@))]
              /\ UNCHANGED <<voided, over>>

\* The caller moves the source back to its first frame between two rounds.
Reposition(s) == /\ got' = [got EXCEPT ![s] = << >>]
                 /\ voided' = voided \ {s}
                 /\ UNCHANGED over

\* The caller moves the source back while a round is being answered.
Overtake(s) == /\ got' = [got EXCEPT ![s] = << >>]
               /\ voided' = voided \cup {s}
               /\ UNCHANGED over

\* The end of the stream is announced.
Finish(s) == /\ s \notin voided => Len(got[s]) = StreamLength
             /\ over' = [over EXCEPT ![s] = TRUE]
             /\ UNCHANGED <<got, voided>>

\* The server flushes the source and may ask for it again.
Reopen(s) == /\ over' = [over EXCEPT ![s] = FALSE]
             /\ UNCHANGED <<got, voided>>

Next == \E s \in Sources : \/ Deliver(s) \/ Reposition(s) \/ Overtake(s)
                           \/ Finish(s)  \/ Reopen(s)

Spec == Init /\ [][Next]_contractVars
===============================================================================
