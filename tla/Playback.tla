------------------------------- MODULE Playback -------------------------------
(***************************************************************************)
(* The other half of FeedingMediaPipelineClient (src/common/MediaFeed.cpp  *)
(* 428-658): it records every notification, and the test thread reads or   *)
(* waits on the record.  Nothing recorded is ever cleared.  With it, the   *)
(* server's playback (external): synchronous calls only enqueue a task for *)
(* the server's worker thread, and notifications travel to the client IPC  *)
(* thread, which delivers them between two need-data handlers.             *)
(* Every case attaches one source, so notifications carry no source id.    *)
(***************************************************************************)
EXTENDS MediaFeed, CaseScript

VARIABLES
  seen,     \* what the client has recorded
  notices,  \* notifications on their way to the client IPC thread
  tasks,    \* the server's worker thread: what it has still to apply
  srv,      \* the server's playback
  head      \* history: first frame of s accepted since it was last flushed

playbackVars == <<shown, fault, seen, notices, tasks, srv, head>>

\* "No value" is none of the states a client may have recorded.
ASSUME PlaybackAssumption ==
  None \notin {"UNKNOWN", "PAUSED", "PLAYING", "SEEKING", "SEEK_DONE", "END_OF_STREAM",
               "STOPPED", "FAILURE"}

-----------------------------------------------------------------------------
Answering(call) == fault # Misanswers(call)

PlaybackStates == {"PAUSED", "PLAYING", "SEEKING", "SEEK_DONE", "END_OF_STREAM",
                   "STOPPED", "FAILURE"}

PlaybackInit(preset) ==
  /\ Init
  /\ seen = [states |-> {}, lastState |-> "UNKNOWN", events |-> {},
             stateAtLastError |-> None, requested |-> FALSE, noSpace |-> FALSE,
             error |-> FALSE]
  /\ notices = << >>
  /\ tasks = << >>
  /\ srv = [state |-> "IDLE", target |-> "PAUSED", seeking |-> FALSE,
            property |-> preset, corrupt |-> FALSE, starved |-> FALSE]
  /\ head = [s \in Sources |-> None]

-----------------------------------------------------------------------------
(***************************************************************************)
(* The recording client.                                                   *)
(***************************************************************************)

\* Mutation: only the state last notified is kept.
RecordLastState(state) == [seen EXCEPT !.states = {state}, !.lastState = state]

NotifyPlaybackState(state) ==
  [seen EXCEPT !.states = @ \cup {state}, !.lastState = state]

NotifyPlaybackError == [seen EXCEPT !.stateAtLastError = seen.lastState]

\* notifyNetworkState, notifyBufferUnderflow, notifySourceFlushed.
NotifyEvent(event) == [seen EXCEPT !.events = @ \cup {event}]

\* The IPC thread delivers the next notification, when no handler is running.
Notify ==
  /\ notices # << >> /\ cb.phase = "idle"
  /\ LET n == Head(notices) IN
       seen' = CASE n \in PlaybackStates -> NotifyPlaybackState(n)
                 [] n = "ERROR"          -> NotifyPlaybackError
                 [] OTHER                -> NotifyEvent(n)
  /\ notices' = Tail(notices)
  /\ UNCHANGED <<vars, fault, shown, tasks, srv, head>>

-----------------------------------------------------------------------------
(***************************************************************************)
(* The server's playback.                                                  *)
(***************************************************************************)

\* At this event the server sends `sent', as far as its fault lets it.
Emit(event, sent) ==
  LET spoilt == fault.kind = "spoils" /\ fault.what = event /\ ~shown
      lost   == fault = Silences(event) /\ sent # << >>
  IN /\ notices' = notices \o (IF spoilt THEN <<fault.by>> ELSE << >>)
                           \o (IF lost THEN << >> ELSE sent)
     /\ shown' = (shown \/ spoilt \/ lost)

\* The server has data of every source since it was last flushed.
HasData == \A s \in Sources : head[s] # None \/ ended[s]

CanPreroll    == /\ srv.state = "IDLE" /\ srv.target # "STOPPED"
                 /\ allAttached /\ HasData
CanStart      == srv.state = "PAUSED" /\ srv.target = "PLAYING"
CanPause      == srv.state = "PLAYING" /\ srv.target = "PAUSED"
CanStop       == srv.state # "STOPPED" /\ srv.target = "STOPPED"
CanFinishSeek == srv.seeking /\ HasData
CanEnd(short) == /\ short /\ srv.state = "PLAYING"
                 /\ \A s \in Sources : ended[s]

Become(state, event) ==
  /\ srv' = [srv EXCEPT !.state = state]
  /\ Emit(event, <<state>>)

\* IDLE -> PAUSED -> PLAYING -> END_OF_STREAM -> STOPPED, the last one announced
\* or not (coverage/interface-definition-gaps.md, IDG-004 and IDG-005).
Play(short) ==
  /\ \/ CanPreroll /\ Become("PAUSED", "preroll")
     \/ CanStart /\ Become("PLAYING", "play")
     \/ CanPause /\ Become("PAUSED", "pause")
     \/ /\ CanStop
        /\ srv' = [srv EXCEPT !.state = "STOPPED"]
        /\ \E sent \in {<< >>, <<"STOPPED">>} : Emit("stop", sent)
     \/ /\ CanFinishSeek
        /\ srv' = [srv EXCEPT !.seeking = FALSE]
        /\ Emit("seekDone", <<"SEEK_DONE">>)
     \/ CanEnd(short) /\ Become("END_OF_STREAM", "eos")
  /\ UNCHANGED <<vars, fault, seen, tasks, head>>

Task(do, value) == [do |-> do, value |-> value]

\* The worker thread applies what a synchronous call has enqueued.
Work ==
  /\ tasks # << >>
  /\ tasks' = Tail(tasks)
  /\ LET t == Head(tasks) IN
       \/ /\ t.do \in {"PLAYING", "PAUSED", "STOPPED"}
          /\ srv' = [srv EXCEPT !.target = t.do]
          /\ UNCHANGED <<notices, shown>>
       \/ /\ t.do = "flush"
          /\ Emit("flush", <<"FLUSHED">>)
          /\ UNCHANGED srv
       \/ /\ t.do = "seek"
          /\ srv' = [srv EXCEPT !.seeking = TRUE]
          /\ Emit("seek", <<"SEEKING">>)
       \/ /\ t.do = "write"
          /\ srv' = [srv EXCEPT !.property =
                       IF fault.kind \in {"ignores", "lacks"} THEN @ ELSE t.value]
          /\ shown' = (shown \/ fault.kind = "ignores")
          /\ UNCHANGED notices
  /\ UNCHANGED <<vars, fault, seen, head>>

\* A feed step, with what the client records and the server notifies at it.  A
\* conforming server takes every segment it asked for, has no space at most for
\* those beyond, and calls only a cancelled request an error.
Feed ==
  /\ \E s \in Sources :
       \/ /\ DropRequest(s) \/ StarveRequest(s) \/ StartRound(s)
          /\ seen' = [seen EXCEPT !.requested = TRUE]
          /\ UNCHANGED <<notices, shown, head, srv>>
       \/ /\ AnswerStarved(s)
          /\ \E sent \in {<< >>, <<"UNDERFLOW">>} :
               /\ sent # << >> => /\ "UNDERFLOW" \notin seen.events
                                  /\ \A k \in DOMAIN notices : notices[k] # "UNDERFLOW"
               /\ Emit("starve", sent)
          /\ srv' = [srv EXCEPT !.starved = TRUE]
          /\ UNCHANGED <<seen, head>>
       \/ /\ AcceptSegment(s)
          /\ fault = RejectsSegment => shown
          /\ head' = [head EXCEPT ![s] = IF @ = None THEN cb.first + cb.accepted
                                                     ELSE @]
          /\ \/ UNCHANGED <<notices, shown>>
             \/ /\ srv.corrupt /\ seen.stateAtLastError = None
                /\ \A k \in DOMAIN notices : notices[k] # "ERROR"
                /\ Emit("error", <<"ERROR">>)
          /\ UNCHANGED <<seen, srv>>
       \/ /\ RejectSegment(s, "NO_SPACE")
          /\ \A n \in FrameCounts : cb.accepted >= n
          /\ seen' = [seen EXCEPT !.noSpace = TRUE]
          /\ Emit("full", << >>)
          /\ UNCHANGED <<head, srv>>
       \/ /\ RejectSegment(s, "ERROR")
          /\ \/ outstanding[s] # cb.id /\ UNCHANGED shown
             \/ fault = RejectsSegment /\ ~shown /\ shown' = TRUE
          /\ seen' = [seen EXCEPT !.error = TRUE]
          /\ UNCHANGED <<notices, head, srv>>
       \/ /\ CommitRound(s) \/ HaveData(s) \/ NotifyCancelNeedMediaData(s)
          /\ UNCHANGED <<seen, notices, shown, head, srv>>
  /\ UNCHANGED <<fault, tasks>>

Overlaps == Fault("overlaps", "need", "none")

\* The client has not answered, or not begun to answer, what it was asked last.
Unanswered == cb.phase # "idle" \/ \E k \in DOMAIN queue : queue[k].kind = "need"

Request ==
  /\ fault = Overlaps => ~Unanswered
  /\ Server /\ UNCHANGED playbackVars

\* At fault, the server gives a request up without a word once it has all the segments of
\* it, and sends another one before its haveData has come.
Overlap ==
  /\ fault = Overlaps
  /\ \/ /\ cb.phase = "answer"
        /\ \E s \in Sources : /\ outstanding[s] # None /\ s \notin silent
                                /\ FlushSource(s) /\ silent' = silent \cup {s}
        /\ UNCHANGED shown
     \/ Unanswered /\ Server /\ shown' = TRUE
  /\ UNCHANGED <<fault, seen, notices, tasks, srv, head>>

\* Nothing is under way any more, but for a starved server asking again and again.
Settled(short) ==
  /\ tasks = << >> /\ notices = << >> /\ queue = << >> /\ cb.phase = "idle"
  /\ ~(CanPreroll \/ CanStart \/ CanPause \/ CanStop \/ CanFinishSeek \/ CanEnd(short))
  /\ ~allAttached \/ (starve /\ srv.starved)
       \/ \A s \in Sources : outstanding[s] # None \/ ended[s]
===============================================================================
