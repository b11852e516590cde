---------------------------- MODULE BrowserCapture ----------------------------
(***************************************************************************)
(* Capturing an Apple session from a browser: CaptureManager of            *)
(* browser_capture.py, its capture threads, and the console requests, the  *)
(* refresh and the shutdown that start and cancel them.                    *)
(*                                                                         *)
(* Simplifications: a section under the manager's lock is one step.  The   *)
(* statuses are published after it, outside the lock; the state that the   *)
(* console displays is left out.  Saving a session is HmeSession's; here   *)
(* it is stored or not, and the call ends well or with an error.  The      *)
(* clicks on Apple's pages and the error codes carry no control.           *)
(***************************************************************************)
EXTENDS Integers

CONSTANT MaxCaptures  \* bound: captures that are started

Capture == 1 .. MaxCaptures

VARIABLES
    current,    \* _job: the newest capture, 0 if there was none
    status,     \* the status of each capture
    cancelled,  \* those whose cancel_event is set
    thread,     \* where the thread of each capture stands
    stored      \* history: captures whose session was stored

vars == <<current, status, cancelled, thread, stored>>

Status ==
    {"none", "starting", "waiting_login", "verifying", "cancelling",
     "captured", "cancelled", "failed"}
Place == {"none", "open", "login", "found", "save", "failing", "saved", "unsaved", "done"}

Init ==
    /\ current = 0 /\ status = [c \in Capture |-> "none"] /\ cancelled = {}
    /\ thread = [c \in Capture |-> "none"] /\ stored = {}

-----------------------------------------------------------------------------
\* A mutant of Active: a capture that is being cancelled is over.
ActiveButCancelling == current # 0 /\ status[current] \in {"starting", "waiting_login", "verifying"}

\* CaptureStatus.active of the newest capture.
Active ==
    current # 0 /\ status[current] \in {"starting", "waiting_login", "verifying", "cancelling"}

Goto(c, place) == thread' = [thread EXCEPT ![c] = place]

\* start, from the console or after a refresh that Apple rejected.
Start ==
    /\ ~Active /\ current < MaxCaptures /\ current' = current + 1
    /\ status' = [status EXCEPT ![current'] = "starting"]
    /\ Goto(current', "open")
    /\ UNCHANGED <<cancelled, stored>>

\* cancel.
Cancel ==
    /\ Active
    /\ cancelled' = cancelled \cup {current}
    /\ status' = [status EXCEPT ![current] = "cancelling"]
    /\ UNCHANGED <<current, thread, stored>>

\* request_stop: the thread is alive, whatever its status.
RequestStop ==
    /\ current # 0 /\ thread[current] # "done"
    /\ cancelled' = cancelled \cup {current}
    /\ UNCHANGED <<current, status, thread, stored>>

-----------------------------------------------------------------------------
(* The thread of a capture: _run, with capture_hme_session.                *)

\* _transition: a capture that was cancelled keeps its status.
Transition(c, new) ==
    status' = IF current # c \/ c \in cancelled THEN status ELSE [status EXCEPT ![c] = new]

\* The template is read and the browser is opened, or one of them fails.
Open(c) ==
    /\ thread[c] = "open"
    /\ \/ \E place \in {"failing", "unsaved"} : Goto(c, place) /\ UNCHANGED status
       \/ c \notin cancelled /\ Goto(c, "login") /\ Transition(c, "waiting_login")
    /\ UNCHANGED <<current, cancelled, stored>>

\* Apple's sign-in is seen: a response, the cookies, or the button.
Authenticated(c) ==
    /\ thread[c] = "login" /\ Transition(c, "verifying")
    /\ UNCHANGED <<current, cancelled, thread, stored>>

\* handle_response sees the list with a usable session, unless it was cancelled.
Found(c) ==
    /\ thread[c] = "login" /\ c \notin cancelled /\ Goto(c, "found")
    /\ UNCHANGED <<current, status, cancelled, stored>>

\* A turn of the loop: a cancellation ends it, and what was found after the last
\* turn is returned.  The deadline passes, or the browser is closed.
Turn(c) ==
    /\ \/ thread[c] \in {"login", "found"} /\ c \in cancelled /\ Goto(c, "failing")
       \/ thread[c] = "found" /\ Goto(c, "save")
       \/ thread[c] \in {"login", "found"} /\ Goto(c, "failing")
    /\ UNCHANGED <<current, status, cancelled, stored>>

\* on_session: the session is stored, or a newer list has overtaken it, and the
\* call returns; it fails before it is stored, or in the upload after that.
Save(c) ==
    /\ thread[c] = "save"
    /\ \/ Goto(c, "saved") /\ stored' \in {stored, stored \cup {c}}
       \/ Goto(c, "unsaved") /\ stored' \in {stored, stored \cup {c}}
    /\ UNCHANGED <<current, status, cancelled>>

\* The status that _run gives the capture in the end.  Whether a CaptureError is
\* a cancellation is looked at before _finish takes the lock; an exception of
\* another kind is a failure.
Outcomes(c) ==
    IF thread[c] = "saved" THEN {"captured"}
    ELSE IF thread[c] = "failing" /\ c \in cancelled THEN {"cancelled", "failed"}
    ELSE {"failed"}

\* A mutant of Finish: it leaves a capture that was cancelled alone.
FinishCancelledNever(c) ==
    /\ thread[c] \in {"failing", "saved", "unsaved"} /\ Goto(c, "done")
    /\ \E outcome \in Outcomes(c) : Transition(c, outcome)
    /\ UNCHANGED <<current, cancelled, stored>>

\* _finish.
Finish(c) ==
    /\ thread[c] \in {"failing", "saved", "unsaved"} /\ Goto(c, "done")
    /\ \E outcome \in Outcomes(c) :
           status' = IF current = c THEN [status EXCEPT ![c] = outcome] ELSE status
    /\ UNCHANGED <<current, cancelled, stored>>

-----------------------------------------------------------------------------
Run(c) == Open(c) \/ Found(c) \/ Turn(c) \/ Save(c) \/ Finish(c)

Next ==
    \/ Start \/ Cancel \/ RequestStop
    \/ \E c \in Capture : Run(c) \/ Authenticated(c)

Spec == Init /\ [][Next]_vars

\* The deadline of a capture comes, and its thread goes on.
FairSpec == Spec /\ \A c \in Capture : WF_vars(Run(c))
-----------------------------------------------------------------------------
CaptureTypeOK ==
    /\ current \in Capture \cup {0} /\ status \in [Capture -> Status]
    /\ cancelled \subseteq Capture /\ thread \in [Capture -> Place]
    /\ stored \subseteq Capture

\* Only one capture at a time has the browser and its profile, and it is the one
\* the manager knows, can cancel and shows as active; a capture that is shown as
\* cancelled has not replaced the stored session.  Starts, cancellations, stops
\* and the end of a capture may come in any order.
CaptureAlone ==
    /\ \A c \in Capture : thread[c] \notin {"none", "done"} => c = current /\ Active
    /\ \A c \in Capture : status[c] = "cancelled" => c \notin stored

\* What that rests on: captures are started in order, and a stored session is
\* one of a capture that has left "save".
CaptureOrder ==
    /\ \A c \in Capture : c > current => thread[c] = "none"
    /\ \A c \in stored : thread[c] \in {"saved", "unsaved", "done"}

CaptureInvariant == CaptureTypeOK /\ CaptureOrder /\ CaptureAlone

\* A capture that was started comes to an end, so that the next can be started.
CapturesEnd == Active ~> ~Active
=============================================================================
