----------------------------- MODULE FairUpload -----------------------------
(***************************************************************************)
(* What must eventually happen to an upload, and what that takes of the    *)
(* executor, of the source and of the application.                         *)
(***************************************************************************)
EXTENDS FormUpload

\* A poll runs to its end, and the executor polls a task that was woken.
Running == (NextFieldStep \/ ChunkStep \/ FillNext) /\ UNCHANGED form

Executing == Repoll /\ UNCHANGED form

ExecutorFair == WF_uploadVars(Running) /\ WF_uploadVars(Executing)

\* A source that was pending wakes its task, and one that is polled again and
\* again has in the end something to say but "pending" and empty chunks.
Waking == SourceWake /\ UNCHANGED form

Answering == (FillTooMuch \/ FillChunk \/ FillEnd \/ FillError) /\ UNCHANGED form

SourceFair == WF_uploadVars(Waking) /\ SF_uploadVars(Answering)

\* The application drops a Field in the end, after any number of chunks and
\* refused calls, and then asks for the next one.  It may cancel any number of
\* calls.
Dropping == DropField /\ UNCHANGED form

Asking == CallNextField /\ field = NoField /\ UNCHANGED form

ApplicationFair == SF_uploadVars(Dropping) /\ WF_uploadVars(Asking)

FairSpec == UploadSpec /\ ExecutorFair /\ SourceFair /\ ApplicationFair

-----------------------------------------------------------------------------
\* A call that is made returns: no wake-up is lost in between, whether the
\* source sends chunks, empty chunks or nothing for a while, or ends.
CallReturns == (pc # "idle") ~> (pc = "idle")

\* Every upload comes to its end or to an error, also when calls are cancelled
\* for ever and fields are dropped at any point: a cancelled call loses nothing
\* that a later one would need.
Completes == <>(Verdict # "open")
=============================================================================
