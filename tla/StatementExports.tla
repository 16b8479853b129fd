--------------------------- MODULE StatementExports ---------------------------
(***************************************************************************)
(* Statement exports: StatementService.create_export() commits a queued row *)
(* and then hands it to the Celery broker, or to a task of its own process  *)
(* when that raises; generate_statement_export_for_id() writes the file and *)
(* the outcome.  A call to the broker may raise although the message went   *)
(* through, so an export can be generated by both at once.                  *)
(***************************************************************************)
EXTENDS UnitOfWork

CONSTANT Exports

VARIABLES
    export,     \* statement_exports: status, file_path
    ordering,   \* where create_export() is
    broker,     \* exports waiting for a worker
    jobAt,      \* where a generator is
    loadedAs,   \* the status as the session of a generator holds it
    file,       \* what is on disk
    doubled,    \* ghost: exports handed to both generators
    mishaps     \* ghost: exports of which a request, message or generator was lost

exportVars == <<export, ordering, broker, jobAt, loadedAs, file, doubled, mishaps>>

(* A generator runs in a worker or, as a fallback, in the server.            *)
Places == {"worker", "server"}
Jobs   == Exports \X Places

ExportStatus == {"absent", "queued", "processing", "completed", "failed"}
ExportRow    == [status: ExportStatus, path: BOOLEAN]
Settled      == {"completed", "failed"}
JobEnds      == {"none", "ended"}
JobLabels    == {"started", "selected", "reading", "writing", "written", "failing"} \cup JobEnds

ExportOf(j) == j[1]
Working(j)  == jobAt[j] \notin JobEnds
JobsOf(e)   == {j \in Jobs : ExportOf(j) = e /\ Working(j)}

ExportsInit ==
    /\ export = [e \in Exports |-> [status |-> "absent", path |-> FALSE]]
    /\ ordering = [e \in Exports |-> "unsent"]
    /\ broker = {}
    /\ jobAt = [j \in Jobs |-> "none"]
    /\ loadedAs = [j \in Jobs |-> "absent"]
    /\ file = [e \in Exports |-> "none"]
    /\ doubled = {}
    /\ mishaps = {}

-----------------------------------------------------------------------------
(* create_export().  The answer is queued whatever becomes of the hand-over. *)
OrderExport(e) ==
    /\ ordering[e] = "unsent"
    /\ export' = [export EXCEPT ![e].status = "queued"]
    /\ ordering' = [ordering EXCEPT ![e] = "committed"]
    /\ UNCHANGED <<broker, jobAt, loadedAs, file, doubled, mishaps>>

Handed(e) ==
    /\ ordering[e] = "committed"
    /\ ordering' = [ordering EXCEPT ![e] = "answered"]
    /\ UNCHANGED <<export, loadedAs, file, mishaps>>

Delay(e) ==
    /\ Handed(e)
    /\ broker' = broker \cup {e}
    /\ UNCHANGED <<jobAt, doubled>>

(* Seeded fault: a failing broker is ignored.                                *)
StartedNowhere(e) == jobAt

StartedHere(e) == [jobAt EXCEPT ![<<e, "server">>] = "started"]

DelayRaises(e) ==
    /\ Handed(e)
    /\ jobAt' = StartedHere(e)
    /\ \/ UNCHANGED <<broker, doubled>>
       \/ broker' = broker \cup {e} /\ doubled' = doubled \cup {e}

(* Celery acknowledges a message as its task starts.                         *)
TakeMessage(e) ==
    /\ e \in broker
    /\ broker' = broker \ {e}
    /\ jobAt' = [jobAt EXCEPT ![<<e, "worker">>] = "started"]
    /\ UNCHANGED <<export, ordering, loadedAs, file, doubled, mishaps>>

-----------------------------------------------------------------------------
(* generate_statement_export_for_id().                                       *)
JobGoes(j, from, label) ==
    /\ jobAt[j] = from
    /\ jobAt' = [jobAt EXCEPT ![j] = label]
    /\ UNCHANGED <<ordering, broker, doubled, mishaps>>

SelectExport(j) ==
    /\ JobGoes(j, "started", "selected")
    /\ loadedAs' = [loadedAs EXCEPT ![j] = export[ExportOf(j)].status]
    /\ UNCHANGED <<export, file>>

SaveStatus(j, status) ==
    /\ export' = [export EXCEPT ![ExportOf(j)] =
                     [status |-> Flushed(@.status, loadedAs[j], status),
                      path   |-> @.path \/ status = "completed"]]
    /\ loadedAs' = [loadedAs EXCEPT ![j] = status]
    /\ UNCHANGED file

CommitProcessing(j) == JobGoes(j, "selected", "reading") /\ SaveStatus(j, "processing")

OpenFile(j) ==
    /\ JobGoes(j, "reading", "writing")
    /\ file' = [file EXCEPT ![ExportOf(j)] = "partial"]
    /\ UNCHANGED <<export, loadedAs>>

CloseFile(j) ==
    /\ JobGoes(j, "writing", "written")
    /\ file' = [file EXCEPT ![ExportOf(j)] = "whole"]
    /\ UNCHANGED <<export, loadedAs>>

(* Seeded fault: the outcome is committed while the file is written.         *)
WrittenOrWriting == {"writing", "written"}

Written == {"written"}

CommitCompleted(j) ==
    /\ jobAt[j] \in Written
    /\ JobGoes(j, jobAt[j], "ended")
    /\ SaveStatus(j, "completed")

(* A full disk, say: the exception is recorded.                              *)
WriteFails(j) ==
    /\ jobAt[j] \in {"reading", "writing"}
    /\ JobGoes(j, jobAt[j], "failing")
    /\ UNCHANGED <<export, loadedAs, file>>

CommitFailed(j) == JobGoes(j, "failing", "ended") /\ SaveStatus(j, "failed")

-----------------------------------------------------------------------------
(* What nothing repairs: a process dies; the broker loses a message; the     *)
(* database fails, which the except branch cannot record in a transaction   *)
(* that is aborted; an error message longer than its column.                *)
Mishap(e) ==
    /\ mishaps' = mishaps \cup {e}
    /\ UNCHANGED <<export, loadedAs, file, doubled>>

LoseOrder(e) ==
    /\ ordering[e] = "committed"
    /\ Mishap(e)
    /\ ordering' = [ordering EXCEPT ![e] = "lost"]
    /\ UNCHANGED <<broker, jobAt>>

LoseMessage(e) ==
    /\ e \in broker
    /\ Mishap(e)
    /\ broker' = broker \ {e}
    /\ UNCHANGED <<ordering, jobAt>>

LoseJob(j) ==
    /\ Working(j)
    /\ Mishap(ExportOf(j))
    /\ jobAt' = [jobAt EXCEPT ![j] = "ended"]
    /\ UNCHANGED <<ordering, broker>>

HandOver(e) == Delay(e) \/ DelayRaises(e)
JobStep(j)  == \/ SelectExport(j) \/ CommitProcessing(j) \/ OpenFile(j) \/ CloseFile(j)
               \/ CommitCompleted(j) \/ WriteFails(j) \/ CommitFailed(j)

ExportsNext ==
    \/ \E e \in Exports : \/ OrderExport(e) \/ HandOver(e) \/ TakeMessage(e)
                          \/ LoseOrder(e) \/ LoseMessage(e)
    \/ \E j \in Jobs : JobStep(j) \/ LoseJob(j)

(* Handlers and generators proceed, and a worker runs and takes what waits   *)
(* (compose starts one under its worker profile).  Nothing forces an order, *)
(* a failure or a loss.                                                     *)
ExportsFairness ==
    /\ \A e \in Exports : WF_exportVars(HandOver(e)) /\ WF_exportVars(TakeMessage(e))
    /\ \A j \in Jobs : WF_exportVars(JobStep(j))

ExportsSpec == ExportsInit /\ [][ExportsNext]_exportVars /\ ExportsFairness

-----------------------------------------------------------------------------
ExportsTypeOK ==
    /\ export \in [Exports -> ExportRow]
    /\ ordering \in [Exports -> {"unsent", "committed", "answered", "lost"}]
    /\ broker \subseteq Exports
    /\ jobAt \in [Jobs -> JobLabels]
    /\ loadedAs \in [Jobs -> ExportStatus]
    /\ file \in [Exports -> {"none", "partial", "whole"}]
    /\ doubled \subseteq Exports
    /\ mishaps \subseteq Exports

(* Between the answer "queued" and the outcome an export is always in the     *)
(* hands of someone: its request, the broker or a generator.  Nothing else   *)
(* looks for rows left behind, so a row that nobody works on is one whose    *)
(* request, message or generator was lost.                                  *)
InHand(e) == ordering[e] = "committed" \/ e \in broker \/ JobsOf(e) # {}

NoExportForgotten ==
    \A e \in Exports :
        export[e].status \in {"queued", "processing"} => InHand(e) \/ e \in mishaps

(* A download is offered as soon as file_path is set: the file is whole then, *)
(* unless the export was handed to two generators, the second of which       *)
(* truncates the file the first one offered.                                *)
OfferedFilesAreWhole ==
    \A e \in Exports : export[e].path /\ e \notin doubled => file[e] = "whole"

(* Every export that was ordered is completed or failed in the end, also     *)
(* when the broker refuses it, when it is generated twice and when writing   *)
(* fails, as long as nothing is lost on the way.                             *)
ExportsSettle ==
    \A e \in Exports :
        export[e].status = "queued" ~> (export[e].status \in Settled \/ e \in mishaps)
=============================================================================
