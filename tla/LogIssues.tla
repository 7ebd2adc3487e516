----------------------------- MODULE LogIssues ------------------------------
(***************************************************************************)
(* The log processor: it takes the logs of a service out of the table,     *)
(* counts the equal ones and opens a GitHub issue for the most frequent.   *)
(* Two things keep an issue from being opened twice: the list of the       *)
(* repository's issues, and the table of the hashes already processed.     *)
(* The cron job and the handler of /process may run at the same time.      *)
(*                                                                         *)
(* One service.  A log is its hash; logs may share a message.              *)
(***************************************************************************)
EXTENDS Naturals, FiniteSets, FiniteSetsExt

CONSTANTS
    Log,           \* the hashes
    MessageOf,     \* the message of a log
    Bracketed,     \* the messages with a part in brackets: no title gives them back
    Worker,        \* the cron job and the handler
    MaxIssues,     \* maxGithubIssuesPerService
    Attempts,      \* of retrier.Retry
    MaxArrivals,   \* bound on the rows that come into the table
    MaxFailures    \* bound on failures of GitHub and of the database, and crashes

VARIABLES
    rows,          \* the logs table: rows by hash
    arrived,
    workers,
    issues,        \* the issues opened for each hash
    processed,     \* the processed_logs table
    failures,
    retried,       \* history: hashes whose creation was repeated after an answer was lost
    crossed,       \* history: hashes that two workers had at once
    unrecorded,    \* history: hashes issued whose record was lost
    blind          \* history: hashes handled without the list of issues

historyPart == <<retried, crossed, unrecorded, blind>>
issueVars == <<rows, arrived, workers, issues, processed, failures, historyPart>>

Nobody == [phase |-> "idle", left |-> {}, counts |-> [l \in Log |-> 0], known |-> {},
           listed |-> TRUE, entry |-> {}, tries |-> 0, done |-> {}]

IssueInit ==
    /\ rows = [l \in Log |-> 0] /\ arrived = 0
    /\ workers = [w \in Worker |-> Nobody]
    /\ issues = [l \in Log |-> 0] /\ processed = {}
    /\ failures = 0
    /\ retried = {} /\ crossed = {} /\ unrecorded = {} /\ blind = {}

\* BulkCopyLogs brings a row.
LogArrives(l) ==
    /\ arrived < MaxArrivals
    /\ arrived' = arrived + 1
    /\ rows' = [rows EXCEPT ![l] = @ + 1]
    /\ UNCHANGED <<workers, issues, processed, failures, historyPart>>

\* The rows are deleted as they are read: buildLogMap counts them, and the rest of
\* those that are not among the most frequent is forgotten.
Top(counts) ==
    LET present == {l \in Log : counts[l] > 0}
        size == Min({MaxIssues, Cardinality(present)})
    IN  {S \in SUBSET present : Cardinality(S) = size
                                /\ \A l \in S, k \in present \ S : counts[l] >= counts[k]}

Has(w, l) == l \in workers[w].left \cup workers[w].entry \cup workers[w].done

ProcessLogs(w) ==
    /\ workers[w].phase = "idle" /\ \E l \in Log : rows[l] > 0
    /\ \E S \in Top(rows) :
          /\ workers' = [workers EXCEPT ![w] = [Nobody EXCEPT !.phase = "list", !.left = S, !.counts = rows]]
          /\ crossed' = crossed \cup {l \in S : \E v \in Worker \ {w} : Has(v, l)}
    /\ rows' = [l \in Log |-> 0]
    /\ UNCHANGED <<arrived, issues, processed, failures, retried, unrecorded, blind>>

\* A title is the message behind two tags; the tags and every other part in brackets
\* are cut off again.
Titles == {MessageOf[l] : l \in {k \in Log : issues[k] > 0 /\ MessageOf[k] \notin Bracketed}}

\* When the issues cannot be listed the worker goes on without them.
fetchCurrentIssues(w) ==
    /\ workers[w].phase = "list"
    /\ \/ workers' = [workers EXCEPT ![w].phase = "next", ![w].known = Titles] /\ UNCHANGED failures
       \/ /\ failures < MaxFailures /\ failures' = failures + 1
          /\ workers' = [workers EXCEPT ![w].phase = "next", ![w].listed = FALSE]
    /\ UNCHANGED <<rows, arrived, issues, processed, historyPart>>

\* A mutant: the list is not asked.
TableKnows(w, l) == l \in processed

AlreadyDone(w, l) ==
    \/ l \in processed
    \/ MessageOf[l] \in workers[w].known

\* The next entry, the most frequent first, unless the table cannot be asked, or one
\* of the two knows it.
NextEntry(w, l) ==
    /\ workers[w].phase = "next" /\ l \in workers[w].left
    /\ \A k \in workers[w].left : workers[w].counts[l] >= workers[w].counts[k]
    /\ \/ /\ failures < MaxFailures /\ failures' = failures + 1
          /\ workers' = [workers EXCEPT ![w].left = @ \ {l}]
       \/ /\ IF AlreadyDone(w, l)
             THEN workers' = [workers EXCEPT ![w].left = @ \ {l}]
             ELSE workers' = [workers EXCEPT ![w].left = @ \ {l}, ![w].phase = "create",
                                             ![w].entry = {l}, ![w].tries = 0]
          /\ UNCHANGED failures
    /\ UNCHANGED <<rows, arrived, issues, processed, historyPart>>

Opens(w, l) ==
    /\ issues' = [issues EXCEPT ![l] = @ + 1]
    /\ blind' = IF workers[w].listed THEN blind ELSE blind \cup {l}

Create(w, l) ==
    /\ workers[w].phase = "create" /\ l \in workers[w].entry
    /\ Opens(w, l)
    /\ workers' = [workers EXCEPT ![w].phase = "next", ![w].entry = {}, ![w].done = @ \cup {l}]
    /\ UNCHANGED <<rows, arrived, processed, failures, retried, crossed, unrecorded>>

\* An attempt fails, before GitHub acted or after; the last one gives the entry up.
CreateFails(w, l) ==
    /\ workers[w].phase = "create" /\ l \in workers[w].entry /\ failures < MaxFailures
    /\ failures' = failures + 1
    /\ \/ Opens(w, l) /\ retried' = retried \cup {l}
       \/ UNCHANGED <<issues, blind, retried>>
    /\ workers' = [workers EXCEPT ![w] =
          IF @.tries + 1 < Attempts THEN [@ EXCEPT !.tries = @ + 1]
          ELSE [@ EXCEPT !.phase = "next", !.entry = {}]]
    /\ UNCHANGED <<rows, arrived, processed, crossed, unrecorded>>

\* The hashes are recorded together after the last entry.
RecordProcessed(w) ==
    /\ workers[w].phase = "next" /\ workers[w].left = {}
    /\ workers' = [workers EXCEPT ![w] = Nobody]
    /\ \/ processed' = processed \cup workers[w].done /\ UNCHANGED <<failures, unrecorded>>
       \/ /\ workers[w].done # {} /\ failures < MaxFailures /\ failures' = failures + 1
          /\ unrecorded' = unrecorded \cup workers[w].done /\ UNCHANGED processed
    /\ UNCHANGED <<rows, arrived, issues, retried, crossed, blind>>

\* The process stops: both workers lose what they had taken.
Crash ==
    /\ failures < MaxFailures /\ failures' = failures + 1
    /\ workers' = [w \in Worker |-> Nobody]
    /\ unrecorded' = unrecorded \cup UNION {workers[w].done : w \in Worker}
    /\ UNCHANGED <<rows, arrived, issues, processed, retried, crossed, blind>>

IssueNext ==
    \/ \E l \in Log : LogArrives(l)
    \/ \E w \in Worker :
          \/ ProcessLogs(w) \/ fetchCurrentIssues(w) \/ RecordProcessed(w)
          \/ \E l \in Log : NextEntry(w, l) \/ Create(w, l) \/ CreateFails(w, l)
    \/ Crash

-----------------------------------------------------------------------------
(* Properties.                                                             *)

\* A log gets a second issue only when its creation was repeated after a lost answer,
\* when two workers had it at once, or when both guards failed it: its record was lost
\* and its message is not among the titles, cut off or not listed (CreateGithubIssue).
IssueOnce ==
    \A l \in Log : issues[l] > 1 =>
        \/ l \in retried \cup crossed
        \/ l \in unrecorded /\ (l \in blind \/ MessageOf[l] \in Bracketed)

=============================================================================
