----------------------------- MODULE AdminSync -----------------------------
(***************************************************************************)
(* The admin API's configuration: the configs and feeds tables, the sync   *)
(* with the published list (admin/config/controller.go sync, run by        *)
(* InitSyncDb at start and by the Sync handler whenever it is called), and *)
(* the handlers that insert and delete one config.  Every query is a step  *)
(* of its own: nothing holds a transaction or a lock over two of them.     *)
(* The intervals of a config are left out.  A database error (a list       *)
(* without intervals is one, the columns are NOT NULL) is Fails.           *)
(***************************************************************************)
EXTENDS Naturals, FiniteSets

CONSTANTS
  Lists,          \* the published lists: config name -> (feed name -> definition)
  Worker,         \* the requests under way
  MaxPublishes,   \* bound: how often a new list is published
  MaxCalls,       \* bound: requests
  MaxEdits,       \* bound: Insert and DeleteById calls among them
  MaxFailures     \* bound: queries that fail

VARIABLES
  published,      \* the list the config server serves
  configs,        \* rows [name, id] of the configs table
  feeds,          \* rows [name, config, definition, id] of the feeds table
  serial,         \* counts the inserting statements: with the unique columns
                  \* of a row it stands for the row's serial id
  request,        \* worker -> [at, list, doomed, ids]: the request it serves; doomed is
                  \* what a sync will delete, or the feeds an Insert has inserted
  agreed,         \* ghost: the one list the syncs since the last quiet moment
                  \* loaded, and no other request wrote; NoList otherwise
  complete,       \* ghost: one of those syncs has returned without an error
  publishes, calls, edits, failures

adminVars == <<published, configs, feeds, serial, request, agreed, complete,
               publishes, calls, edits, failures>>

NoList == [c \in {} |-> {}]

Idle == [at |-> "idle", list |-> NoList, doomed |-> {}, ids |-> {}]

Quiet == \A w \in Worker : request[w].at = "idle"

Names(list) == UNION {DOMAIN list[c] : c \in DOMAIN list}

Goes(w, at) == request' = [request EXCEPT ![w].at = at]

AdminInit ==
  /\ published \in Lists
  /\ configs = {} /\ feeds = {} /\ serial = 0
  /\ request = [w \in Worker |-> Idle]
  /\ agreed = NoList /\ complete = FALSE
  /\ publishes = 0 /\ calls = 0 /\ edits = 0 /\ failures = 0

-----------------------------------------------------------------------------
(* The steps of sync.                                                      *)

\* The list is loaded; a failed load ends the call before it began.
loads(w) ==
  /\ request[w].at = "idle" /\ calls < MaxCalls
  /\ request' = [request EXCEPT ![w] = [Idle EXCEPT !.at = "readConfigs", !.list = published]]
  /\ calls' = calls + 1
  /\ agreed' = IF Quiet \/ agreed = published THEN published ELSE NoList
  /\ complete' = (complete /\ ~Quiet /\ agreed = published)
  /\ UNCHANGED <<published, configs, feeds, serial, publishes, edits, failures>>

\* Mutant: every config is removed, to be inserted again.
removingAll(list) == {c.id : c \in configs}

\* The configs the list does not name
removingConfigs(list) == {c.id : c \in {d \in configs : d.name \notin DOMAIN list}}

readConfigs(w) ==
  /\ request[w].at = "readConfigs"
  /\ request' = [request EXCEPT ![w].at = "deleteConfigs",
                                ![w].doomed = removingConfigs(request[w].list)]
  /\ UNCHANGED <<published, configs, feeds, serial, agreed, complete, publishes, calls, edits, failures>>

\* The rows of feeds go with their config (ON DELETE CASCADE).
Delete(ids) ==
  /\ configs' = {c \in configs : c.id \notin ids}
  /\ feeds' = {f \in feeds : f.config \notin ids}

deleteConfigs(w) ==
  /\ request[w].at = "deleteConfigs"
  /\ Delete(request[w].doomed)
  /\ Goes(w, "readFeeds")
  /\ UNCHANGED <<published, serial, agreed, complete, publishes, calls, edits, failures>>

IdOf(f) == <<f.name, f.config, f.id>>

\* The feeds whose name no config of the list has
removingFeeds(list) == {f \in feeds : f.name \notin Names(list)}

readFeeds(w) ==
  /\ request[w].at = "readFeeds"
  /\ request' = [request EXCEPT ![w].at = "deleteFeeds",
                                ![w].doomed = {IdOf(f) : f \in removingFeeds(request[w].list)}]
  /\ UNCHANGED <<published, configs, feeds, serial, agreed, complete, publishes, calls, edits, failures>>

deleteFeeds(w) ==
  /\ request[w].at = "deleteFeeds"
  /\ feeds' = {f \in feeds : IdOf(f) \notin request[w].doomed}
  /\ Goes(w, "upsertConfigs")
  /\ UNCHANGED <<published, configs, serial, agreed, complete, publishes, calls, edits, failures>>

\* db.BulkUpsert on conflict of the name: a known config keeps its id.
bulkUpsertConfigs(w) ==
  /\ request[w].at = "upsertConfigs"
  /\ configs' = configs \cup {[name |-> n, id |-> <<n, serial>>] :
                                n \in DOMAIN request[w].list \ {c.name : c \in configs}}
  /\ serial' = serial + 1
  /\ Goes(w, "selectIds")
  /\ UNCHANGED <<published, feeds, agreed, complete, publishes, calls, edits, failures>>

\* db.BulkSelect of the names of the list
selectIds(w) ==
  /\ request[w].at = "selectIds"
  /\ request' = [request EXCEPT ![w].at = "upsertFeeds",
                                ![w].ids = {c \in configs : c.name \in DOMAIN request[w].list}]
  /\ UNCHANGED <<published, configs, feeds, serial, agreed, complete, publishes, calls, edits, failures>>

\* upsertRows: a config without an id is passed over
Rows(r) ==
  UNION {{[name |-> f, config |-> c.id, definition |-> r.list[c.name][f], id |-> serial] :
            f \in DOMAIN r.list[c.name]} : c \in r.ids}

SameKey(f, g) == f.name = g.name /\ f.config = g.config

\* db.BulkUpsert on conflict of (name, config_id): the definition is replaced,
\* the row keeps its id.
Upserted(rows) ==
  {f \in feeds : ~ \E r \in rows : SameKey(f, r)}
    \cup {[r EXCEPT !.id = IF \E f \in feeds : SameKey(f, r)
                           THEN (CHOOSE f \in feeds : SameKey(f, r)).id ELSE serial] : r \in rows}

\* The statement is refused as a whole when it has no row (no VALUES), or
\* when a config it names is gone (the foreign key).
Refused(rows) ==
  rows = {} \/ \E r \in rows : r.config \notin {c.id : c \in configs}

upsertFeeds(w) ==
  LET rows == Rows(request[w]) IN
  /\ request[w].at = "upsertFeeds"
  /\ feeds' = IF Refused(rows) THEN feeds ELSE Upserted(rows)
  /\ serial' = serial + 1
  /\ complete' = (complete \/ (~Refused(rows) /\ agreed = request[w].list))
  /\ request' = [request EXCEPT ![w] = Idle]
  /\ UNCHANGED <<published, configs, agreed, publishes, calls, edits, failures>>

\* An error of any query returns at once; what was written stays.
Fails(w) ==
  /\ request[w].at # "idle" /\ failures < MaxFailures
  /\ failures' = failures + 1
  /\ request' = [request EXCEPT ![w] = Idle]
  /\ UNCHANGED <<published, configs, feeds, serial, agreed, complete, publishes, calls, edits>>

-----------------------------------------------------------------------------
(* The other handlers that write, and the publisher of the list.           *)

\* Insert: the config first (its name is unique) ...
Insert(w) ==
  /\ request[w].at = "idle" /\ calls < MaxCalls /\ edits < MaxEdits
  /\ \E list \in Lists, n \in UNION {DOMAIN l : l \in Lists} :
       /\ n \in DOMAIN list
       /\ \A c \in configs : c.name # n
       /\ LET c == [name |-> n, id |-> <<n, serial>>] IN
            /\ configs' = configs \cup {c}
            /\ request' = [request EXCEPT ![w] =
                 [Idle EXCEPT !.at = "insertFeeds", !.ids = {c}, !.list = [m \in {n} |-> list[n]]]]
  /\ serial' = serial + 1
  /\ calls' = calls + 1 /\ edits' = edits + 1
  /\ agreed' = NoList /\ complete' = FALSE
  /\ UNCHANGED <<published, feeds, publishes, failures>>

\* ... then its feeds one by one; the first that is refused ends the call.
\* The answer is given when none is left.
insertFeeds(w) ==
  LET r == request[w]
      todo == {x \in Rows(r) : x.name \notin r.doomed} IN
  /\ r.at = "insertFeeds"
  /\ \/ /\ \E x \in todo :
             /\ ~Refused({x}) /\ \A f \in feeds : ~SameKey(f, x)
             /\ feeds' = feeds \cup {x}
             /\ request' = [request EXCEPT ![w].doomed = @ \cup {x.name}]
        /\ serial' = serial + 1
     \/ /\ todo = {} \/ \E x \in todo : Refused({x}) \/ \E f \in feeds : SameKey(f, x)
        /\ request' = [request EXCEPT ![w] = Idle]
        /\ UNCHANGED <<feeds, serial>>
  /\ UNCHANGED <<published, configs, agreed, complete, publishes, calls, edits, failures>>

DeleteById ==
  /\ calls < MaxCalls /\ edits < MaxEdits
  /\ \E c \in configs : Delete({c.id})
  /\ calls' = calls + 1 /\ edits' = edits + 1
  /\ agreed' = NoList /\ complete' = FALSE
  /\ UNCHANGED <<published, serial, request, publishes, failures>>

Publishes ==
  /\ publishes < MaxPublishes
  /\ \E list \in Lists \ {published} : published' = list
  /\ publishes' = publishes + 1
  /\ UNCHANGED <<configs, feeds, serial, request, agreed, complete, calls, edits, failures>>

AdminNext ==
  \/ \E w \in Worker :
       \/ loads(w) \/ readConfigs(w) \/ deleteConfigs(w) \/ readFeeds(w) \/ deleteFeeds(w)
       \/ bulkUpsertConfigs(w) \/ selectIds(w) \/ upsertFeeds(w) \/ Fails(w)
       \/ Insert(w) \/ insertFeeds(w)
  \/ DeleteById \/ Publishes

-----------------------------------------------------------------------------
\* What a sync promises (controller.go 57-157), however many of them overlap
\* and whichever queries of the others fail: once one of them has returned
\* without an error, all having loaded the same list and nobody else having
\* written, the configs are those of the list, each with its feeds at their
\* definitions, and no row has a feed name the list does not know.  (A feed
\* the list moved to another config is not deleted from the one it left: its
\* old row stays, with whatever definition it had.)
SyncedTables ==
  complete =>
    /\ {c.name : c \in configs} = DOMAIN agreed
    /\ \A c \in configs : \A n \in DOMAIN agreed[c.name] :
         \E f \in feeds : /\ f.name = n /\ f.config = c.id
                          /\ f.definition = agreed[c.name][n]
    /\ \A f \in feeds : f.name \in Names(agreed)

\* A config that stays in the list keeps its id through any number of syncs
\* of that list, overlapping or failing, so the rows that refer to it (feed
\* data, aggregates, proofs) are never cascaded away by a sync.
KeptConfigsKeepId ==
  [][agreed # NoList /\ agreed' = agreed =>
       \A c \in configs : c.name \in DOMAIN agreed => c \in configs']_adminVars
=============================================================================
