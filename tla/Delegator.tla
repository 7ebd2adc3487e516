------------------------------ MODULE Delegator ------------------------------
(***************************************************************************)
(* The delegator: the service that signs transactions as their fee payer.  *)
(* It is asked by the chain helper of a node (/sign/v2) and by services    *)
(* that build the payload themselves (/sign); its tables of contracts,     *)
(* functions, organizations and reporters are edited while it signs.       *)
(*                                                                         *)
(* An address is <<a, form>>: hexadecimal text is written in lower case or *)
(* with upper case letters, and the tables compare text.                   *)
(***************************************************************************)
EXTENDS Integers, FiniteSets

CONSTANTS
    Address,          \* of contracts
    Function,         \* names of functions
    Request,
    MaxEdits,         \* bound on edits of the tables
    MaxCutOffs        \* bound on answers the helper does not wait for

VARIABLES
    contract,         \* the address in each row of contracts, None for no row
    function,         \* registered functions <<contract row, name>>
    org, reporter,    \* whether the organization exists; the form of the reporter's address
    connected,        \* the contract rows connected with the reporter
    cached,           \* validContracts, which lives as long as its request
    feePayer,         \* the delegator's fee payer key, empty for none
    request,          \* state of the requests
    edits, cutOffs,
    chain             \* transactions sent to the chain

delegatorVars == <<contract, function, org, reporter, connected, cached, feePayer, request, edits,
                   cutOffs, chain>>

None == <<"none">>
Row == {1, 2}
Form == {"lower", "mixed"}
ToLower(a) == <<a[1], "lower">>
ReporterKey == "key"

-----------------------------------------------------------------------------
(* Transactions. A signature is over the content of the transaction.       *)

Content(tx) == [from |-> tx.from, to |-> tx.to, fn |-> tx.fn, nonce |-> tx.nonce, gas |-> tx.gas,
                gasPrice |-> tx.gasPrice]

Sign(tx) == [tx EXCEPT !.sig = [v |-> "v", r |-> "r", s |-> "s", over |-> Content(tx)]]

Valid(tx) == tx.sig = [v |-> "v", r |-> "r", s |-> "s", over |-> Content(tx)]

DEFAULT_GAS_LIMIT == 6

NewTx(to, fn, estimated) ==
    [from |-> ReporterKey, to |-> to, fn |-> fn, nonce |-> 7, gasPrice |-> 25,
     gas |-> IF estimated < DEFAULT_GAS_LIMIT THEN DEFAULT_GAS_LIMIT ELSE estimated,
     sig |-> "none", payer |-> "none"]

MakeFeeDelegatedTx(to, fn, estimated) == Sign(NewTx(to, fn, estimated))
MakeDirectTx(to, fn, estimated) == [Sign(NewTx(to, fn, estimated)) EXCEPT !.payer = "self"]

\* The digits of n, in base 10, read in base 16.
AsHex(n) == 16 * (n \div 10) + (n % 10)

\* The gas price is written in decimal after "0x", and r, s, v go into the fields v, r, s.
MakePayload(tx) ==
    [from |-> tx.from, to |-> tx.to, fn |-> tx.fn, nonce |-> tx.nonce, gas |-> tx.gas,
     gasPrice |-> AsHex(tx.gasPrice),
     sig |-> [tx.sig EXCEPT !.v = tx.sig.r, !.r = tx.sig.s, !.s = tx.sig.v], rawTx |-> tx]

\* What a service that uses /sign sends.
PayloadOf(tx) ==
    [from |-> tx.from, to |-> tx.to, fn |-> tx.fn, nonce |-> tx.nonce, gas |-> tx.gas,
     gasPrice |-> tx.gasPrice, sig |-> tx.sig, rawTx |-> tx]

CreateUnsignedTx(p) ==
    [from |-> p.from, to |-> p.to, fn |-> p.fn, nonce |-> p.nonce, gas |-> p.gas,
     gasPrice |-> p.gasPrice, sig |-> p.sig, payer |-> "none"]

updateFeePayer(p, payer) == [p.rawTx EXCEPT !.payer = payer]

signTxByFeePayer(p, payer) == [CreateUnsignedTx(p) EXCEPT !.payer = payer]
signTxByFeePayerV2(p, payer) == updateFeePayer(p, payer)

-----------------------------------------------------------------------------
(* The tables.                                                             *)

DelegatorInit ==
    /\ contract = [i \in Row |-> IF i = 1 THEN <<CHOOSE a \in Address : TRUE, "lower">> ELSE None]
    /\ function = {<<1, CHOOSE f \in Function : TRUE>>}
    /\ \/ org = TRUE /\ reporter = "lower" /\ connected = {1}
       \/ org \in BOOLEAN /\ reporter = "none" /\ connected = {}
    /\ cached = [r \in Request |-> {}]
    /\ feePayer \in {"", "k1"}
    /\ request = [r \in Request |-> [at |-> "idle"]]
    /\ edits = 0 /\ cutOffs = 0 /\ chain = {}

Edit == edits < MaxEdits /\ edits' = edits + 1

\* contract: insert writes the address in lower case, update as it is given.
insertContract(i, a) ==
    /\ Edit /\ contract[i] = None /\ \A j \in Row : contract[j] # <<a, "lower">>
    /\ contract' = [contract EXCEPT ![i] = <<a, "lower">>]
    /\ UNCHANGED <<function, org, reporter, connected, cached, feePayer, request, cutOffs, chain>>

updateContract(i, a, f) ==
    /\ Edit /\ contract[i] # None /\ \A j \in Row \ {i} : contract[j] # <<a, f>>
    /\ contract' = [contract EXCEPT ![i] = <<a, f>>]
    /\ UNCHANGED <<function, org, reporter, connected, cached, feePayer, request, cutOffs, chain>>

\* A contract with functions is not deleted; its connections are deleted with it.
deleteContract(i) ==
    /\ Edit /\ contract[i] # None /\ \A f \in function : f[1] # i
    /\ contract' = [contract EXCEPT ![i] = None]
    /\ connected' = connected \ {i}
    /\ UNCHANGED <<function, org, reporter, cached, feePayer, request, cutOffs, chain>>

\* connectReporter, which answers alike when there is no such row, and disconnectReporter.
connectReporter(i) ==
    /\ Edit
    /\ connected' = IF contract[i] # None /\ reporter # "none" THEN connected \cup {i} ELSE connected
    /\ UNCHANGED <<contract, function, org, reporter, cached, feePayer, request, cutOffs, chain>>

disconnectReporter(i) ==
    /\ Edit /\ connected' = connected \ {i}
    /\ UNCHANGED <<contract, function, org, reporter, cached, feePayer, request, cutOffs, chain>>

insertFunction(i, f) ==
    /\ Edit /\ contract[i] # None /\ <<i, f>> \notin function
    /\ function' = function \cup {<<i, f>>}
    /\ UNCHANGED <<contract, org, reporter, connected, cached, feePayer, request, cutOffs, chain>>

updateFunction(f, i, name) ==
    /\ Edit /\ contract[i] # None /\ <<i, name>> \notin function
    /\ function' = (function \ {f}) \cup {<<i, name>>}
    /\ UNCHANGED <<contract, org, reporter, connected, cached, feePayer, request, cutOffs, chain>>

deleteFunction(f) ==
    /\ Edit /\ function' = function \ {f}
    /\ UNCHANGED <<contract, org, reporter, connected, cached, feePayer, request, cutOffs, chain>>

\* reporter: like the contracts; an organization is deleted with its reporters.
insertReporter ==
    /\ Edit /\ reporter = "none" /\ org /\ reporter' = "lower"
    /\ UNCHANGED <<contract, function, org, connected, cached, feePayer, request, cutOffs, chain>>

updateReporter(f) ==
    /\ Edit /\ reporter # "none" /\ reporter' = f
    /\ UNCHANGED <<contract, function, org, connected, cached, feePayer, request, cutOffs, chain>>

deleteReporter ==
    /\ Edit /\ reporter # "none" /\ reporter' = "none" /\ connected' = {}
    /\ UNCHANGED <<contract, function, org, cached, feePayer, request, cutOffs, chain>>

insertOrganization ==
    /\ Edit /\ ~org /\ org' = TRUE
    /\ UNCHANGED <<contract, function, reporter, connected, cached, feePayer, request, cutOffs, chain>>

deleteOrganization ==
    /\ Edit /\ org /\ org' = FALSE
    /\ reporter' = "none" /\ connected' = {}
    /\ UNCHANGED <<contract, function, cached, feePayer, request, cutOffs, chain>>

\* initialize: the key of the query, or the one of the environment or the secret store.
initialize(k) ==
    /\ Edit /\ feePayer' = k
    /\ UNCHANGED <<contract, function, org, reporter, connected, cached, request, cutOffs, chain>>

-----------------------------------------------------------------------------
(* The three lookups of validateTransaction, and the one of /sign/v2.      *)

RowsOf(to) == {i \in Row : contract[i] = ToLower(to)}
FunctionsOf(to, fn) == {f \in function : f[1] \in RowsOf(to) /\ f[2] = fn}
ReportersOf(to) == {i \in RowsOf(to) \cap connected : reporter = "lower"}

Fresh(r) == request[r].edits = edits
At(r, p) == request[r].at = p
Goes(r, p) == request' = [request EXCEPT ![r].at = p]
Fails(r) == Goes(r, "refused")
OnlyRequest == UNCHANGED <<contract, function, org, reporter, connected, cached, feePayer, edits,
                           cutOffs, chain>>

\* A request takes the fee payer's key of the moment it arrives.
Arrives(r, endpoint, p) ==
    /\ At(r, "idle")
    /\ request' = [request EXCEPT ![r] = [at |-> endpoint, endpoint |-> endpoint, payload |-> p,
                                          payer |-> feePayer, edits |-> edits, answer |-> {},
                                          stored |-> FALSE]]
    /\ OnlyRequest

\* /sign: the payload is stored before it is validated.
insertTransaction(r) ==
    /\ At(r, "sign")
    /\ request' = [request EXCEPT ![r].at = "contract", ![r].stored = TRUE]
    /\ OnlyRequest

Lookup(r, p, ok, next) == At(r, p) /\ (IF ok THEN Goes(r, next) ELSE Fails(r)) /\ OnlyRequest

validateTransaction(r) ==
    LET p == request[r].payload IN
    \/ Lookup(r, "contract", RowsOf(p.to) # {}, "function")
    \/ Lookup(r, "function", Cardinality(FunctionsOf(p.to, p.fn)) = 1, "reporter")
    \/ Lookup(r, "reporter", Cardinality(ReportersOf(p.to)) = 1, "signing")

\* Mutant: the cache outlives the request and is shared by all.
SharedCacheCheck(r) ==
    LET to == request[r].payload.to IN
    /\ At(r, "v2")
    /\ IF (\E q \in Request : to \in cached[q]) \/ RowsOf(to) # {}
       THEN Goes(r, "signing") /\ cached' = [cached EXCEPT ![r] = @ \cup {to}]
       ELSE Fails(r) /\ UNCHANGED cached
    /\ UNCHANGED <<contract, function, org, reporter, connected, feePayer, edits, cutOffs, chain>>

validateContractAddress(r) ==
    LET to == request[r].payload.to IN
    /\ At(r, "v2")
    /\ IF to \in cached[r] \/ RowsOf(to) # {}
       THEN Goes(r, "signing") /\ cached' = [cached EXCEPT ![r] = @ \cup {to}]
       ELSE Fails(r) /\ UNCHANGED cached
    /\ UNCHANGED <<contract, function, org, reporter, connected, feePayer, edits, cutOffs, chain>>

\* Without a fee payer's key the signature fails.
signing(r) ==
    /\ At(r, "signing")
    /\ LET q == request[r] IN
       request' = [request EXCEPT
           ![r].at = IF q.payer = "" THEN "refused" ELSE "signed",
           ![r].stored = q.stored \/ q.payer # "",
           ![r].answer = IF q.payer = "" THEN {}
                         ELSE IF q.endpoint = "sign" THEN {signTxByFeePayer(q.payload, q.payer)}
                         ELSE {signTxByFeePayerV2(q.payload, q.payer)}]
    /\ OnlyRequest

-----------------------------------------------------------------------------
(* The chain helper: GetSignedFromDelegator, and its fallback.             *)

SubmitDelegated(r) ==
    \E a \in Address, f \in Function :
        Arrives(r, "v2", MakePayload(MakeFeeDelegatedTx(<<a, "lower">>, f, 5)))

AskSign(r) ==
    \E a \in Address, f \in Function :
        Arrives(r, "sign", PayloadOf(Sign(NewTx(<<a, "mixed">>, f, 8))))

Sent(r, tx) ==
    /\ chain' = chain \cup {<<r, tx>>}
    /\ Goes(r, "sent")
    /\ UNCHANGED <<contract, function, org, reporter, connected, cached, feePayer, edits, cutOffs>>

SubmitSigned(r) == At(r, "signed") /\ \E tx \in request[r].answer : Sent(r, tx)

\* The delegator refuses or does not answer in time: the reporter pays the fee.
FallbackDirect(r) ==
    /\ At(r, "refused") /\ request[r].endpoint = "v2"
    /\ LET tx == request[r].payload.rawTx IN Sent(r, MakeDirectTx(tx.to, tx.fn, tx.gas))

TimesOut(r) ==
    /\ request[r].at \notin {"idle", "refused", "sent"} /\ request[r].endpoint = "v2"
    /\ cutOffs < MaxCutOffs /\ cutOffs' = cutOffs + 1
    /\ Fails(r)
    /\ UNCHANGED <<contract, function, org, reporter, connected, cached, feePayer, edits, chain>>

EditTables ==
    \/ \E i \in Row, a \in Address : insertContract(i, a) \/ \E f \in Form : updateContract(i, a, f)
    \/ \E i \in Row : deleteContract(i) \/ connectReporter(i) \/ disconnectReporter(i)
    \/ \E i \in Row, f \in Function : insertFunction(i, f)
                                      \/ \E g \in function : updateFunction(g, i, f)
    \/ \E f \in function : deleteFunction(f)
    \/ insertReporter \/ (\E f \in Form : updateReporter(f)) \/ deleteReporter
    \/ insertOrganization \/ deleteOrganization
    \/ \E k \in {"k1", "k2"} : initialize(k)

DelegatorNext ==
    \/ EditTables
    \/ \E r \in Request :
          \/ SubmitDelegated(r) \/ AskSign(r)
          \/ insertTransaction(r) \/ (~At(r, "idle") /\ validateTransaction(r)) \/ validateContractAddress(r)
          \/ signing(r) \/ SubmitSigned(r) \/ FallbackDirect(r) \/ TimesOut(r)

-----------------------------------------------------------------------------

\* What the fee payer has signed is the reporter's transaction: its signature is valid for
\* it and it pays with the key the request arrived with. (MakePayload mixes up fields, which
\* /sign would use; the helper asks /sign/v2, which takes the raw transaction.)
SignedIsReporters ==
    \A x \in chain : Valid(x[2]) /\ x[2].payer \in {"self", request[x[1]].payer}

\* When no table is edited during a request, a signature is given only for what the tables
\* allow: no request is served by what an earlier one has found.
SignedIsApproved ==
    \A r \in Request : At(r, "signed") /\ Fresh(r) =>
        LET p == request[r].payload IN
        /\ RowsOf(p.to) # {}
        /\ request[r].endpoint = "sign" => FunctionsOf(p.to, p.fn) # {} /\ ReportersOf(p.to) # {}

=============================================================================
