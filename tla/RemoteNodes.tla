----------------------------- MODULE RemoteNodes -----------------------------
(***************************************************************************)
(* How the mobile wallet (html/www/js) finds nodes to talk to and checks   *)
(* their answers against each other: RemoteNodesManager bootstraps a       *)
(* registry of nodes and goes on discovering more; requests go to one of   *)
(* them, the remoteNode, until it fails; confirmResponse repeats a request *)
(* at a few others and counts who agrees.                                  *)
(*                                                                         *)
(* The code runs in one thread: a step is one callback.  Requests overlap, *)
(* and every one ends in an answer, an error or a timeout.  A registry     *)
(* entry is an object that discovery replaces while callbacks still hold   *)
(* the old one; a Ref is an address and the serial number of the object.   *)
(***************************************************************************)
EXTENDS Integers, Sequences, FiniteSets

CONSTANTS
    Node,         \* Addresses.
    Bootstrap,    \* REMOTE_NODES_BOOTSTRAP.peers
    Configured,   \* Values of remote_node_address, when there is one.
    Unusable,     \* Nodes without a port or the services needed.
    Targets,      \* Values of bootstrap_nodes_count.
    Validators,   \* validators_count
    Request,      \* Requests that may be under way at the same time.
    KeepReports,  \* 50, the reports that are kept
    MaxReports,   \* Bound on the reports of a session.
    MaxSerial     \* Bound on how often a registry entry is replaced.

ASSUME BoundAssumption ==
    /\ Bootstrap \cup Configured \cup Unusable \subseteq Node
    /\ IsFiniteSet(Node) /\ Targets \subseteq Nat
    /\ {Validators, KeepReports, MaxReports} \subseteq Nat /\ MaxSerial \in Nat \ {0}

Report == 1..MaxReports

Ref == Node \X (1..MaxSerial)

VARIABLES
    (* addBootstrapNode, addBootstrapNodes: mgr.bc and the promise *)
    stage,         \* "start", "configured" address tried, "list" tried
    settled,       \* What became of the promise.
    target, limit, success, fail, counter,
    trying,        \* The nodes that have not answered yet.
    accepted,      \* Whether the last answer was accepted (for the properties).
    (* The registry *)
    serial,        \* mgr.nodes: the serial number of an entry, 0 if there is none.
    blacklisted,   \* Its objects with blacklistedUntil in the future.
    resting,       \* Nodes blacklisted in the registry (for the properties).
    discovery,     \* "off", "due", "asking" or "over"
    source,        \* The node that discovery asks.
    (* Requests *)
    remoteNode,    \* The object all requests go to, or none.
    sentTo,        \* The object a request was sent to, or none.
    flying,        \* Requests under way.
    overtaken,     \* Those sent before the last resetRemoteNode.
    (* Confirmations *)
    reports,       \* How many there were so far.
    window,        \* requestConfirmations, newest first
    processing, confirmingNodes, rejectingNodes,
    compared,      \* Whether requestRemoteNode was known.
    asked,         \* Every node asked (for the properties).
    errors,        \* Those that answered with an error (for the properties).
    checking,      \* Pairs of a report and a node that has not answered yet.
    shown          \* What updateConfirmationsIndicator counted last.

boot == <<stage, settled, target, limit, success, fail, counter, trying, accepted>>
registry == <<serial, blacklisted, resting>>
finding == <<discovery, source>>
requests == <<remoteNode, sentTo, flying, overtaken>>
counted == <<reports, window, compared, asked>>
confirmations ==
    <<counted, processing, confirmingNodes, rejectingNodes, errors, checking, shown>>
vars == <<boot, registry, finding, requests, confirmations>>

TypeOK ==
    /\ stage \in {"start", "configured", "list"}
    /\ settled \in {"pending", "resolved", "rejected", "settings"}
    /\ target \in Nat /\ limit \in Nat /\ success \in 0..target
    /\ fail \in 0..limit /\ counter \in 0..limit
    /\ trying \subseteq Node /\ accepted \in BOOLEAN
    /\ serial \in [Node -> 0..MaxSerial] /\ blacklisted \subseteq Ref /\ resting \subseteq Node
    /\ discovery \in {"off", "due", "asking", "over"} /\ source \subseteq Ref
    /\ remoteNode \subseteq Ref /\ Cardinality(remoteNode) <= 1
    /\ sentTo \in [Request -> SUBSET Ref] /\ flying \subseteq Request /\ overtaken \subseteq flying
    /\ reports \in Report \cup {0} /\ window \in Seq(Report) /\ Len(window) <= KeepReports
    /\ processing \in [Report -> Seq(Node)]
    /\ {confirmingNodes, rejectingNodes, asked, errors} \subseteq [Report -> SUBSET Node]
    /\ compared \in [Report -> BOOLEAN] /\ checking \subseteq Report \X Ref
    /\ shown \in [confirmations : Nat, rejections : Nat]

Init ==
    /\ stage = "start" /\ settled = "pending" /\ target = 0 /\ limit = 0
    /\ success = 0 /\ fail = 0 /\ counter = 0 /\ trying = {} /\ accepted = FALSE
    /\ serial = [n \in Node |-> 0] /\ blacklisted = {} /\ resting = {}
    /\ discovery = "off" /\ source = {}
    /\ remoteNode = {} /\ sentTo = [q \in Request |-> {}] /\ flying = {} /\ overtaken = {}
    /\ reports = 0 /\ window = <<>> /\ checking = {}
    /\ processing = [r \in Report |-> <<>>] /\ compared = [r \in Report |-> FALSE]
    /\ confirmingNodes = [r \in Report |-> {}] /\ rejectingNodes = [r \in Report |-> {}]
    /\ asked = [r \in Report |-> {}] /\ errors = [r \in Report |-> {}]
    /\ shown = [confirmations |-> 0, rejections |-> 0]

-----------------------------------------------------------------------------
(* The registry *)

Entry(n) == <<n, serial[n]>>

Addresses(refs) == {ref[1] : ref \in refs}

Available == {Entry(n) : n \in {m \in Node : serial[m] > 0 /\ Entry(m) \notin blacklisted}}

\* getRandomNode, which answers null when every node is blacklisted.
RandomNode == IF Available = {} THEN {{}} ELSE {{ref} : ref \in Available}

\* Blacklisting an object that was replaced does not reach the registry.
Blacklist(refs) ==
    /\ blacklisted' = blacklisted \cup {ref \in refs : ref = Entry(ref[1])}
    /\ resting' = resting \cup {n \in Node : Entry(n) \in refs}
    /\ UNCHANGED serial

Expire(n) ==
    /\ serial[n] > 0 /\ Entry(n) \in blacklisted
    /\ blacklisted' = blacklisted \ {Entry(n)}
    /\ resting' = resting \ {n}
    /\ UNCHANGED <<boot, serial, finding, requests, confirmations>>

Register(n) ==
    /\ serial' = [serial EXCEPT ![n] = 1]
    /\ UNCHANGED <<blacklisted, resting>>

-----------------------------------------------------------------------------
(* Bootstrap.  The promise takes the first of resolve and reject; when it is *)
(* resolved, initMobile starts the discovery.                                *)

Settle(outcome) ==
    /\ settled' = IF settled = "pending" THEN outcome ELSE settled
    /\ discovery' = IF settled = "pending" /\ outcome = "resolved" THEN "due" ELSE discovery

Unsettled == UNCHANGED <<settled, discovery>>

Least(m, n) == IF m <= n THEN m ELSE n

\* addBootstrapNodes: asks as many nodes of the list as it may, in one go, and
\* rejects the unusable ones at once.
TryList ==
    /\ stage' = "list"
    /\ \E wanted \in Targets :
         \E tried \in SUBSET Bootstrap :
            /\ target' = wanted /\ limit' = Least(Cardinality(Bootstrap), 3 * wanted)
            /\ Cardinality(tried) = limit'
            /\ trying' = tried \ Unusable
            /\ fail' = Cardinality(tried \cap Unusable) /\ counter' = fail'
            /\ IF tried # {} /\ trying' = {} THEN Settle("rejected") ELSE Unsettled
    /\ UNCHANGED <<success, accepted>>

\* A page loaded by https cannot talk to http nodes: the settings are shown.
ShowSettings ==
    /\ Settle("settings") /\ stage' = "list" /\ trying' = {}
    /\ UNCHANGED <<target, limit, success, fail, counter, accepted>>

AddBootstrapNodes == TryList \/ ShowSettings

\* initRemoteNodesMgr, without or with a configured address.
Start ==
    /\ stage = "start"
    /\ \/ AddBootstrapNodes
       \/ /\ stage' = "configured"
          /\ \E n \in Configured : trying' = {n}
          /\ UNCHANGED <<settled, discovery, target, limit, success, fail, counter, accepted>>
    /\ UNCHANGED <<registry, source, requests, confirmations>>

\* The callback of addBootstrapNode
ConfiguredAnswers(n) ==
    /\ stage = "configured" /\ n \in trying
    /\ \/ /\ Register(n)
          /\ Settle("resolved")
          /\ trying' = {}
          /\ UNCHANGED <<stage, target, limit, success, fail, counter, accepted>>
       \/ AddBootstrapNodes /\ UNCHANGED registry
    /\ UNCHANGED <<source, requests, confirmations>>

\* The callback of addBootstrapNodes
Ignored(n) ==
    /\ stage = "list" /\ n \in trying /\ success >= target
    /\ trying' = trying \ {n} /\ counter' = counter + 1
    /\ Settle("resolved")
    /\ UNCHANGED <<stage, target, limit, success, fail, accepted, registry>>
    /\ UNCHANGED <<source, requests, confirmations>>

Rejected(n) ==
    /\ stage = "list" /\ n \in trying /\ success < target
    /\ trying' = trying \ {n} /\ counter' = counter + 1
    /\ fail' = fail + 1 /\ accepted' = FALSE
    /\ IF fail' >= limit THEN Settle("rejected") ELSE Unsettled
    /\ UNCHANGED <<stage, target, limit, success, registry>>
    /\ UNCHANGED <<source, requests, confirmations>>

\* MUTANT: nodes are accepted when there are enough already.
AcceptedLate(n) ==
    /\ stage = "list" /\ n \in trying
    /\ trying' = trying \ {n} /\ counter' = counter + 1
    /\ Register(n)
    /\ success' = success + 1 /\ accepted' = TRUE
    /\ IF success' = target THEN Settle("resolved")
       ELSE IF counter' = limit THEN Settle("rejected") ELSE Unsettled
    /\ UNCHANGED <<stage, target, limit, fail, source, requests, confirmations>>

\* MUTANT: the last answer does not reject when there are too few nodes.
AcceptedNeverRejects(n) ==
    /\ stage = "list" /\ n \in trying /\ success < target
    /\ trying' = trying \ {n} /\ counter' = counter + 1
    /\ Register(n)
    /\ success' = success + 1 /\ accepted' = TRUE
    /\ IF success' = target THEN Settle("resolved") ELSE Unsettled
    /\ UNCHANGED <<stage, target, limit, fail, source, requests, confirmations>>

Accepted(n) ==
    /\ stage = "list" /\ n \in trying /\ success < target
    /\ trying' = trying \ {n} /\ counter' = counter + 1
    /\ Register(n)
    /\ success' = success + 1 /\ accepted' = TRUE
    /\ IF success' = target THEN Settle("resolved")
       ELSE IF counter' = limit THEN Settle("rejected") ELSE Unsettled
    /\ UNCHANGED <<stage, target, limit, fail, source, requests, confirmations>>

-----------------------------------------------------------------------------
(* Discovery: findMoreNodes(true) *)

FindMoreNodes ==
    /\ discovery = "due"
    /\ source' \in RandomNode
    /\ discovery' = IF source' = {} THEN "over" ELSE "asking"
    /\ UNCHANGED <<boot, registry, requests, confirmations>>

\* MUTANT: the new object starts with a clean record.
AddRemoteNodesAfresh(found) ==
    /\ serial' = [n \in Node |-> IF n \in found THEN serial[n] + 1 ELSE serial[n]]
    /\ UNCHANGED <<blacklisted, resting>>

\* A new object replaces the old one and takes over its blacklistedUntil.
AddRemoteNodes(found) ==
    /\ serial' = [n \in Node |-> IF n \in found THEN serial[n] + 1 ELSE serial[n]]
    /\ blacklisted' = {<<n, serial'[n]>> : n \in Addresses(blacklisted)}
    /\ UNCHANGED resting

PeersFound ==
    /\ discovery = "asking"
    /\ \/ \E found \in SUBSET {n \in Node \ Unusable : serial[n] < MaxSerial} : AddRemoteNodes(found)
       \/ Blacklist(source)
    /\ discovery' = "due" /\ source' = {}
    /\ UNCHANGED <<boot, requests, confirmations>>

-----------------------------------------------------------------------------
(* Requests: sendRequest without a remoteNode option *)

\* MUTANT: every request goes to a node of its own.
RemoteNodeAnew == RandomNode

\* getRemoteNodeUrl sets remoteNode if there is none.
RemoteNode == IF remoteNode # {} THEN {remoteNode} ELSE RandomNode

Send(q) ==
    /\ settled \in {"resolved", "rejected"} /\ q \notin flying
    /\ remoteNode' \in RemoteNode
    /\ sentTo' = [sentTo EXCEPT ![q] = remoteNode']
    /\ flying' = flying \cup {q}
    /\ UNCHANGED <<boot, registry, finding, overtaken, confirmations>>

Ends(q) == /\ flying' = flying \ {q}
           /\ sentTo' = [sentTo EXCEPT ![q] = {}]

\* The fail handler: its log message calls getRemoteNodeUrl, so it blacklists
\* the node that all requests go to now, a fresh one if there was none.
Fails(q) ==
    /\ q \in flying
    /\ \E blamed \in RemoteNode : Blacklist(blamed)
    /\ remoteNode' = {}
    /\ overtaken' = flying \ {q}
    /\ Ends(q)
    /\ UNCHANGED <<boot, finding, confirmations>>

\* An aborted request only logs.
Aborts(q) ==
    /\ q \in flying
    /\ remoteNode' \in RemoteNode
    /\ overtaken' = overtaken \ {q}
    /\ Ends(q)
    /\ UNCHANGED <<boot, registry, finding, confirmations>>

\* An error, or an answer to a request that needs no confirmation.
Answered(q) ==
    /\ q \in flying /\ sentTo[q] # {}
    /\ overtaken' = overtaken \ {q}
    /\ Ends(q)
    /\ UNCHANGED <<boot, registry, finding, remoteNode, confirmations>>

-----------------------------------------------------------------------------
(* Confirmations *)

\* getRandomNodes: different nodes, as many as there are but not more than
\* validators_count.  The addresses to ignore are not looked at.
Sample == {nodes \in SUBSET Available :
               Cardinality(nodes) = Least(Validators, Cardinality(Available))}

Listing(refs) == CHOOSE s \in [1..Cardinality(refs) -> Addresses(refs)] :
                     \A n \in Addresses(refs) : \E i \in DOMAIN s : s[i] = n

\* confirmResponse; reports older than 75 seconds are dropped.
ConfirmResponse(q) ==
    /\ q \in flying /\ sentTo[q] # {} /\ reports + 1 \in Report
    /\ LET r == reports + 1
       IN  \E nodes \in Sample, young \in 0..Len(window) :
             /\ reports' = r
             /\ window' = LET all == <<r>> \o SubSeq(window, 1, young)
                          IN  SubSeq(all, 1, Least(Len(all), KeepReports))
             /\ processing' = [processing EXCEPT ![r] = Listing(nodes)]
             /\ compared' = [compared EXCEPT ![r] = remoteNode # {}]
             /\ asked' = [asked EXCEPT ![r] = Addresses(nodes)]
             /\ checking' = checking \cup ({r} \X nodes)
    /\ overtaken' = overtaken \ {q}
    /\ Ends(q)
    /\ UNCHANGED <<boot, registry, finding, remoteNode>>
    /\ UNCHANGED <<confirmingNodes, rejectingNodes, errors, shown>>

Without(s) == SubSeq(s, 1, Len(s) - 1)

\* Every callback takes the last address off the list, whoever answered.
TakesOff(r, ref) ==
    /\ processing' = [processing EXCEPT ![r] = Without(@)]
    /\ checking' = checking \ {<<r, ref>>}
    /\ UNCHANGED <<boot, finding, requests, counted>>

\* The votes of all reports, where the node that answered has one of its own.
Votes(confirm, reject) ==
    LET size[i \in 0..Len(window)] ==
            IF i = 0 THEN [confirmations |-> 0, rejections |-> 0]
            ELSE [confirmations |->
                      size[i - 1].confirmations + 1 + Cardinality(confirm[window[i]]),
                  rejections |-> size[i - 1].rejections + Cardinality(reject[window[i]])]
    IN  size[Len(window)]

\* MUTANT: the indicator waits for the last answer.
ShowVotesAtEnd(last, rejection) ==
    shown' = IF last THEN Votes(confirmingNodes', rejectingNodes') ELSE shown

ShowVotes(last, rejection) ==
    shown' = IF last \/ rejection THEN Votes(confirmingNodes', rejectingNodes') ELSE shown

Confirms(r, ref) ==
    /\ <<r, ref>> \in checking
    /\ TakesOff(r, ref)
    /\ confirmingNodes' = [confirmingNodes EXCEPT ![r] = @ \cup {ref[1]}]
    /\ UNCHANGED <<registry, rejectingNodes, errors>>
    /\ ShowVotes(processing'[r] = <<>>, FALSE)

\* Without a requestRemoteNode to name, the callback throws before it counts.
Rejects(r, ref) ==
    /\ <<r, ref>> \in checking
    /\ TakesOff(r, ref)
    /\ rejectingNodes' =
           IF compared[r] THEN [rejectingNodes EXCEPT ![r] = @ \cup {ref[1]}] ELSE rejectingNodes
    /\ UNCHANGED <<registry, confirmingNodes, errors>>
    /\ IF compared[r] THEN ShowVotes(processing'[r] = <<>>, TRUE) ELSE UNCHANGED shown

\* MUTANT: an answer with an error stays on the list.
ErrsOnList(r, ref) ==
    /\ <<r, ref>> \in checking
    /\ checking' = checking \ {<<r, ref>>}
    /\ Blacklist({ref})
    /\ errors' = [errors EXCEPT ![r] = @ \cup {ref[1]}]
    /\ UNCHANGED <<boot, finding, requests, counted>>
    /\ UNCHANGED <<processing, confirmingNodes, rejectingNodes, shown>>

\* A request that fails also blacklists the node; the indicator is left alone.
Errs(r, ref) ==
    /\ <<r, ref>> \in checking
    /\ TakesOff(r, ref)
    /\ Blacklist({ref}) \/ UNCHANGED registry
    /\ errors' = [errors EXCEPT ![r] = @ \cup {ref[1]}]
    /\ UNCHANGED <<confirmingNodes, rejectingNodes, shown>>

-----------------------------------------------------------------------------
Booting ==
    Start \/ \E n \in Node :
        ConfiguredAnswers(n) \/ Ignored(n) \/ Rejected(n) \/ Accepted(n)

Next ==
    \/ Booting
    \/ \E n \in Node : Expire(n)
    \/ FindMoreNodes \/ PeersFound
    \/ \E q \in Request : Send(q) \/ Fails(q) \/ Aborts(q) \/ Answered(q) \/ ConfirmResponse(q)
    \/ \E r \in Report, ref \in Ref : Confirms(r, ref) \/ Rejects(r, ref) \/ Errs(r, ref)

Spec == Init /\ [][Next]_vars

\* Every request ends, after 30 seconds at the latest.
FairSpec == Spec /\ WF_vars(Booting)

-----------------------------------------------------------------------------
(* Properties *)

\* The wallet does not wait for ever at its start: the promise is settled,
\* unless no node was to be tried, or the last of the answers was rejected
\* when some but not enough had been accepted.
Stranded ==
    /\ stage = "list" /\ trying = {}
    /\ limit = 0 \/ (success \in 1..(target - 1) /\ ~accepted)

BootstrapSettles == <>(settled # "pending" \/ Stranded)

\* A node that was blacklisted rests until its time is over, although discovery
\* replaces the objects of the registry.
BlacklistKept == \A n \in resting : Entry(n) \notin Available

\* A request that fails is held against the node it was sent to, unless it was
\* sent to none, or another failure gave that node up in the meantime: then a
\* node is blacklisted that had nothing to do with it.
RightBlame ==
    [][\A q \in flying \ overtaken :
         q \notin flying' /\ sentTo[q] # {} => blacklisted' \ blacklisted \subseteq sentTo[q]]_vars

\* The list of a report is as long as the answers it waits for, and every
\* answer is counted once, unless the node to compare with had been given up.
AnswersCounted ==
    \A r \in 1..reports :
        LET open == {c \in checking : c[1] = r}
            in == {c[2][1] : c \in open}
        IN  /\ Len(processing[r]) = Cardinality(open)
            /\ compared[r] =>
                 /\ asked[r] = in \cup confirmingNodes[r] \cup rejectingNodes[r] \cup errors[r]
                 /\ Cardinality(asked[r]) = Cardinality(in) + Cardinality(confirmingNodes[r])
                      + Cardinality(rejectingNodes[r]) + Cardinality(errors[r])

\* A rejection is visible as long as its report is kept.
RejectionShows ==
    \A i \in DOMAIN window : rejectingNodes[window[i]] # {} => shown.rejections > 0
=============================================================================
