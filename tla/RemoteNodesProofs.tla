-------------------------- MODULE RemoteNodesProofs --------------------------
(***************************************************************************)
(* Proofs about RemoteNodes, for any nodes and bounds: a blacklisted node  *)
(* rests, a failure is held against the node that was asked, the start     *)
(* settles once all have answered, every answer is counted once, and a     *)
(* rejection is shown.  NetInv is what is invariant of nodes and requests, *)
(* Books what is of the reports.                                           *)
(***************************************************************************)
EXTENDS RemoteNodes, FoldTheorems, SequenceTheorems

-----------------------------------------------------------------------------
(* The start, the registry and the requests *)

\* Once the promise is settled, the answers that are still due register no node.
Boots ==
    /\ stage \in {"start", "configured", "list"}
    /\ settled \in {"pending", "resolved", "rejected", "settings"}
    /\ target \in Nat /\ limit \in Nat /\ success \in 0..target
    /\ counter \in 0..limit /\ fail \in 0..counter
    /\ trying \subseteq Node /\ accepted \in BOOLEAN
    /\ stage # "list" => target = 0 /\ limit = 0
    /\ stage = "list" => counter + Cardinality(trying) <= limit
    /\ settled # "pending" =>
         stage # "start" /\ (trying = {} \/ (stage = "list" /\ success >= target))

Quiet ==
    settled = "pending" =>
        /\ discovery = "off" /\ source = {} /\ blacklisted = {} /\ resting = {}
        /\ remoteNode = {} /\ flying = {} /\ overtaken = {} /\ checking = {}

\* Only objects of the registry are blacklisted.
Registered ==
    /\ serial \in [Node -> 0..MaxSerial]
    /\ blacklisted \subseteq Ref /\ \A ref \in blacklisted : ref = Entry(ref[1])
    /\ resting \subseteq Node /\ \A n \in resting : Entry(n) \in blacklisted

Finds == discovery \in {"off", "due", "asking", "over"} /\ source \subseteq Ref

\* All requests that no failure has overtaken went to one node.
Requests ==
    /\ remoteNode \subseteq Ref /\ Cardinality(remoteNode) <= 1
    /\ sentTo \in [Request -> SUBSET Ref] /\ flying \subseteq Request /\ overtaken \subseteq flying
    /\ \A q \in flying \ overtaken : sentTo[q] # {} => sentTo[q] = remoteNode

NetInv == Boots /\ Quiet /\ Registered /\ Finds /\ Requests

LEMMA FiniteNodes ==
    ASSUME NEW S \in SUBSET Node
    PROVE  /\ IsFiniteSet(S) /\ Cardinality(S) \in Nat /\ (Cardinality(S) = 0 <=> S = {})
           /\ \A n \in S : Cardinality(S \ {n}) = Cardinality(S) - 1
BY BoundAssumption, FS_Subset, FS_CardinalityType, FS_EmptySet, FS_RemoveElement

LEMMA SmallSets == Cardinality({}) = 0 /\ \A x : Cardinality({x}) = 1
BY FS_EmptySet, FS_Singleton

LEMMA EntriesTyped ==
    ASSUME Registered
    PROVE  /\ Available \subseteq Ref
           /\ \A nodes \in RandomNode : nodes \subseteq Ref /\ Cardinality(nodes) <= 1
           /\ \A n \in Node : Entry(n)[1] = n
<1>1. \A n \in Node : serial[n] > 0 => serial[n] \in 1..MaxSerial
  BY BoundAssumption DEF Registered
<1>2. Available \subseteq Ref
  <2>1. \A n \in Node : serial[n] > 0 => Entry(n) \in Ref
    BY <1>1 DEF Entry, Ref
  <2> QED
    BY <2>1 DEF Available
<1>3. \A nodes \in RandomNode : nodes = {} \/ \E ref \in Available : nodes = {ref}
  BY DEF RandomNode
<1>4. \A nodes \in RandomNode : Cardinality(nodes) <= 1
  <2> TAKE nodes \in RandomNode
  <2>1. CASE nodes = {}
    BY <2>1, SmallSets
  <2>2. CASE nodes # {}
    <3>1. PICK ref \in Available : nodes = {ref}
      BY <1>3, <2>2
    <3>2. Cardinality(nodes) = 1
      BY <3>1, SmallSets
    <3> QED
      BY <3>2
  <2> QED
    BY <2>1, <2>2
<1> QED
  BY <1>2, <1>3, <1>4 DEF Entry

LEMMA NetInitially == Init => NetInv
<1> SUFFICES ASSUME Init PROVE NetInv
  OBVIOUS
<1>1. Boots
  <2>1. accepted \in BOOLEAN /\ trying \subseteq Node
    BY DEF Init
  <2>2. 0 \in Nat /\ 0 \in 0..0
    OBVIOUS
  <2> QED
    BY <2>1, <2>2 DEF Init, Boots
<1>2. Registered
  BY BoundAssumption DEF Init, Registered
<1>3. Requests
  BY SmallSets DEF Init, Requests
<1> QED
  BY <1>1, <1>2, <1>3 DEF Init, NetInv, Quiet, Finds

LEMMA TryListBoots ==
    ASSUME Boots, stage # "list", settled = "pending", AddBootstrapNodes
    PROVE  Boots' /\ settled' # "resolved" /\ discovery' = discovery
<1>0. success = 0 /\ fail = 0 /\ counter = 0 /\ target = 0 /\ limit = 0
  BY DEF Boots
<1>1. CASE TryList
  <2>1. PICK wanted \in Targets, tried \in SUBSET Bootstrap :
           /\ target' = wanted /\ limit' = Least(Cardinality(Bootstrap), 3 * wanted)
           /\ Cardinality(tried) = limit'
           /\ trying' = tried \ Unusable
           /\ fail' = Cardinality(tried \cap Unusable) /\ counter' = fail'
           /\ IF tried # {} /\ trying' = {} THEN Settle("rejected") ELSE Unsettled
    BY <1>1 DEF TryList
  <2>2. tried \in SUBSET Node /\ wanted \in Nat
    BY BoundAssumption
  <2>3. /\ Cardinality(tried) \in Nat
        /\ Cardinality(tried \ Unusable) = Cardinality(tried) - Cardinality(tried \cap Unusable)
        /\ Cardinality(tried \cap Unusable) \in 0..Cardinality(tried)
    <3>1. IsFiniteSet(tried) /\ Cardinality(tried) \in Nat
      BY <2>2, FiniteNodes
    <3>2. IsFiniteSet(tried \cap Unusable) /\ Cardinality(tried \cap Unusable) <= Cardinality(tried)
      BY <3>1, FS_Intersection
    <3>3. Cardinality(tried \cap Unusable) \in Nat
      BY <3>2, FS_CardinalityType
    <3>4. Cardinality(tried \ Unusable) = Cardinality(tried) - Cardinality(tried \cap Unusable)
      BY <3>1, FS_Difference
    <3> QED
      BY <3>1, <3>2, <3>3, <3>4
  <2>4. settled' # "pending" => trying' = {}
    BY <2>1 DEF Settle, Unsettled
  <2>5. settled' \in {"pending", "rejected"} /\ discovery' = discovery
    BY <2>1 DEF Settle, Unsettled
  <2>6. stage' = "list" /\ success' = success /\ accepted' = accepted
    BY <1>1 DEF TryList
  <2> QED
    BY <1>0, <2>1, <2>2, <2>3, <2>4, <2>5, <2>6 DEF Boots
<1>2. CASE ShowSettings
  BY <1>0, <1>2, SmallSets DEF ShowSettings, Settle, Boots
<1> QED
  BY <1>1, <1>2 DEF AddBootstrapNodes

\* A usable node that answers in time is registered before anything else is done.
LEMMA RegisterKeeps ==
    ASSUME Registered, Quiet, settled = "pending", NEW n \in Node, Register(n)
    PROVE  Registered'
<1>1. blacklisted' = {} /\ resting' = {}
  BY DEF Register, Quiet
<1>2. serial' \in [Node -> 0..MaxSerial]
  BY BoundAssumption DEF Register, Registered
<1> QED
  BY <1>1, <1>2 DEF Registered

LEMMA BootingKeeps ==
    ASSUME NetInv, Booting
    PROVE  NetInv'
<1> USE DEF NetInv
<1>0. ASSUME Boots', settled' = "pending" => settled = "pending",
             Registered', UNCHANGED <<source, requests, confirmations>>,
             blacklisted' = blacklisted /\ resting' = resting,
             discovery' = discovery \/ (settled' # "pending" /\ discovery' = "due")
      PROVE  NetInv'
  BY <1>0 DEF Quiet, Finds, Requests, requests, confirmations
<1>1. CASE Start
  <2>1. CASE AddBootstrapNodes
    <3>1. settled = "pending"
      BY <1>1 DEF Start, Boots
    <3>2. Boots' /\ discovery' = discovery
      BY <1>1, <2>1, <3>1, TryListBoots DEF Start
    <3> QED
      BY <1>0, <1>1, <3>1, <3>2 DEF Start, registry, Registered, Entry
  <2>2. CASE ~AddBootstrapNodes
    <3>1. PICK n \in Configured : trying' = {n}
      BY <1>1, <2>2 DEF Start
    <3>2. Boots'
      BY <1>1, <2>2, <3>1, BoundAssumption DEF Start, Boots
    <3> QED
      BY <1>0, <1>1, <2>2, <3>2 DEF Start, registry, Registered, Entry
  <2> QED
    BY <2>1, <2>2
<1>2. ASSUME NEW n \in Node, ConfiguredAnswers(n) PROVE NetInv'
  <2>1. settled = "pending"
    BY <1>2 DEF ConfiguredAnswers, Boots
  <2>2. CASE AddBootstrapNodes /\ UNCHANGED registry
    <3>1. Boots' /\ discovery' = discovery
      BY <1>2, <2>1, <2>2, TryListBoots DEF ConfiguredAnswers
    <3> QED
      BY <1>0, <1>2, <2>1, <2>2, <3>1 DEF ConfiguredAnswers, registry, Registered, Entry
  <2>3. CASE /\ Register(n) /\ Settle("resolved") /\ trying' = {}
             /\ UNCHANGED <<stage, target, limit, success, fail, counter, accepted>>
    <3>1. Boots'
      BY <1>2, <2>3, SmallSets DEF ConfiguredAnswers, Boots, Settle
    <3>2. Registered'
      BY <2>1, <2>3, RegisterKeeps
    <3> QED
      BY <1>0, <1>2, <2>1, <2>3, <3>1, <3>2 DEF ConfiguredAnswers, Register, Settle
  <2> QED
    BY <1>2, <2>2, <2>3 DEF ConfiguredAnswers
<1>3. ASSUME NEW n \in Node, n \in trying, stage = "list"
      PROVE  /\ trying \ {n} \subseteq Node /\ counter + 1 \in 0..limit
             /\ counter + 1 + Cardinality(trying \ {n}) <= limit
             /\ counter + 1 = limit => trying \ {n} = {}
  <2>1. Cardinality(trying \ {n}) = Cardinality(trying) - 1 /\ Cardinality(trying \ {n}) \in Nat
    BY <1>3, FiniteNodes DEF Boots
  <2>2. counter + Cardinality(trying) <= limit /\ Cardinality(trying) \in Nat
    BY <1>3, FiniteNodes DEF Boots
  <2>3. counter \in Nat /\ limit \in Nat /\ trying \subseteq Node
    BY DEF Boots
  <2>4. counter + 1 + Cardinality(trying \ {n}) <= limit /\ counter + 1 \in 0..limit
    BY <2>1, <2>2, <2>3
  <2>5. counter + 1 = limit => Cardinality(trying \ {n}) = 0
    BY <2>1, <2>2, <2>3
  <2>6. counter + 1 = limit => trying \ {n} = {}
    BY <2>3, <2>5, FiniteNodes
  <2> QED
    BY <2>3, <2>4, <2>6
<1>4. ASSUME NEW n \in Node, Ignored(n) PROVE NetInv'
  <2>1. Boots'
    BY <1>3, <1>4 DEF Ignored, Boots, Settle
  <2> QED
    BY <1>0, <1>4, <2>1 DEF Ignored, Settle, Boots, registry, Registered, Entry
<1>5. ASSUME NEW n \in Node, Rejected(n) PROVE NetInv'
  <2>1. settled = "pending"
    BY <1>5 DEF Rejected, Boots
  <2>2. /\ trying' = trying \ {n} /\ counter' = counter + 1 /\ fail' = fail + 1
        /\ n \in trying /\ stage = "list" /\ accepted' = FALSE
        /\ UNCHANGED <<stage, target, limit, success>>
    BY <1>5 DEF Rejected
  <2>3. fail' \in 0..counter' /\ (fail' >= limit => trying' = {})
    <3>1. fail \in 0..counter /\ counter \in Nat /\ limit \in Nat
      BY DEF Boots
    <3>2. counter + 1 \in 0..limit /\ (counter + 1 = limit => trying' = {})
      BY <1>3, <2>2
    <3>3. fail + 1 >= limit => counter + 1 = limit
      BY <3>1, <3>2
    <3> QED
      BY <2>2, <3>1, <3>2, <3>3
  <2>4. settled' = "pending" \/ (settled' = "rejected" /\ fail' >= limit)
    BY <1>5, <2>1 DEF Rejected, Settle, Unsettled
  <2>5. Boots'
    BY <1>3, <2>2, <2>3, <2>4 DEF Boots
  <2> QED
    BY <1>0, <1>5, <2>1, <2>5 DEF Rejected, Settle, Unsettled, registry, Registered, Entry
<1>6. ASSUME NEW n \in Node, Accepted(n) PROVE NetInv'
  <2>1. settled = "pending"
    BY <1>6 DEF Accepted, Boots
  <2>2. Boots'
    BY <1>3, <1>6, <2>1 DEF Accepted, Boots, Settle, Unsettled
  <2>3. Registered'
    BY <1>6, <2>1, RegisterKeeps DEF Accepted
  <2> QED
    BY <1>0, <1>6, <2>1, <2>2, <2>3 DEF Accepted, Settle, Unsettled, Register
<1> QED
  BY <1>1, <1>2, <1>4, <1>5, <1>6 DEF Booting

LEMMA BlacklistKeeps ==
    ASSUME Registered, NEW refs \in SUBSET Ref, Blacklist(refs)
    PROVE  Registered' /\ blacklisted' \ blacklisted \subseteq refs
<1>1. /\ serial' = serial
      /\ blacklisted' = blacklisted \cup {ref \in refs : ref = Entry(ref[1])}
      /\ resting' = resting \cup {n \in Node : Entry(n) \in refs}
  BY DEF Blacklist
<1>2. \A n \in Node : Entry(n)' = Entry(n) /\ Entry(n)[1] = n
  BY <1>1 DEF Entry
<1>3. \A ref \in Ref : Entry(ref[1])' = Entry(ref[1]) /\ ref[1] \in Node
  BY <1>1 DEF Entry, Ref
<1>4. \A n \in resting' : n \in Node /\ Entry(n) \in blacklisted'
  <2> TAKE n \in resting'
  <2>1. CASE n \in resting
    BY <1>1, <2>1 DEF Registered
  <2>2. CASE n \in Node /\ Entry(n) \in refs
    BY <1>1, <1>2, <2>2
  <2> QED
    BY <1>1, <2>1, <2>2
<1>5. \A ref \in blacklisted' : ref \in Ref /\ ref = Entry(ref[1])
  BY <1>1 DEF Registered
<1> QED
  BY <1>1, <1>2, <1>3, <1>4, <1>5 DEF Registered

\* A new object takes the rest of the old one with it.
LEMMA AddingKeeps ==
    ASSUME Registered, NEW found \in SUBSET {n \in Node \ Unusable : serial[n] < MaxSerial},
           AddRemoteNodes(found)
    PROVE  Registered'
<1>1. \A n \in Node : serial'[n] \in 0..MaxSerial /\ serial'[n] >= serial[n]
  BY BoundAssumption DEF AddRemoteNodes, Registered
<1>2. serial' \in [Node -> 0..MaxSerial]
  BY <1>1 DEF AddRemoteNodes
<1>3. blacklisted' = {<<n, serial'[n]>> : n \in Addresses(blacklisted)} /\ resting' = resting
  BY DEF AddRemoteNodes
<1>4. \A n \in Addresses(blacklisted) : n \in Node /\ serial'[n] \in 1..MaxSerial
  <2> TAKE n \in Addresses(blacklisted)
  <2>1. PICK ref \in blacklisted : n = ref[1]
    BY DEF Addresses
  <2>2. ref = <<n, serial[n]>> /\ ref \in Node \X (1..MaxSerial)
    BY <2>1 DEF Registered, Entry, Ref
  <2> QED
    BY <1>1, <2>2, BoundAssumption DEF Registered
<1>5. blacklisted' \subseteq Ref /\ \A ref \in blacklisted' : ref = <<ref[1], serial'[ref[1]]>>
  BY <1>3, <1>4 DEF Ref
<1>6. \A n \in resting : <<n, serial'[n]>> \in blacklisted'
  <2> TAKE n \in resting
  <2>1. Entry(n) \in blacklisted /\ Entry(n)[1] = n
    BY DEF Registered, Entry
  <2>2. n \in Addresses(blacklisted)
    BY <2>1 DEF Addresses
  <2> QED
    BY <1>3, <2>2
<1> QED
  BY <1>2, <1>3, <1>5, <1>6 DEF Registered, Entry

LEMMA ExpiringKeeps ==
    ASSUME Registered, NEW n \in Node, Expire(n)
    PROVE  Registered'
<1>1. /\ serial' = serial /\ blacklisted' = blacklisted \ {Entry(n)}
      /\ resting' = resting \ {n}
  BY DEF Expire
<1>2. \A m \in Node : Entry(m) = Entry(n) => m = n
  BY DEF Entry
<1>3. \A m \in resting' : Entry(m) \in blacklisted'
  BY <1>1, <1>2 DEF Registered
<1> QED
  BY <1>1, <1>3 DEF Registered, Entry

LEMMA DiscoveryKeeps ==
    ASSUME NetInv, FindMoreNodes \/ PeersFound \/ \E n \in Node : Expire(n)
    PROVE  NetInv'
<1> USE DEF NetInv
<1>1. CASE FindMoreNodes
  <2>1. settled # "pending" /\ source' \subseteq Ref
    BY <1>1, EntriesTyped DEF FindMoreNodes, Quiet
  <2> QED
    BY <1>1, <2>1 DEF FindMoreNodes, boot, registry, requests, confirmations,
       Boots, Quiet, Registered, Finds, Requests, Entry
<1>2. CASE PeersFound
  <2>1. settled # "pending"
    BY <1>2 DEF PeersFound, Quiet
  <2>2. Registered'
    BY <1>2, AddingKeeps, BlacklistKeeps DEF PeersFound, Finds
  <2> QED
    BY <1>2, <2>1, <2>2 DEF PeersFound, boot, requests, confirmations, Boots, Quiet, Finds, Requests
<1>3. ASSUME NEW n \in Node, Expire(n) PROVE NetInv'
  <2>1. blacklisted' \subseteq blacklisted /\ resting' \subseteq resting
    BY <1>3 DEF Expire
  <2> QED
    BY <1>3, <2>1, ExpiringKeeps
    DEF Expire, boot, finding, requests, confirmations, Boots, Quiet, Finds, Requests
<1> QED
  BY <1>1, <1>2, <1>3

\* Who goes where, step by step; the second part is RightBlame.
BlameStep ==
    \A q \in flying \ overtaken :
        q \notin flying' /\ sentTo[q] # {} => blacklisted' \ blacklisted \subseteq sentTo[q]

LEMMA OneEnds ==
    ASSUME Requests, NEW q \in flying, Ends(q), remoteNode' \subseteq Ref,
           Cardinality(remoteNode') <= 1, remoteNode # {} => remoteNode' = remoteNode,
           overtaken' = overtaken \ {q}
    PROVE  Requests'
<1>1. flying' = flying \ {q} /\ sentTo' = [sentTo EXCEPT ![q] = {}]
  BY DEF Ends
<1>2. \A p \in flying' \ overtaken' : p \in flying \ overtaken /\ sentTo'[p] = sentTo[p]
  BY <1>1 DEF Requests
<1>3. sentTo' \in [Request -> SUBSET Ref]
  BY <1>1 DEF Requests
<1>4. \A p \in flying' \ overtaken' : sentTo'[p] # {} => sentTo'[p] = remoteNode'
  BY <1>2 DEF Requests
<1> QED
  BY <1>1, <1>3, <1>4 DEF Requests

LEMMA RequestsKeep ==
    ASSUME NetInv, NEW q \in Request,
           Send(q) \/ Fails(q) \/ Aborts(q) \/ Answered(q) \/ ConfirmResponse(q)
    PROVE  NetInv' /\ BlameStep
<1> USE DEF NetInv
<1>1. settled # "pending"
  BY DEF Quiet, Send, Fails, Aborts, Answered, ConfirmResponse
<1>2. \A nodes \in RemoteNode :
        nodes \subseteq Ref /\ Cardinality(nodes) <= 1 /\ (remoteNode # {} => nodes = remoteNode)
  BY EntriesTyped DEF RemoteNode, Requests
<1>3. UNCHANGED <<boot, finding>>
  BY DEF Send, Fails, Aborts, Answered, ConfirmResponse
<1>4. Boots' /\ Finds' /\ Quiet'
  BY <1>1, <1>3 DEF boot, finding, Boots, Finds, Quiet
<1>5. ASSUME UNCHANGED registry PROVE Registered' /\ BlameStep
  BY <1>5 DEF registry, Registered, Entry, BlameStep
<1>6. CASE Send(q)
  <2>1. \A p \in flying' \ overtaken' : sentTo'[p] # {} => sentTo'[p] = remoteNode'
    <3> SUFFICES ASSUME NEW p \in flying' \ overtaken', sentTo'[p] # {}
                 PROVE  sentTo'[p] = remoteNode'
      OBVIOUS
    <3>1. CASE p = q
      BY <1>6, <3>1 DEF Send, Requests
    <3>2. CASE p # q
      BY <1>2, <1>6, <3>2 DEF Send, Requests
    <3> QED
      BY <3>1, <3>2
  <2>2. remoteNode' \subseteq Ref /\ Cardinality(remoteNode') <= 1
    BY <1>2, <1>6 DEF Send
  <2>3. sentTo' \in [Request -> SUBSET Ref] /\ flying' \subseteq Request /\ overtaken' \subseteq flying'
    BY <1>6, <2>2 DEF Send, Requests
  <2>4. Requests'
    BY <2>1, <2>2, <2>3 DEF Requests
  <2> QED
    BY <1>4, <1>5, <1>6, <2>4 DEF Send
<1>7. CASE Fails(q)
  <2>1. PICK blamed \in RemoteNode : Blacklist(blamed)
    BY <1>7 DEF Fails
  <2>2. Registered' /\ blacklisted' \ blacklisted \subseteq blamed
    BY <1>2, <2>1, BlacklistKeeps
  <2>3. flying' = flying \ {q} /\ sentTo' = [sentTo EXCEPT ![q] = {}]
        /\ overtaken' = flying' /\ remoteNode' = {}
    BY <1>7 DEF Fails, Ends
  <2>4. Requests'
    BY <2>3, SmallSets DEF Requests
  <2>5. BlameStep
    <3> SUFFICES ASSUME NEW p \in flying \ overtaken, p \notin flying', sentTo[p] # {}
                 PROVE  blacklisted' \ blacklisted \subseteq sentTo[p]
      BY DEF BlameStep
    <3>1. p = q /\ sentTo[p] = remoteNode
      BY <2>3 DEF Requests
    <3> QED
      BY <1>2, <2>2, <3>1
  <2> QED
    BY <1>4, <2>2, <2>4, <2>5
<1>8. CASE Aborts(q)
  <2>1. Requests'
    BY <1>2, <1>8, OneEnds DEF Aborts
  <2> QED
    BY <1>4, <1>5, <1>8, <2>1 DEF Aborts
<1>9. CASE Answered(q) \/ ConfirmResponse(q)
  <2>1. /\ q \in flying /\ Ends(q) /\ remoteNode' = remoteNode
        /\ overtaken' = overtaken \ {q} /\ UNCHANGED registry
    BY <1>9 DEF Answered, ConfirmResponse
  <2>2. Requests'
    BY <2>1, OneEnds DEF Requests
  <2> QED
    BY <1>4, <1>5, <2>1, <2>2
<1> QED
  BY <1>6, <1>7, <1>8, <1>9

LEMMA VotesKeepNet ==
    ASSUME NetInv, NEW r \in Report, NEW ref \in Ref,
           Confirms(r, ref) \/ Rejects(r, ref) \/ Errs(r, ref)
    PROVE  NetInv' /\ flying' = flying
<1> USE DEF NetInv
<1>1. settled # "pending" /\ UNCHANGED <<boot, finding, requests>>
  BY DEF Confirms, Rejects, Errs, TakesOff, Quiet
<1>2. Registered'
  <2>1. CASE UNCHANGED registry
    BY <2>1 DEF registry, Registered, Entry
  <2>2. CASE Blacklist({ref})
    BY <2>2, BlacklistKeeps
  <2> QED
    BY <2>1, <2>2 DEF Confirms, Rejects, Errs
<1> QED
  BY <1>1, <1>2 DEF boot, finding, requests, Boots, Quiet, Finds, Requests

LEMMA NetStep ==
    ASSUME NetInv, [Next]_vars
    PROVE  NetInv' /\ BlameStep
<1>1. CASE UNCHANGED vars
  BY <1>1 DEF vars, boot, registry, finding, requests, confirmations, counted,
     NetInv, Boots, Quiet, Registered, Finds, Requests, Entry, BlameStep
<1>2. CASE Booting
  <2>1. flying' = flying
    BY <1>2 DEF Booting, Start, ConfiguredAnswers, Ignored, Rejected, Accepted, requests
  <2> QED
    BY <1>2, <2>1, BootingKeeps DEF BlameStep
<1>3. CASE FindMoreNodes \/ PeersFound \/ \E n \in Node : Expire(n)
  <2>1. flying' = flying
    BY <1>3 DEF FindMoreNodes, PeersFound, Expire, requests
  <2> QED
    BY <1>3, <2>1, DiscoveryKeeps DEF BlameStep
<1>4. ASSUME NEW r \in Report, NEW ref \in Ref,
             Confirms(r, ref) \/ Rejects(r, ref) \/ Errs(r, ref)
      PROVE  NetInv' /\ BlameStep
  BY <1>4, VotesKeepNet DEF BlameStep
<1> QED
  BY <1>1, <1>2, <1>3, <1>4, RequestsKeep DEF Next

LEMMA NetHolds == Spec => []NetInv
BY NetInitially, NetStep, PTL DEF Spec

\* A node that was blacklisted is not chosen until its time is over, however
\* often discovery replaces its object.
THEOREM BlacklistKeptCorrect == Spec => []BlacklistKept
<1>1. NetInv => BlacklistKept
  <2> SUFFICES ASSUME NetInv, NEW n \in resting PROVE Entry(n) \notin Available
    BY DEF BlacklistKept
  <2>1. Entry(n) \in blacklisted
    BY DEF NetInv, Registered
  <2> QED
    BY <2>1 DEF Available
<1> QED
  BY <1>1, NetHolds, PTL

\* A request that fails is held against the node it went to, unless another
\* failure gave that node up while it was under way.
THEOREM RightBlameCorrect == Spec => RightBlame
<1>1. NetInv /\ [Next]_vars => [BlameStep]_vars
  BY NetStep
<1> QED
  BY <1>1, NetHolds, PTL DEF Spec, RightBlame, BlameStep

-----------------------------------------------------------------------------
(* The end of the bootstrap *)

\* Every answer counts as a success or a failure until the promise is settled.
Decides ==
    stage = "list" /\ settled = "pending" =>
        /\ counter + Cardinality(trying) = limit
        /\ fail + success = counter
        /\ trying = {} => Stranded

LEMMA DecidesInitially == Init => Decides
BY DEF Init, Decides

LEMMA BootingDecides ==
    ASSUME NetInv, Decides, Booting
    PROVE  Decides'
<1> USE DEF NetInv
<1>1. ASSUME AddBootstrapNodes, stage # "list", settled = "pending" PROVE Decides'
  <2>1. CASE TryList
    <3>1. PICK wanted \in Targets, tried \in SUBSET Bootstrap :
             /\ target' = wanted /\ limit' = Least(Cardinality(Bootstrap), 3 * wanted)
             /\ Cardinality(tried) = limit'
             /\ trying' = tried \ Unusable
             /\ fail' = Cardinality(tried \cap Unusable) /\ counter' = fail'
             /\ IF tried # {} /\ trying' = {} THEN Settle("rejected") ELSE Unsettled
      BY <2>1 DEF TryList
    <3>2. IsFiniteSet(tried) /\ Cardinality(tried) \in Nat
      BY BoundAssumption, FiniteNodes
    <3>3. Cardinality(tried \cap Unusable) \in Nat
      BY <3>2, FS_Intersection, FS_CardinalityType
    <3>4. Cardinality(tried \ Unusable) = Cardinality(tried) - Cardinality(tried \cap Unusable)
      BY <3>2, FS_Difference
    <3>5. counter' + Cardinality(trying') = limit' /\ fail' + success' = counter'
      <4>1. success' = 0
        BY <1>1, <2>1 DEF TryList, Boots
      <4>2. Cardinality(tried \cap Unusable) + Cardinality(tried \ Unusable) = Cardinality(tried)
        BY <3>2, <3>3, <3>4
      <4> QED
        BY <3>1, <3>3, <4>1, <4>2
    <3>6. settled' = "pending" /\ trying' = {} => limit' = 0
      BY <3>1, SmallSets DEF Settle
    <3> QED
      BY <2>1, <3>5, <3>6 DEF Decides, Stranded, TryList
  <2>2. CASE ShowSettings
    BY <1>1, <2>2 DEF ShowSettings, Settle, Decides
  <2> QED
    BY <1>1, <2>1, <2>2 DEF AddBootstrapNodes
<1>2. CASE Start
  <2>1. settled = "pending" /\ stage # "list"
    BY <1>2 DEF Start, Boots
  <2> QED
    BY <1>1, <1>2, <2>1 DEF Start, Decides
<1>3. ASSUME NEW n \in Node, ConfiguredAnswers(n) PROVE Decides'
  <2>1. settled = "pending" /\ stage # "list"
    BY <1>3 DEF ConfiguredAnswers, Boots
  <2> QED
    BY <1>1, <1>3, <2>1 DEF ConfiguredAnswers, Decides
<1>4. ASSUME NEW n \in Node, n \in trying, stage = "list", settled = "pending"
      PROVE  /\ counter + 1 + Cardinality(trying \ {n}) = limit
             /\ trying \ {n} = {} => counter + 1 = limit
  <2>1. Cardinality(trying \ {n}) = Cardinality(trying) - 1 /\ Cardinality(trying) \in Nat
    BY <1>4, FiniteNodes DEF Boots
  <2>2. counter + Cardinality(trying) = limit /\ counter \in Nat /\ limit \in Nat
    BY <1>4 DEF Decides, Boots
  <2>3. counter + 1 + Cardinality(trying \ {n}) = limit
    BY <2>1, <2>2
  <2>4. trying \ {n} = {} => Cardinality(trying \ {n}) = 0
    BY SmallSets
  <2> QED
    BY <2>2, <2>3, <2>4
<1>5. ASSUME NEW n \in Node, Ignored(n) PROVE Decides'
  BY <1>5 DEF Ignored, Settle, Decides
<1>6. ASSUME NEW n \in Node, Rejected(n) PROVE Decides'
  <2>1. settled = "pending"
    BY <1>6 DEF Rejected, Boots
  <2>2. /\ trying' = trying \ {n} /\ counter' = counter + 1 /\ fail' = fail + 1
        /\ n \in trying /\ stage = "list" /\ accepted' = FALSE /\ success < target
        /\ UNCHANGED <<stage, target, limit, success>>
    BY <1>6 DEF Rejected
  <2>3. counter' + Cardinality(trying') = limit' /\ fail' + success' = counter'
    BY <1>4, <2>1, <2>2 DEF Boots, Decides
  <2>4. ASSUME settled' = "pending", trying' = {} PROVE Stranded'
    <3>1. fail' < limit' /\ counter' = limit'
      BY <1>4, <1>6, <2>1, <2>2, <2>4 DEF Rejected, Settle, Boots
    <3>2. success' \in 1..target' - 1
      BY <2>2, <2>3, <3>1 DEF Boots
    <3> QED
      BY <2>2, <2>4, <3>2 DEF Stranded
  <2> QED
    BY <2>3, <2>4 DEF Decides
<1>7. ASSUME NEW n \in Node, Accepted(n) PROVE Decides'
  <2>1. settled = "pending"
    BY <1>7 DEF Accepted, Boots
  <2>2. /\ trying' = trying \ {n} /\ counter' = counter + 1 /\ success' = success + 1
        /\ n \in trying /\ stage = "list"
        /\ UNCHANGED <<stage, target, limit, fail>>
    BY <1>7 DEF Accepted
  <2>3. counter' + Cardinality(trying') = limit' /\ fail' + success' = counter'
    BY <1>4, <2>1, <2>2 DEF Boots, Decides
  <2>4. trying' = {} => settled' # "pending"
    BY <1>4, <1>7, <2>1, <2>2 DEF Accepted, Settle
  <2> QED
    BY <2>3, <2>4 DEF Decides
<1> QED
  BY <1>2, <1>3, <1>5, <1>6, <1>7 DEF Booting

LEMMA OthersDecide ==
    ASSUME Decides, UNCHANGED boot
    PROVE  Decides'
BY DEF boot, Decides, Stranded

\* When every node that was tried has answered, the promise is settled, but for
\* the cases of Stranded.  With the fairness of the requests this is what
\* BootstrapSettles says.
THEOREM AnswersSettle == Spec => [](stage = "list" /\ trying = {} => settled # "pending" \/ Stranded)
<1>1. ASSUME NetInv, Decides, [Next]_vars PROVE Decides'
  <2>1. CASE Booting
    BY <1>1, <2>1, BootingDecides
  <2>2. CASE ~Booting
    <3>1. UNCHANGED boot
      BY <1>1, <2>2
      DEF Next, vars, FindMoreNodes, PeersFound, Expire, Send, Fails, Aborts, Answered,
          ConfirmResponse, Confirms, Rejects, Errs, TakesOff
    <3> QED
      BY <1>1, <3>1, OthersDecide
  <2> QED
    BY <2>1, <2>2
<1>2. Decides => (stage = "list" /\ trying = {} => settled # "pending" \/ Stranded)
  BY DEF Decides
<1> QED
  BY <1>1, <1>2, DecidesInitially, NetHolds, PTL DEF Spec

-----------------------------------------------------------------------------
(* What the indicator counts *)

Tally == [confirmations : Nat, rejections : Nat]
NoVotes == [confirmations |-> 0, rejections |-> 0]

MoreVotes(confirm, reject, f, i) ==
    IF i = 0 THEN NoVotes
    ELSE [confirmations |-> f[i - 1].confirmations + 1 + Cardinality(confirm[window[i]]),
          rejections |-> f[i - 1].rejections + Cardinality(reject[window[i]])]

Sizes(confirm, reject) ==
    CHOOSE f : f = [i \in 0..Len(window) |-> MoreVotes(confirm, reject, f, i)]

LEMMA VotesAreSizes ==
    ASSUME NEW confirm, NEW reject
    PROVE  Votes(confirm, reject) = Sizes(confirm, reject)[Len(window)]
BY DEF Votes, Sizes, MoreVotes, NoVotes

LEMMA MoreVotesTyped ==
    ASSUME NEW confirm \in [Report -> SUBSET Node], NEW reject \in [Report -> SUBSET Node],
           window \in Seq(Report), NEW f, NEW i \in 0..Len(window), i # 0 => f[i - 1] \in Tally
    PROVE  /\ MoreVotes(confirm, reject, f, i) \in Tally
           /\ i # 0 => LET more == MoreVotes(confirm, reject, f, i)
                      IN  /\ more.rejections >= f[i - 1].rejections
                          /\ reject[window[i]] # {} => more.rejections > 0
<1>1. CASE i = 0
  BY <1>1 DEF MoreVotes, NoVotes, Tally
<1>2. CASE i # 0
  <2>1. window[i] \in Report
    BY <1>2, ElementOfSeq
  <2>2. confirm[window[i]] \in SUBSET Node /\ reject[window[i]] \in SUBSET Node
    BY <2>1
  <2>3. /\ Cardinality(confirm[window[i]]) \in Nat /\ Cardinality(reject[window[i]]) \in Nat
        /\ Cardinality(reject[window[i]]) = 0 <=> reject[window[i]] = {}
    BY <2>2, FiniteNodes
  <2>4. f[i - 1].confirmations \in Nat /\ f[i - 1].rejections \in Nat
    BY <1>2 DEF Tally
  <2> DEFINE c == Cardinality(confirm[window[i]])
             j == Cardinality(reject[window[i]])
  <2>5. MoreVotes(confirm, reject, f, i) =
            [confirmations |-> f[i - 1].confirmations + 1 + c, rejections |-> f[i - 1].rejections + j]
    BY <1>2 DEF MoreVotes
  <2>6. c \in Nat /\ j \in Nat /\ (reject[window[i]] # {} => j > 0)
    BY <2>3
  <2> HIDE DEF c, j
  <2>7. /\ f[i - 1].confirmations + 1 + c \in Nat /\ f[i - 1].rejections + j \in Nat
        /\ f[i - 1].rejections + j >= f[i - 1].rejections
        /\ reject[window[i]] # {} => f[i - 1].rejections + j > 0
    <3> DEFINE a == f[i - 1].confirmations
               b == f[i - 1].rejections
    <3>1. a \in Nat /\ b \in Nat
      BY <2>4
    <3> HIDE DEF a, b
    <3>2. a + 1 + c \in Nat /\ b + j \in Nat /\ b + j >= b /\ (j > 0 => b + j > 0)
      BY <2>6, <3>1
    <3> QED
      BY <2>6, <3>2 DEF a, b
  <2> QED
    BY <2>5, <2>7 DEF Tally
<1> QED
  BY <1>1, <1>2

LEMMA SizesExist ==
    ASSUME NEW confirm \in [Report -> SUBSET Node], NEW reject \in [Report -> SUBSET Node],
           window \in Seq(Report)
    PROVE  LET f == Sizes(confirm, reject)
           IN  f = [i \in 0..Len(window) |-> MoreVotes(confirm, reject, f, i)]
<1> DEFINE n == Len(window)
           F == [0..n -> Tally]
           More(f, i) == MoreVotes(confirm, reject, f, i)
           Right(f, k) == \A i \in 0..n : i <= k => f[i] = More(f, i)
           B == {k \in 0..n : \E f \in F : Right(f, k)}
<1>1. n \in Nat
  BY LenProperties
<1>2. 0 \in B
  <2> DEFINE f == [i \in 0..n |-> NoVotes]
  <2>1. f \in F
    BY DEF NoVotes, Tally
  <2>2. Right(f, 0)
    BY <1>1 DEF MoreVotes
  <2> QED
    BY <1>1, <2>1, <2>2
<1>3. ASSUME NEW k \in 1..n, k - 1 \in B PROVE k \in B
  <2>1. PICK f \in F : Right(f, k - 1)
    BY <1>3
  <2> DEFINE g == [i \in 0..n |-> IF i = k THEN More(f, k) ELSE f[i]]
  <2>2. More(f, k) \in Tally
    <3>1. k \in 0..n /\ k - 1 \in 0..n
      BY <1>1
    <3>2. f[k - 1] \in Tally
      BY <3>1
    <3> QED
      BY <3>1, <3>2, MoreVotesTyped
  <2> HIDE DEF More
  <2>3. g \in F
    BY <2>2
  <2>4. ASSUME NEW i \in 0..n, i <= k PROVE g[i] = More(g, i)
    <3>1. More(g, i) = More(f, i)
      <4>1. i # 0 => g[i - 1] = f[i - 1]
        BY <1>1, <2>4
      <4> QED
        BY <4>1 DEF More, MoreVotes
    <3>2. CASE i = k
      BY <3>1, <3>2
    <3>3. CASE i # k
      <4>1. i <= k - 1
        BY <1>1, <2>4, <3>3
      <4> QED
        BY <2>1, <3>1, <3>3, <4>1
    <3> QED
      BY <3>2, <3>3
  <2>5. Right(g, k) /\ k \in 0..n
    BY <1>1, <2>4
  <2> HIDE DEF Right, F, g
  <2> QED
    BY <2>3, <2>5
<1>4. n \in B
  <2> HIDE DEF B, n
  <2>1. 0..n \subseteq B
    BY <1>1, <1>2, <1>3, UpTo
  <2> QED
    BY <1>1, <2>1
<1>5. PICK f \in F : Right(f, n)
  BY <1>4
<1>6. f = [i \in 0..n |-> More(f, i)]
  <2>1. \A i \in 0..n : f[i] = More(f, i)
    BY <1>1, <1>5
  <2> HIDE DEF More
  <2> QED
    BY <2>1
<1> QED
  BY <1>6 DEF Sizes

LEMMA VotesCounted ==
    ASSUME NEW confirm \in [Report -> SUBSET Node], NEW reject \in [Report -> SUBSET Node],
           window \in Seq(Report)
    PROVE  /\ Votes(confirm, reject) \in Tally
           /\ \A i \in DOMAIN window : reject[window[i]] # {} => Votes(confirm, reject).rejections > 0
<1> DEFINE n == Len(window)
           f == Sizes(confirm, reject)
           Counted(k) == \E i \in 1..k : reject[window[i]] # {}
           B == {k \in 0..n : f[k] \in Tally /\ (Counted(k) => f[k].rejections > 0)}
<1>1. n \in Nat /\ DOMAIN window = 1..n
  BY LenProperties
<1>2. \A i \in 0..n : f[i] = MoreVotes(confirm, reject, f, i)
  <2>1. f = [i \in 0..n |-> MoreVotes(confirm, reject, f, i)]
    BY SizesExist
  <2> HIDE DEF f
  <2> QED
    BY <2>1
<1> HIDE DEF f
<1>3. 0 \in B
  <2>1. f[0] \in Tally
    BY <1>1, <1>2, MoreVotesTyped
  <2> QED
    BY <1>1, <2>1
<1>4. ASSUME NEW k \in 1..n, k - 1 \in B PROVE k \in B
  <2>1. k \in 0..n /\ k # 0
    BY <1>1
  <2>2. f[k - 1] \in Tally /\ (Counted(k - 1) => f[k - 1].rejections > 0)
    BY <1>4
  <2>3. /\ f[k] \in Tally /\ f[k].rejections >= f[k - 1].rejections
        /\ reject[window[k]] # {} => f[k].rejections > 0
    BY <1>2, <2>1, <2>2, MoreVotesTyped
  <2>4. Counted(k) => Counted(k - 1) \/ reject[window[k]] # {}
    BY <1>1
  <2>5. f[k].rejections \in Int /\ f[k - 1].rejections \in Int
    BY <2>2, <2>3 DEF Tally
  <2> HIDE DEF Counted
  <2> QED
    BY <2>1, <2>2, <2>3, <2>4, <2>5
<1>5. n \in B
  <2> HIDE DEF B, n
  <2>1. 0..n \subseteq B
    BY <1>1, <1>3, <1>4, UpTo
  <2> QED
    BY <1>1, <2>1
<1>6. Votes(confirm, reject) = f[n]
  BY VotesAreSizes DEF f
<1> QED
  BY <1>1, <1>5, <1>6

-----------------------------------------------------------------------------
(* Confirmations *)

Open(r) == {c \in checking : c[1] = r}
Due(r) == {c[2][1] : c \in Open(r)}

\* Every node that was asked is still due, or has one vote.
Balanced(r) ==
    /\ Len(processing[r]) = Cardinality(Open(r))
    /\ \A c, d \in Open(r) : c[2][1] = d[2][1] => c = d
    /\ Due(r) \cap (confirmingNodes[r] \cup rejectingNodes[r] \cup errors[r]) = {}
    /\ confirmingNodes[r] \cap (rejectingNodes[r] \cup errors[r]) = {}
    /\ rejectingNodes[r] \cap errors[r] = {}
    /\ compared[r] =>
         asked[r] = Due(r) \cup confirmingNodes[r] \cup rejectingNodes[r] \cup errors[r]

Fresh(r) ==
    /\ Open(r) = {} /\ confirmingNodes[r] = {} /\ rejectingNodes[r] = {} /\ errors[r] = {}

CountTypes ==
    /\ reports \in 0..MaxReports /\ window \in Seq(Report) /\ Len(window) <= KeepReports
    /\ processing \in [Report -> Seq(Node)] /\ checking \subseteq Report \X Ref
    /\ confirmingNodes \in [Report -> SUBSET Node] /\ rejectingNodes \in [Report -> SUBSET Node]
    /\ errors \in [Report -> SUBSET Node] /\ asked \in [Report -> SUBSET Node]
    /\ compared \in [Report -> BOOLEAN] /\ shown \in Tally

Books ==
    /\ CountTypes /\ RejectionShows
    /\ \A r \in Report : Balanced(r) /\ (r > reports => Fresh(r))

LEMMA FinitelyOpen ==
    ASSUME CountTypes, NEW r \in Report
    PROVE  IsFiniteSet(Open(r))
<1>1. IsFiniteSet(Report) /\ IsFiniteSet(1..MaxSerial)
  BY BoundAssumption, FS_Interval DEF Report
<1>2. IsFiniteSet(Report \X Ref)
  BY <1>1, BoundAssumption, FS_Product DEF Ref
<1>3. Open(r) \in SUBSET (Report \X Ref)
  BY DEF Open, CountTypes
<1> QED
  BY <1>2, <1>3, FS_Subset

LEMMA BooksInitially == Init => Books
<1> SUFFICES ASSUME Init PROVE Books
  OBVIOUS
<1>1. CountTypes
  <2>1. window \in Seq(Report) /\ Len(window) = 0 /\ <<>> \in Seq(Node)
    BY EmptySeq DEF Init
  <2>2. Len(window) <= KeepReports
    BY <2>1, BoundAssumption
  <2>3. shown \in Tally
    BY DEF Init, Tally
  <2> QED
    BY <2>1, <2>2, <2>3, BoundAssumption DEF Init, CountTypes
<1>2. \A r \in Report : Fresh(r)
  BY DEF Init, Fresh, Open
<1>3. \A r \in Report : Balanced(r)
  <2> TAKE r \in Report
  <2>1. Len(processing[r]) = 0 /\ Cardinality(Open(r)) = 0
    BY <1>2, EmptySeq, SmallSets DEF Init, Fresh
  <2>2. compared[r] = FALSE
    BY DEF Init
  <2> QED
    BY <1>2, <2>1, <2>2 DEF Fresh, Balanced, Due
<1>4. RejectionShows
  BY DEF Init, RejectionShows
<1> QED
  BY <1>1, <1>2, <1>3, <1>4 DEF Books

LEMMA SameReport ==
    ASSUME Books, NEW r \in Report, Open(r)' = Open(r), processing'[r] = processing[r],
           confirmingNodes'[r] = confirmingNodes[r], rejectingNodes'[r] = rejectingNodes[r],
           errors'[r] = errors[r], compared'[r] = compared[r], asked'[r] = asked[r]
    PROVE  Balanced(r)' /\ (r > reports => Fresh(r)')
BY DEF Books, Balanced, Fresh, Due

\* One node's answer.
LEMMA OneVote ==
    ASSUME Books, NEW r \in Report, NEW ref \in Ref, <<r, ref>> \in checking,
           TakesOff(r, ref),
           confirmingNodes' \in [Report -> SUBSET Node], rejectingNodes' \in [Report -> SUBSET Node],
           errors' \in [Report -> SUBSET Node],
           \A s \in Report \ {r} : /\ confirmingNodes'[s] = confirmingNodes[s]
                                  /\ rejectingNodes'[s] = rejectingNodes[s]
                                  /\ errors'[s] = errors[s],
           \/ /\ confirmingNodes'[r] = confirmingNodes[r] \cup {ref[1]}
              /\ rejectingNodes'[r] = rejectingNodes[r] /\ errors'[r] = errors[r]
           \/ /\ rejectingNodes'[r] = rejectingNodes[r] \cup {ref[1]}
              /\ confirmingNodes'[r] = confirmingNodes[r] /\ errors'[r] = errors[r]
           \/ /\ errors'[r] = errors[r] \cup {ref[1]}
              /\ confirmingNodes'[r] = confirmingNodes[r] /\ rejectingNodes'[r] = rejectingNodes[r]
           \/ /\ confirmingNodes'[r] = confirmingNodes[r]
              /\ rejectingNodes'[r] = rejectingNodes[r] /\ errors'[r] = errors[r] /\ ~compared[r]
    PROVE  /\ processing' \in [Report -> Seq(Node)] /\ checking' \subseteq Report \X Ref
           /\ \A s \in Report : Balanced(s)' /\ (s > reports => Fresh(s)')
<1> USE DEF Books
<1>1. /\ processing' = [processing EXCEPT ![r] = Without(@)]
      /\ checking' = checking \ {<<r, ref>>}
      /\ UNCHANGED <<reports, window, compared, asked>>
  BY DEF TakesOff, counted
<1>2. <<r, ref>> \in Open(r) /\ Open(r)' = Open(r) \ {<<r, ref>>}
  BY <1>1 DEF Open
<1>3. \A s \in Report \ {r} : Open(s)' = Open(s)
  BY <1>1 DEF Open
<1>4. Cardinality(Open(r)') = Cardinality(Open(r)) - 1 /\ Cardinality(Open(r)) \in Nat
  <2>1. IsFiniteSet(Open(r))
    BY FinitelyOpen
  <2>2. Cardinality(Open(r) \ {<<r, ref>>}) = Cardinality(Open(r)) - 1
    BY <1>2, <2>1, FS_RemoveElement
  <2> QED
    BY <1>2, <2>1, <2>2, FS_CardinalityType
<1>5. Without(processing[r]) \in Seq(Node) /\ Len(Without(processing[r])) = Len(processing[r]) - 1
  <2>1. processing[r] \in Seq(Node)
    BY DEF CountTypes
  <2>2. Len(processing[r]) = Cardinality(Open(r)) /\ Cardinality(Open(r)) # 0
    BY <1>2, FinitelyOpen, FS_EmptySet DEF Balanced
  <2>3. Len(processing[r]) \in Nat \ {0}
    BY <1>4, <2>2
  <2>4. \A i \in 1..Len(processing[r]) - 1 : processing[r][i] \in Node
    BY <2>1, <2>3, ElementOfSeq
  <2> QED
    BY <2>3, <2>4, SubSeqProperties DEF Without
<1>6. processing' \in [Report -> Seq(Node)] /\ Len(processing'[r]) = Cardinality(Open(r)')
  BY <1>1, <1>4, <1>5 DEF CountTypes, Balanced
<1>7. Due(r)' = Due(r) \ {ref[1]} /\ ref[1] \in Due(r)
  <2>1. \A c \in Open(r) : c[2][1] = ref[1] => c = <<r, ref>>
    BY <1>2 DEF Balanced
  <2> QED
    BY <1>2, <2>1 DEF Due
<1>8. Balanced(r)'
  <2>1. \A c, d \in Open(r)' : c[2][1] = d[2][1] => c = d
    BY <1>2 DEF Balanced
  <2>2. /\ Due(r)' \cap (confirmingNodes'[r] \cup rejectingNodes'[r] \cup errors'[r]) = {}
        /\ confirmingNodes'[r] \cap (rejectingNodes'[r] \cup errors'[r]) = {}
        /\ rejectingNodes'[r] \cap errors'[r] = {}
    BY <1>7 DEF Balanced
  <2>3. compared'[r] =>
          asked'[r] = Due(r)' \cup confirmingNodes'[r] \cup rejectingNodes'[r] \cup errors'[r]
    BY <1>1, <1>7 DEF Balanced
  <2> QED
    BY <1>6, <2>1, <2>2, <2>3 DEF Balanced
<1>9. ~(r > reports)
  BY <1>2 DEF Fresh
<1>10. ASSUME NEW s \in Report \ {r} PROVE Balanced(s)' /\ (s > reports => Fresh(s)')
  BY <1>1, <1>3, SameReport DEF CountTypes
<1>11. checking' \subseteq Report \X Ref
  BY <1>1 DEF CountTypes
<1> QED
  BY <1>6, <1>8, <1>9, <1>10, <1>11

LEMMA VotesKeepBooks ==
    ASSUME Books, NEW r \in Report, NEW ref \in Ref,
           Confirms(r, ref) \/ Rejects(r, ref) \/ Errs(r, ref)
    PROVE  Books'
<1> USE DEF Books
<1>1. /\ <<r, ref>> \in checking /\ TakesOff(r, ref) /\ ref[1] \in Node
      /\ UNCHANGED <<reports, window, compared, asked>>
  BY DEF Confirms, Rejects, Errs, TakesOff, counted, Ref
<1>2. /\ confirmingNodes \in [Report -> SUBSET Node] /\ rejectingNodes \in [Report -> SUBSET Node]
      /\ errors \in [Report -> SUBSET Node] /\ window \in Seq(Report) /\ shown \in Tally
  BY DEF CountTypes
<1>3. ASSUME confirmingNodes' \in [Report -> SUBSET Node], rejectingNodes' \in [Report -> SUBSET Node]
      PROVE  LET votes == Votes(confirmingNodes', rejectingNodes')
             IN  /\ votes \in Tally
                 /\ \A i \in DOMAIN window :
                       rejectingNodes'[window[i]] # {} => votes.rejections > 0
  BY <1>2, <1>3, VotesCounted
<1>4. ASSUME confirmingNodes' \in [Report -> SUBSET Node],
             rejectingNodes' \in [Report -> SUBSET Node], errors' \in [Report -> SUBSET Node],
             processing' \in [Report -> Seq(Node)], checking' \subseteq Report \X Ref,
             \A s \in Report : Balanced(s)' /\ (s > reports => Fresh(s)'),
             \/ shown' = Votes(confirmingNodes', rejectingNodes')
             \/ shown' = shown /\ rejectingNodes' = rejectingNodes
      PROVE  Books'
  <2>1. shown' \in Tally /\ RejectionShows'
    BY <1>1, <1>2, <1>3, <1>4 DEF RejectionShows
  <2>2. CountTypes'
    BY <1>1, <1>4, <2>1 DEF CountTypes
  <2> QED
    BY <1>1, <1>4, <2>1, <2>2
<1>5. CASE Confirms(r, ref)
  <2>1. /\ confirmingNodes' = [confirmingNodes EXCEPT ![r] = @ \cup {ref[1]}]
        /\ UNCHANGED <<rejectingNodes, errors>>
        /\ shown' = Votes(confirmingNodes', rejectingNodes') \/ shown' = shown
    BY <1>5 DEF Confirms, ShowVotes
  <2>2. /\ confirmingNodes' \in [Report -> SUBSET Node]
        /\ confirmingNodes'[r] = confirmingNodes[r] \cup {ref[1]}
        /\ \A s \in Report \ {r} : confirmingNodes'[s] = confirmingNodes[s]
    BY <1>1, <1>2, <2>1
  <2>3. /\ processing' \in [Report -> Seq(Node)] /\ checking' \subseteq Report \X Ref
        /\ \A s \in Report : Balanced(s)' /\ (s > reports => Fresh(s)')
    BY <1>1, <1>2, <2>1, <2>2, OneVote
  <2> QED
    BY <1>2, <1>4, <2>1, <2>2, <2>3
<1>6. CASE Rejects(r, ref) /\ compared[r]
  <2>1. /\ rejectingNodes' = [rejectingNodes EXCEPT ![r] = @ \cup {ref[1]}]
        /\ UNCHANGED <<confirmingNodes, errors>>
        /\ shown' = Votes(confirmingNodes', rejectingNodes')
    BY <1>6 DEF Rejects, ShowVotes
  <2>2. /\ rejectingNodes' \in [Report -> SUBSET Node]
        /\ rejectingNodes'[r] = rejectingNodes[r] \cup {ref[1]}
        /\ \A s \in Report \ {r} : rejectingNodes'[s] = rejectingNodes[s]
    BY <1>1, <1>2, <2>1
  <2>3. /\ processing' \in [Report -> Seq(Node)] /\ checking' \subseteq Report \X Ref
        /\ \A s \in Report : Balanced(s)' /\ (s > reports => Fresh(s)')
    BY <1>1, <1>2, <2>1, <2>2, OneVote
  <2> QED
    BY <1>2, <1>4, <2>1, <2>2, <2>3
<1>7. CASE Rejects(r, ref) /\ ~compared[r]
  <2>1. UNCHANGED <<confirmingNodes, rejectingNodes, errors, shown>>
    BY <1>7 DEF Rejects
  <2>2. /\ processing' \in [Report -> Seq(Node)] /\ checking' \subseteq Report \X Ref
        /\ \A s \in Report : Balanced(s)' /\ (s > reports => Fresh(s)')
    BY <1>1, <1>2, <1>7, <2>1, OneVote
  <2> QED
    BY <1>2, <1>4, <2>1, <2>2
<1>8. CASE Errs(r, ref)
  <2>1. /\ errors' = [errors EXCEPT ![r] = @ \cup {ref[1]}]
        /\ UNCHANGED <<confirmingNodes, rejectingNodes, shown>>
    BY <1>8 DEF Errs
  <2>2. /\ errors' \in [Report -> SUBSET Node]
        /\ errors'[r] = errors[r] \cup {ref[1]}
        /\ \A s \in Report \ {r} : errors'[s] = errors[s]
    BY <1>1, <1>2, <2>1
  <2>3. /\ processing' \in [Report -> Seq(Node)] /\ checking' \subseteq Report \X Ref
        /\ \A s \in Report : Balanced(s)' /\ (s > reports => Fresh(s)')
    BY <1>1, <1>2, <2>1, <2>2, OneVote
  <2> QED
    BY <1>2, <1>4, <2>1, <2>2, <2>3
<1> QED
  BY <1>5, <1>6, <1>7, <1>8

\* The nodes to ask are different ones.
LEMMA SampleTyped ==
    ASSUME Registered, NEW nodes \in Sample
    PROVE  /\ nodes \subseteq Ref /\ IsFiniteSet(nodes) /\ Addresses(nodes) \subseteq Node
           /\ \A ref, other \in nodes : ref[1] = other[1] => ref = other
<1>1. nodes \subseteq Available
  BY DEF Sample
<1>2. \A ref \in nodes : ref[1] \in Node /\ ref = Entry(ref[1])
  <2> TAKE ref \in nodes
  <2>1. PICK n \in Node : ref = Entry(n)
    BY <1>1 DEF Available
  <2>2. ref[1] = n
    BY <2>1 DEF Entry
  <2> QED
    BY <2>1, <2>2
<1>3. nodes \in SUBSET Ref
  BY <1>1, EntriesTyped
<1>4. IsFiniteSet(1..MaxSerial)
  BY BoundAssumption, FS_Interval
<1>5. IsFiniteSet(Ref)
  BY <1>4, BoundAssumption, FS_Product DEF Ref
<1>6. IsFiniteSet(nodes)
  BY <1>3, <1>5, FS_Subset
<1> QED
  BY <1>2, <1>3, <1>6 DEF Addresses

LEMMA ListingTyped ==
    ASSUME Registered, NEW nodes \in Sample
    PROVE  Listing(nodes) \in Seq(Node) /\ Len(Listing(nodes)) = Cardinality(nodes)
<1> DEFINE n == Cardinality(nodes)
           All(s) == \A a \in Addresses(nodes) : \E i \in DOMAIN s : s[i] = a
<1>1. n \in Nat
  BY SampleTyped, FS_CardinalityType
<1>2. PICK f \in Bijection(1..n, nodes) : TRUE
  BY SampleTyped, FS_CardinalityType DEF ExistsBijection
<1>3. f \in [1..n -> nodes] /\ \A ref \in nodes : \E i \in 1..n : f[i] = ref
  BY <1>2 DEF Bijection, Injection, Surjection
<1> DEFINE s == [i \in 1..n |-> f[i][1]]
<1>4. s \in [1..n -> Addresses(nodes)]
  BY <1>3 DEF Addresses
<1>5. All(s)
  BY <1>3 DEF Addresses
<1>6. Listing(nodes) \in [1..n -> Addresses(nodes)]
  <2>1. \E t \in [1..n -> Addresses(nodes)] : All(t)
    BY <1>4, <1>5
  <2> QED
    BY <2>1 DEF Listing
<1>7. Listing(nodes) \in [1..n -> Node]
  BY <1>6, SampleTyped
<1> HIDE DEF n
<1>8. Listing(nodes) \in Seq(Node)
  BY <1>1, <1>7, SeqDef
<1>9. Len(Listing(nodes)) = n
  <2>1. DOMAIN Listing(nodes) = 1..n
    BY <1>7
  <2>2. DOMAIN Listing(nodes) = 1..Len(Listing(nodes)) /\ Len(Listing(nodes)) \in Nat
    BY <1>8, LenProperties
  <2> QED
    BY <1>1, <2>1, <2>2
<1> QED
  BY <1>8, <1>9 DEF n

\* A report goes to the front of the window, and the last one may fall out.
LEMMA WindowMoves ==
    ASSUME window \in Seq(Report), Len(window) <= KeepReports, NEW r \in Report,
           NEW young \in 0..Len(window),
           window' = LET all == <<r>> \o SubSeq(window, 1, young)
                     IN  SubSeq(all, 1, Least(Len(all), KeepReports))
    PROVE  /\ window' \in Seq(Report) /\ Len(window') <= KeepReports
           /\ \A i \in DOMAIN window' : window'[i] = r \/ \E j \in DOMAIN window : window'[i] = window[j]
<1> DEFINE kept == SubSeq(window, 1, young)
           all == <<r>> \o kept
           n == Least(Len(all), KeepReports)
<1>1. Len(window) \in Nat /\ DOMAIN window = 1..Len(window) /\ young \in Nat /\ young <= Len(window)
  BY LenProperties
<1>2. /\ kept \in Seq(Report) /\ Len(kept) = young
      /\ \A i \in 1..young : kept[i] = window[i]
  <2>1. \A i \in 1..young : window[i] \in Report
    BY <1>1, ElementOfSeq
  <2>2. /\ kept \in Seq(Report) /\ Len(kept) = (IF 1 <= young THEN young - 1 + 1 ELSE 0)
        /\ \A i \in 1..young - 1 + 1 : kept[i] = window[1 + i - 1]
    BY <1>1, <2>1, SubSeqProperties
  <2> HIDE DEF kept
  <2>3. \A i \in 1..young : kept[i] = window[i]
    <3> TAKE i \in 1..young
    <3>1. 1 + i - 1 = i /\ i \in 1..young - 1 + 1
      BY <1>1
    <3> QED
      BY <2>2, <3>1
  <2>4. Len(kept) = young
    BY <1>1, <2>2
  <2> QED
    BY <2>2, <2>3, <2>4
<1> HIDE DEF kept
<1>3. <<r>> \in Seq(Report) /\ Len(<<r>>) = 1 /\ <<r>>[1] = r
  OBVIOUS
<1>4. /\ all \in Seq(Report) /\ Len(all) = 1 + young
      /\ \A i \in 1..1 + young : all[i] = IF i <= 1 THEN r ELSE kept[i - 1]
  <2>1. /\ all \in Seq(Report) /\ Len(all) = Len(<<r>>) + Len(kept)
        /\ \A i \in 1..Len(<<r>>) + Len(kept) :
              all[i] = IF i <= Len(<<r>>) THEN <<r>>[i] ELSE kept[i - Len(<<r>>)]
    BY <1>2, <1>3, ConcatProperties
  <2> HIDE DEF all
  <2>2. \A i \in 1..1 + young : i <= 1 => i = 1
    BY <1>1
  <2> QED
    BY <1>2, <1>3, <2>1, <2>2
<1>5. \A i \in 1..1 + young : all[i] = r \/ \E j \in DOMAIN window : all[i] = window[j]
  <2> HIDE DEF all
  <2> TAKE i \in 1..1 + young
  <2>1. CASE i <= 1
    BY <1>4, <2>1
  <2>2. CASE ~(i <= 1)
    <3>1. i - 1 \in 1..young /\ i - 1 \in 1..Len(window)
      BY <1>1, <2>2
    <3>2. all[i] = window[i - 1]
      BY <1>2, <1>4, <2>2, <3>1
    <3> QED
      BY <1>1, <3>1, <3>2
  <2> QED
    BY <2>1, <2>2
<1> HIDE DEF all
<1>6. n \in Nat /\ n <= KeepReports /\ n <= 1 + young
  <2>1. KeepReports \in Nat /\ 1 + young \in Nat /\ Len(all) = 1 + young
    BY <1>1, <1>4, BoundAssumption
  <2>2. n = IF 1 + young <= KeepReports THEN 1 + young ELSE KeepReports
    BY <2>1 DEF Least
  <2> HIDE DEF n
  <2> QED
    BY <2>1, <2>2
<1> HIDE DEF n
<1>7. window' = SubSeq(all, 1, n)
  BY DEF all, n, kept
<1>8. \A i \in 1..n : i \in 1..1 + young
  BY <1>1, <1>6
<1>9. /\ window' \in Seq(Report) /\ Len(window') = n
      /\ \A i \in 1..n : window'[i] = all[i]
  <2>1. /\ window' \in Seq(Report) /\ Len(window') = (IF 1 <= n THEN n - 1 + 1 ELSE 0)
        /\ \A i \in 1..n - 1 + 1 : window'[i] = all[1 + i - 1]
    <3>1. \A i \in 1..n : all[i] \in Report
      BY <1>4, <1>8, ElementOfSeq
    <3>2. 1 \in Int /\ n \in Int
      BY <1>6
    <3> DEFINE front == SubSeq(all, 1, n)
    <3>3. /\ front \in Seq(Report) /\ Len(front) = (IF 1 <= n THEN n - 1 + 1 ELSE 0)
          /\ \A i \in 1..n - 1 + 1 : front[i] = all[1 + i - 1]
      BY <3>1, <3>2, SubSeqProperties
    <3> HIDE DEF front
    <3>4. window' = front
      BY <1>7 DEF front
    <3> QED
      BY <3>3, <3>4
  <2>2. \A i \in 1..n : window'[i] = all[i]
    <3> TAKE i \in 1..n
    <3>1. 1 + i - 1 = i /\ i \in 1..n - 1 + 1
      BY <1>6
    <3> QED
      BY <2>1, <3>1
  <2>3. Len(window') = n
    BY <1>6, <2>1
  <2> QED
    BY <2>1, <2>2, <2>3
<1>10. DOMAIN window' = 1..n
  BY <1>9, LenProperties
<1> QED
  BY <1>5, <1>6, <1>8, <1>9, <1>10

LEMMA ReportKeepsBooks ==
    ASSUME Registered, Books, NEW q \in Request, ConfirmResponse(q)
    PROVE  Books'
<1> USE DEF Books
<1>0. PICK r \in Report : r = reports + 1
  BY DEF ConfirmResponse
<1>1. PICK nodes \in Sample, young \in 0..Len(window) :
        /\ window' = LET all == <<r>> \o SubSeq(window, 1, young)
                     IN  SubSeq(all, 1, Least(Len(all), KeepReports))
        /\ processing' = [processing EXCEPT ![r] = Listing(nodes)]
        /\ compared' = [compared EXCEPT ![r] = remoteNode # {}]
        /\ asked' = [asked EXCEPT ![r] = Addresses(nodes)]
        /\ checking' = checking \cup ({r} \X nodes)
  BY <1>0 DEF ConfirmResponse
<1>2. /\ r \in Report /\ reports' = r
      /\ UNCHANGED <<confirmingNodes, rejectingNodes, errors, shown>>
  BY <1>0 DEF ConfirmResponse
<1>3. r > reports /\ r \in 0..MaxReports /\ reports \in Nat /\ (\A s \in Report : s > r => s > reports)
  BY <1>0, BoundAssumption DEF Report, CountTypes
<1>4. Fresh(r)
  BY <1>2, <1>3
<1>5. /\ window' \in Seq(Report) /\ Len(window') <= KeepReports
      /\ \A i \in DOMAIN window' : window'[i] = r \/ \E j \in DOMAIN window : window'[i] = window[j]
  BY <1>1, <1>2, WindowMoves DEF CountTypes
<1>6. RejectionShows'
  BY <1>2, <1>4, <1>5 DEF RejectionShows, Fresh
<1>7. CountTypes'
  <2>1. nodes \subseteq Ref /\ Addresses(nodes) \subseteq Node /\ Listing(nodes) \in Seq(Node)
    BY SampleTyped, ListingTyped
  <2>2. checking' \subseteq Report \X Ref
    BY <1>1, <1>2, <2>1 DEF CountTypes
  <2>3. /\ processing' \in [Report -> Seq(Node)] /\ compared' \in [Report -> BOOLEAN]
        /\ asked' \in [Report -> SUBSET Node]
    BY <1>1, <1>2, <2>1 DEF CountTypes
  <2> QED
    BY <1>2, <1>3, <1>5, <2>2, <2>3 DEF CountTypes
<1>8. Open(r)' = {r} \X nodes
  BY <1>1, <1>4 DEF Open, Fresh
<1>9. Balanced(r)'
  <2>1. Len(processing'[r]) = Cardinality(nodes)
    BY <1>1, <1>2, ListingTyped DEF CountTypes
  <2>2. Cardinality({r} \X nodes) = Cardinality(nodes)
    <3>1. Cardinality({r} \X nodes) = Cardinality({r}) * Cardinality(nodes)
      BY SampleTyped, FS_Singleton, FS_Product
    <3>2. Cardinality({r}) = 1 /\ Cardinality(nodes) \in Nat
      BY SmallSets, SampleTyped, FS_CardinalityType
    <3> QED
      BY <3>1, <3>2
  <2>3. \A c, d \in Open(r)' : c[2][1] = d[2][1] => c = d
    BY <1>8, SampleTyped
  <2>4. Due(r)' = Addresses(nodes)
    <3>1. \A c \in {r} \X nodes : c[2] \in nodes
      OBVIOUS
    <3>2. \A ref \in nodes : <<r, ref>> \in {r} \X nodes /\ <<r, ref>>[2] = ref
      OBVIOUS
    <3> QED
      BY <1>8, <3>1, <3>2 DEF Due, Addresses
  <2>5. asked'[r] = Addresses(nodes)
    BY <1>1, <1>2 DEF CountTypes
  <2> QED
    BY <1>2, <1>4, <1>8, <2>1, <2>2, <2>3, <2>4, <2>5 DEF Balanced, Fresh
<1>10. ASSUME NEW s \in Report \ {r} PROVE Balanced(s)' /\ (s > reports => Fresh(s)')
  <2>1. Open(s)' = Open(s)
    BY <1>1 DEF Open
  <2>2. processing'[s] = processing[s] /\ compared'[s] = compared[s] /\ asked'[s] = asked[s]
    BY <1>1, <1>2 DEF CountTypes
  <2> QED
    BY <1>2, <2>1, <2>2, SameReport
<1>11. ASSUME NEW s \in Report PROVE Balanced(s)' /\ (s > reports' => Fresh(s)')
  <2>1. CASE s = r
    <3>1. ~(r > r)
      BY <1>3
    <3> QED
      BY <1>2, <1>9, <2>1, <3>1
  <2>2. CASE s # r
    BY <1>2, <1>3, <1>10, <2>2
  <2> QED
    BY <2>1, <2>2
<1> QED
  BY <1>6, <1>7, <1>11

LEMMA OthersKeepBooks ==
    ASSUME Books, UNCHANGED confirmations
    PROVE  Books'
<1>1. UNCHANGED <<reports, window, compared, asked, processing, confirmingNodes, rejectingNodes,
                  errors, checking, shown>>
  BY DEF confirmations, counted
<1>2. CountTypes' /\ RejectionShows'
  BY <1>1 DEF Books, CountTypes, RejectionShows
<1>3. \A r \in Report : Balanced(r)' /\ (r > reports' => Fresh(r)')
  <2> TAKE r \in Report
  <2>1. Open(r)' = Open(r)
    BY <1>1 DEF Open
  <2> QED
    BY <1>1, <2>1, SameReport
<1> QED
  BY <1>2, <1>3 DEF Books

LEMMA BooksHold == Spec => []Books
<1>1. ASSUME NetInv, Books, [Next]_vars PROVE Books'
  <2>1. CASE UNCHANGED confirmations
    BY <1>1, <2>1, OthersKeepBooks
  <2>2. ASSUME NEW q \in Request, ConfirmResponse(q) PROVE Books'
    BY <1>1, <2>2, ReportKeepsBooks DEF NetInv
  <2>3. ASSUME NEW r \in Report, NEW ref \in Ref,
               Confirms(r, ref) \/ Rejects(r, ref) \/ Errs(r, ref)
        PROVE  Books'
    BY <1>1, <2>3, VotesKeepBooks
  <2> QED
    BY <1>1, <2>1, <2>2, <2>3
    DEF Next, vars, Booting, Start, ConfiguredAnswers, Ignored, Rejected, Accepted, Expire,
        FindMoreNodes, PeersFound, Send, Fails, Aborts, Answered
<1> QED
  BY <1>1, BooksInitially, NetHolds, PTL DEF Spec

\* Every variable has its type: in particular no bootstrap answer is counted
\* twice, and no more reports are kept than there should be.
THEOREM TypeCorrect == Spec => []TypeOK
<1>1. NetInv /\ Books => TypeOK
  BY DEF NetInv, Boots, Registered, Finds, Requests, Books, CountTypes, Tally, TypeOK, Report
<1> QED
  BY <1>1, NetHolds, BooksHold, PTL

\* The list of a report is as long as the answers it waits for, and every node
\* that was asked has one vote or none, however requests and answers overlap.
THEOREM AnswersCountedCorrect == Spec => []AnswersCounted
<1>1. ASSUME Books, NEW r \in 1..reports
      PROVE  LET open == {c \in checking : c[1] = r}
                 in == {c[2][1] : c \in open}
             IN  /\ Len(processing[r]) = Cardinality(open)
                 /\ compared[r] =>
                      /\ asked[r] = in \cup confirmingNodes[r] \cup rejectingNodes[r] \cup errors[r]
                      /\ Cardinality(asked[r]) = Cardinality(in) + Cardinality(confirmingNodes[r])
                           + Cardinality(rejectingNodes[r]) + Cardinality(errors[r])
  <2>1. r \in Report
    BY <1>1, BoundAssumption DEF Books, CountTypes, Report
  <2>2. Balanced(r)
    BY <1>1, <2>1 DEF Books
  <2> DEFINE a == Due(r)
             b == confirmingNodes[r]
             c == rejectingNodes[r]
             d == errors[r]
  <2>3. b \in SUBSET Node /\ c \in SUBSET Node /\ d \in SUBSET Node
    BY <1>1, <2>1 DEF Books, CountTypes
  <2>4. a \in SUBSET Node
    <3>1. \A e \in Open(r) : e[2] \in Node \X (1..MaxSerial)
      BY <1>1 DEF Books, CountTypes, Open, Ref
    <3> QED
      BY <3>1 DEF Due
  <2>5. /\ a \cap (b \cup c \cup d) = {} /\ b \cap (c \cup d) = {} /\ c \cap d = {}
        /\ compared[r] => asked[r] = a \cup b \cup c \cup d
        /\ Len(processing[r]) = Cardinality(Open(r))
    BY <2>2 DEF Balanced
  <2> HIDE DEF a, b, c, d
  <2>6. IsFiniteSet(a) /\ IsFiniteSet(b) /\ IsFiniteSet(c) /\ IsFiniteSet(d)
    BY <2>3, <2>4, FiniteNodes
  <2>7. Cardinality(a \cup b \cup c \cup d)
            = Cardinality(a) + Cardinality(b) + Cardinality(c) + Cardinality(d)
    <3>1. /\ IsFiniteSet(a \cup b)
          /\ Cardinality(a \cup b) = Cardinality(a) + Cardinality(b) - Cardinality(a \cap b)
      BY <2>6, FS_Union
    <3>2. /\ IsFiniteSet(a \cup b \cup c)
          /\ Cardinality(a \cup b \cup c)
                = Cardinality(a \cup b) + Cardinality(c) - Cardinality((a \cup b) \cap c)
      BY <2>6, <3>1, FS_Union
    <3>3. Cardinality(a \cup b \cup c \cup d)
                = Cardinality(a \cup b \cup c) + Cardinality(d) - Cardinality((a \cup b \cup c) \cap d)
      BY <2>6, <3>2, FS_Union
    <3>4. a \cap b = {} /\ (a \cup b) \cap c = {} /\ (a \cup b \cup c) \cap d = {}
      BY <2>5
    <3>5. /\ Cardinality(a) \in Nat /\ Cardinality(b) \in Nat /\ Cardinality(c) \in Nat
          /\ Cardinality(d) \in Nat
      BY <2>6, FS_CardinalityType
    <3>6. /\ Cardinality(a \cup b) = Cardinality(a) + Cardinality(b)
          /\ Cardinality(a \cup b \cup c) = Cardinality(a \cup b) + Cardinality(c)
          /\ Cardinality(a \cup b \cup c \cup d) = Cardinality(a \cup b \cup c) + Cardinality(d)
      <4>1. Cardinality({}) = 0
        BY SmallSets
      <4>2. /\ Cardinality(a \cap b) = 0 /\ Cardinality((a \cup b) \cap c) = 0
            /\ Cardinality((a \cup b \cup c) \cap d) = 0
        BY <3>4, <4>1
      <4>3. Cardinality(a \cup b) \in Nat /\ Cardinality(a \cup b \cup c) \in Nat
        BY <3>1, <3>2, FS_CardinalityType
      <4> QED
        BY <3>1, <3>2, <3>3, <3>5, <4>2, <4>3
    <3> QED
      BY <3>6
  <2> QED
    BY <2>5, <2>7 DEF a, b, c, d, Due, Open
<1>2. Books => AnswersCounted
  BY <1>1 DEF AnswersCounted
<1> QED
  BY <1>2, BooksHold, PTL

\* As long as a report with a rejection is kept, the indicator shows one.
THEOREM RejectionShowsCorrect == Spec => []RejectionShows
<1>1. Books => RejectionShows
  BY DEF Books
<1> QED
  BY <1>1, BooksHold, PTL
=============================================================================
