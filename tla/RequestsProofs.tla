----------------------------- MODULE RequestsProofs -----------------------------
(***************************************************************************)
(* Proofs about requests: batches (BatchRequest), of any size and with any *)
(* answers; and the calls of the library's methods (Requests), for any     *)
(* blocks and any providers.                                               *)
(***************************************************************************)
EXTENDS BatchRequest, Requests, TLAPS

(***************************************************************************)
(* The inductive invariant: an execution that has not started is blank,    *)
(* and what an execution sent is still in the batch, so that an abort or   *)
(* an accepted answer reaches it.                                          *)
(***************************************************************************)
NotStarted ==
    \A e \in Executions :
        e > started => /\ e \notin outstanding
                       /\ e \notin timers
                       /\ execPromise[e] = "pending"

SentIsKept == \A e \in Executions : payload[e] \subseteq requests

Inv == TypeOK /\ NotStarted /\ SentIsKept /\ NoneLeftOpen

(* What all ways of settling requests have in common.                      *)
Settles ==
    /\ state' \in [Reqs -> States]
    /\ promise' \in [Reqs -> States]
    /\ \A r \in Reqs : promise[r] # "pending" => promise'[r] # "pending"

LEMMA AbortSettles ==
    ASSUME TypeOK, AbortAll
    PROVE  Settles /\ \A r \in requests : promise'[r] # "pending"
BY DEF TypeOK, AbortAll, First, Settles, States

LEMMA AnswerSettles ==
    ASSUME TypeOK, NEW answer \in Answers, SettleEach(answer)
    PROVE  Settles
<1> DEFINE entries(r) == IF r \in requests THEN EntriesOf(answer, r) ELSE {}
<1>1. \A r \in Reqs :
        /\ FirstOf(answer, entries(r)) \in {"fulfilled", "rejected"}
        /\ LastOf(answer, entries(r)) \in {"fulfilled", "rejected"}
  BY DEF FirstOf, LastOf, Verdict
<1>2. /\ state' = [r \in Reqs |-> IF entries(r) = {} THEN state[r]
                                  ELSE LastOf(answer, entries(r))]
      /\ promise' = [r \in Reqs |-> IF entries(r) = {} THEN promise[r]
                                    ELSE First(promise[r],
                                               FirstOf(answer, entries(r)))]
  BY DEF SettleEach
<1> HIDE DEF entries
<1>3. QED
  BY <1>1, <1>2 DEF TypeOK, First, Settles, States

(* An answer whose ids are those of the batch settles every request.       *)
LEMMA AnswerReachesAll ==
    ASSUME TypeOK, NumericIds, "neither" \notin Kinds,
           NEW answer \in Answers, SameIds(answer), SettleEach(answer),
           NEW r \in requests
    PROVE  promise'[r] # "pending"
<1>1. PICK k \in DOMAIN answer : answer[k].id = r
  BY DEF SameIds
<1>2. PICK n \in 0 .. MaxEntries : answer \in [1 .. n -> Entries]
  BY DEF Answers
<1>3. answer[k].kind # "neither"
  BY <1>2 DEF Entries
<1>4. EntriesOf(answer, r) # {}
  BY <1>1, <1>3 DEF EntriesOf
<1>5. FirstOf(answer, EntriesOf(answer, r)) \in {"fulfilled", "rejected"}
  BY DEF FirstOf, Verdict
<1>6. promise'[r] = First(promise[r], FirstOf(answer, EntriesOf(answer, r)))
  BY <1>4 DEF SettleEach, TypeOK
<1>7. QED
  BY <1>5, <1>6 DEF First

LEMMA InitInv == Init => Inv
<1> SUFFICES ASSUME Init
             PROVE  Inv
  OBVIOUS
<1>1. TypeOK
  BY BatchAssumption DEF BatchAssumption, Init, TypeOK, States
<1>2. NotStarted /\ SentIsKept /\ NoneLeftOpen
  BY DEF Init, NotStarted, SentIsKept, NoneLeftOpen, Reasons
<1>3. QED
  BY <1>1, <1>2 DEF Inv

(* The end of an execution that was outstanding or had its timeout set.    *)
LEMMA EndInv ==
    ASSUME Inv, NEW e \in Executions, e \in outstanding \union timers, Settles,
           NEW end \in {"fulfilled"} \union Reasons,
           execState' \in [Executions -> States],
           execPromise' = [execPromise EXCEPT ![e] = First(@, end)],
           timers' = timers \ {e}, outstanding' \subseteq outstanding,
           UNCHANGED <<requests, started, payload>>,
           end # "failed" => \A r \in requests : promise'[r] # "pending"
    PROVE  Inv'
<1>1. execPromise' \in [Executions -> {"pending", "fulfilled"} \union Reasons]
  BY DEF Inv, TypeOK, First
<1>2. TypeOK'
  BY <1>1 DEF Inv, TypeOK, Settles
<1>3. NotStarted'
  BY DEF Inv, TypeOK, NotStarted
<1>4. SentIsKept'
  BY DEF Inv, SentIsKept
<1>5. NoneLeftOpen'
  <2> SUFFICES ASSUME NEW f \in Executions,
                      execPromise'[f] \in {"fulfilled", "timedOut", "invalid"},
                      NEW r \in payload[f]
               PROVE  promise'[r] # "pending"
    BY DEF NoneLeftOpen
  <2>1. r \in requests /\ r \in Reqs
    BY DEF Inv, TypeOK, SentIsKept
  <2>2. CASE execPromise'[f] = execPromise[f]
    BY <2>1, <2>2 DEF Inv, NoneLeftOpen, Settles
  <2>3. CASE f = e /\ execPromise[f] = "pending"
    <3>1. execPromise'[f] = end
      BY <2>3 DEF Inv, TypeOK, First
    <3>2. QED
      BY <2>1, <3>1
  <2>4. QED
    BY <2>2, <2>3 DEF Inv, TypeOK, First
<1>6. QED
  BY <1>2, <1>3, <1>4, <1>5 DEF Inv

LEMMA NextInv ==
    ASSUME NumericIds, "neither" \notin Kinds, Inv, [Next]_vars
    PROVE  Inv'
<1>1. ASSUME NEW r \in Reqs, Add(r)
      PROVE  Inv'
  BY <1>1 DEF Add, Inv, TypeOK, NotStarted, SentIsKept, NoneLeftOpen
<1>2. CASE Execute
  <2>1. started + 1 \in Executions /\ started' = started + 1
    BY <1>2, BatchAssumption DEF BatchAssumption, Execute, Executions, Inv, TypeOK
  <2>2. execPromise[started + 1] = "pending" /\ execPromise' = execPromise
    BY <1>2, <2>1 DEF Execute, Executions, Inv, TypeOK, NotStarted
  <2>3. /\ payload'[started + 1] = requests
        /\ \A e \in Executions \ {started + 1} : payload'[e] = payload[e]
    BY <1>2, <2>1 DEF Execute, Inv, TypeOK
  <2>4. TypeOK'
    BY <1>2, <2>1, BatchAssumption DEF BatchAssumption, Execute, Executions, Inv,
                                       TypeOK
  <2>5. NotStarted'
    BY <1>2, <2>1, <2>2 DEF Execute, Executions, Inv, TypeOK, NotStarted
  <2>6. SentIsKept'
    BY <1>2, <2>3 DEF Execute, Inv, SentIsKept
  <2>7. NoneLeftOpen'
    BY <1>2, <2>2, <2>3 DEF Execute, Inv, NoneLeftOpen
  <2>8. QED
    BY <2>4, <2>5, <2>6, <2>7 DEF Inv
<1>3. ASSUME NEW e \in Executions, Timeout(e)
      PROVE  Inv'
  <2>1. Settles /\ \A r \in requests : promise'[r] # "pending"
    BY <1>3, AbortSettles DEF Timeout, Inv
  <2>2. execState' \in [Executions -> States]
    BY <1>3 DEF Timeout, Reject, Inv, TypeOK, States
  <2>3. QED
    BY <1>3, <2>1, <2>2, EndInv DEF Timeout, Reject, Reasons
<1>4. ASSUME NEW e \in Executions, SendFails(e)
      PROVE  Inv'
  <2>1. Settles
    BY <1>4 DEF SendFails, Settles, Inv, TypeOK
  <2>2. execState' \in [Executions -> States]
    BY <1>4 DEF SendFails, Reject, Inv, TypeOK, States
  <2>3. QED
    BY <1>4, <2>1, <2>2, EndInv DEF SendFails, Reject, Reasons
<1>5. ASSUME NEW e \in Executions, NEW answer \in Answers, Answer(e, answer)
      PROVE  Inv'
  <2>1. CASE AnswerMismatch(e, answer)
    <3>1. Settles /\ \A r \in requests : promise'[r] # "pending"
      BY <2>1, AbortSettles DEF AnswerMismatch, Inv
    <3>2. execState' \in [Executions -> States]
      BY <2>1 DEF AnswerMismatch, Reject, Inv, TypeOK, States
    <3>3. QED
      BY <1>5, <2>1, <3>1, <3>2, EndInv DEF Answer, AnswerMismatch, Reject, Reasons
  <2>2. CASE AnswerTaken(e, answer)
    <3>1. Settles /\ \A r \in requests : promise'[r] # "pending"
      BY <2>2, AnswerSettles, AnswerReachesAll DEF AnswerTaken, Inv
    <3>2. execState' \in [Executions -> States]
      BY <2>2 DEF AnswerTaken, Fulfil, Inv, TypeOK, States
    <3>3. QED
      BY <1>5, <2>2, <3>1, <3>2, EndInv DEF Answer, AnswerTaken, Fulfil
  <2>3. QED
    BY <1>5, <2>1, <2>2 DEF Answer
<1>6. CASE UNCHANGED vars
  BY <1>6 DEF vars, Inv, TypeOK, NotStarted, SentIsKept, NoneLeftOpen
<1>7. QED
  BY <1>1, <1>2, <1>3, <1>4, <1>5, <1>6 DEF Next

(* With numeric ids and entries that are results or errors, an execution   *)
(* that was answered or timed out has settled every request it sent,       *)
(* whatever was added meanwhile and however late the answer came.          *)
THEOREM BatchSettles ==
    ASSUME NumericIds, "neither" \notin Kinds
    PROVE  Spec => []NoneLeftOpen
<1>1. Init => Inv
  BY InitInv
<1>2. Inv /\ [Next]_vars => Inv'
  BY NextInv
<1>3. Inv => NoneLeftOpen
  BY DEF Inv
<1>4. QED
  BY <1>1, <1>2, <1>3, PTL DEF Spec

---------------------------------------------------------------------------
(* The block a method is asked about: the tables                           *)

(* A table that was joined has all rows of both, if no name is in both.    *)
Part(f, g) == \A x \in DOMAIN f : x \in DOMAIN g /\ g[x] = f[x]
Apart(f, g) == \A x \in DOMAIN f : x \notin DOMAIN g
Rows(f) == {<<x, f[x]>> : x \in DOMAIN f}

LEMMA JoinedIs ==
    ASSUME NEW f, NEW g
    PROVE  /\ Part(f, Joined(f, g))
           /\ \A h : Apart(h, f) /\ Apart(h, g) => Apart(h, Joined(f, g))
           /\ Apart(f, g) => Part(g, Joined(f, g))
           /\ \A h : Part(h, g) /\ Apart(f, h) => Part(h, Joined(f, g))
           /\ Rows(Joined(f, g)) \subseteq Rows(f) \cup Rows(g)
<1>1. Rows(Joined(f, g)) \subseteq Rows(f) \cup Rows(g)
  BY DEF Joined, Rows
<1>2. QED
  BY <1>1 DEF Joined, Part, Apart

(* Seven tables, and no name twice.                                        *)
Disjoint(a, b, c, d, e, f, g) ==
    /\ Apart(f, g)
    /\ Apart(e, f) /\ Apart(e, g)
    /\ Apart(d, e) /\ Apart(d, f) /\ Apart(d, g)
    /\ Apart(c, d) /\ Apart(c, e) /\ Apart(c, f) /\ Apart(c, g)
    /\ Apart(b, c) /\ Apart(b, d) /\ Apart(b, e) /\ Apart(b, f) /\ Apart(b, g)
    /\ Apart(a, b) /\ Apart(a, c) /\ Apart(a, d) /\ Apart(a, e) /\ Apart(a, f) /\ Apart(a, g)

LEMMA SevenTables ==
    ASSUME NEW a, NEW b, NEW c, NEW d, NEW e, NEW f, NEW g, Disjoint(a, b, c, d, e, f, g)
    PROVE  LET all == Joined(a, Joined(b, Joined(c, Joined(d, Joined(e, Joined(f, g)))))) IN
           /\ Part(a, all) /\ Part(b, all) /\ Part(c, all) /\ Part(d, all)
           /\ Part(e, all) /\ Part(f, all) /\ Part(g, all)
<1> DEFINE two   == Joined(f, g)
           three == Joined(e, two)
           four  == Joined(d, three)
           five  == Joined(c, four)
           six   == Joined(b, five)
<1>1. Part(f, two) /\ Part(g, two)
  BY JoinedIs DEF Disjoint
<1> HIDE DEF two
<1>2. Part(e, three) /\ Part(f, three) /\ Part(g, three)
  BY <1>1, JoinedIs DEF Disjoint
<1> HIDE DEF three
<1>3. Part(d, four) /\ Part(e, four) /\ Part(f, four) /\ Part(g, four)
  BY <1>2, JoinedIs DEF Disjoint
<1> HIDE DEF four
<1>4. Part(c, five) /\ Part(d, five) /\ Part(e, five) /\ Part(f, five) /\ Part(g, five)
  BY <1>3, JoinedIs DEF Disjoint
<1> HIDE DEF five
<1>5. Part(b, six) /\ Part(c, six) /\ Part(d, six) /\ Part(e, six) /\ Part(f, six) /\ Part(g, six)
  BY <1>4, JoinedIs DEF Disjoint
<1> HIDE DEF six
<1>6. LET all == Joined(a, six) IN
      /\ Part(a, all) /\ Part(b, all) /\ Part(c, all) /\ Part(d, all)
      /\ Part(e, all) /\ Part(f, all) /\ Part(g, all)
  BY <1>5, JoinedIs DEF Disjoint
<1>7. QED
  BY <1>6 DEF six, five, four, three, two

LEMMA RpcTable ==
    /\ Part(rpcState, RpcMethods) /\ Part(rpcCounts, RpcMethods) /\ Part(rpcBlocks, RpcMethods)
    /\ Part(rpcFilters, RpcMethods) /\ Part(rpcOthers, RpcMethods) /\ Part(rpcNet, RpcMethods)
    /\ Part(rpcPersonal, RpcMethods)
<1>1. Apart(rpcNet, rpcPersonal)
  BY DEF Apart, rpcNet, rpcPersonal
<1>2. Apart(rpcOthers, rpcNet) /\ Apart(rpcOthers, rpcPersonal)
  BY DEF Apart, rpcOthers, rpcNet, rpcPersonal
<1>3. /\ Apart(rpcFilters, rpcOthers) /\ Apart(rpcFilters, rpcNet)
      /\ Apart(rpcFilters, rpcPersonal)
  BY DEF Apart, rpcFilters, rpcOthers, rpcNet, rpcPersonal
<1>4. /\ Apart(rpcBlocks, rpcFilters) /\ Apart(rpcBlocks, rpcOthers)
      /\ Apart(rpcBlocks, rpcNet) /\ Apart(rpcBlocks, rpcPersonal)
  BY DEF Apart, rpcBlocks, rpcFilters, rpcOthers, rpcNet, rpcPersonal
<1>5. /\ Apart(rpcCounts, rpcBlocks) /\ Apart(rpcCounts, rpcFilters)
      /\ Apart(rpcCounts, rpcOthers) /\ Apart(rpcCounts, rpcNet)
      /\ Apart(rpcCounts, rpcPersonal)
  BY DEF Apart, rpcCounts, rpcBlocks, rpcFilters, rpcOthers, rpcNet, rpcPersonal
<1>6. /\ Apart(rpcState, rpcCounts) /\ Apart(rpcState, rpcBlocks)
      /\ Apart(rpcState, rpcFilters) /\ Apart(rpcState, rpcOthers)
      /\ Apart(rpcState, rpcNet) /\ Apart(rpcState, rpcPersonal)
  BY DEF Apart, rpcState, rpcCounts, rpcBlocks, rpcFilters, rpcOthers, rpcNet, rpcPersonal
<1>7. Disjoint(rpcState, rpcCounts, rpcBlocks, rpcFilters,
               rpcOthers, rpcNet, rpcPersonal)
  BY <1>1, <1>2, <1>3, <1>4, <1>5, <1>6 DEF Disjoint
<1>8. QED
  BY <1>7, SevenTables DEF RpcMethods

LEMMA WrapperTable ==
    /\ Part(wrapState, Wrappers) /\ Part(wrapBlocks, Wrappers) /\ Part(wrapTransactions, Wrappers)
    /\ Part(wrapSigning, Wrappers) /\ Part(wrapOthers, Wrappers) /\ Part(wrapNet, Wrappers)
    /\ Part(wrapPersonal, Wrappers)
<1>1. Apart(wrapNet, wrapPersonal)
  BY DEF Apart, wrapNet, wrapPersonal
<1>2. Apart(wrapOthers, wrapNet) /\ Apart(wrapOthers, wrapPersonal)
  BY DEF Apart, wrapOthers, wrapNet, wrapPersonal
<1>3. /\ Apart(wrapSigning, wrapOthers) /\ Apart(wrapSigning, wrapNet)
      /\ Apart(wrapSigning, wrapPersonal)
  BY DEF Apart, wrapSigning, wrapOthers, wrapNet, wrapPersonal
<1>4. /\ Apart(wrapTransactions, wrapSigning) /\ Apart(wrapTransactions, wrapOthers)
      /\ Apart(wrapTransactions, wrapNet) /\ Apart(wrapTransactions, wrapPersonal)
  BY DEF Apart, wrapTransactions, wrapSigning, wrapOthers, wrapNet, wrapPersonal
<1>5. /\ Apart(wrapBlocks, wrapTransactions) /\ Apart(wrapBlocks, wrapSigning)
      /\ Apart(wrapBlocks, wrapOthers) /\ Apart(wrapBlocks, wrapNet)
      /\ Apart(wrapBlocks, wrapPersonal)
  BY DEF Apart, wrapBlocks, wrapTransactions, wrapSigning, wrapOthers, wrapNet, wrapPersonal
<1>6. /\ Apart(wrapState, wrapBlocks) /\ Apart(wrapState, wrapTransactions)
      /\ Apart(wrapState, wrapSigning) /\ Apart(wrapState, wrapOthers)
      /\ Apart(wrapState, wrapNet) /\ Apart(wrapState, wrapPersonal)
  BY DEF Apart, wrapState, wrapBlocks, wrapTransactions, wrapSigning, wrapOthers, wrapNet, wrapPersonal
<1>7. Disjoint(wrapState, wrapBlocks, wrapTransactions, wrapSigning,
               wrapOthers, wrapNet, wrapPersonal)
  BY <1>1, <1>2, <1>3, <1>4, <1>5, <1>6 DEF Disjoint
<1>8. QED
  BY <1>7, SevenTables DEF Wrappers

---------------------------------------------------------------------------
(* What a layer makes of an argument is valid in the layer underneath      *)

GoodBlocks == NumbersAndTags \cup {Latest}

(* What a wrapper validates, how it formats, and what is validated then.   *)
Match(outer, form, inner) ==
    \/ /\ outer = "any" /\ form = "asIs"
       /\ inner \in {"address", "bool", "any", "numbers", "bytes8", "bytes32"}
    \/ outer = "any" /\ form = "block" /\ inner = "blockNumberOrTag"
    \/ outer = "any" /\ form \in {"uint", "bytes"} /\ inner = "hex"
    \/ outer = "any" /\ form = "bytes32" /\ inner = "bytes32"
    \/ outer = "any" /\ form = "transaction" /\ inner = "any"
    \/ outer = "any" /\ form = "filter" /\ inner = "filter"
    \/ outer = "any" /\ form = "eachBytes" /\ inner = "hashes"
    \/ /\ outer \in {"string", "address", "uint"} /\ form \in {"asIs", "utf8ToHex"}
       /\ inner = "any"
Wanted(outer, inner) == IF outer # "any" THEN outer ELSE inner

LEMMA BlocksAre ==
    ASSUME NEW v \in Blocks \cup {Latest}
    PROVE  \/ v.type \in {"number", "tag"} /\ v.digits = 0
           \/ v.type = "hex" /\ v.digits \in 1 .. HashDigits
           \/ v.type = "bytes" /\ v.digits = HashDigits
<1>1. CASE v \in Blocks
  BY <1>1, BlocksAssumption
<1>2. CASE v = Latest
  BY <1>2 DEF Latest, Arg
<1>3. QED
  BY <1>1, <1>2

LEMMA BlockByNumber ==
    ASSUME NEW v \in Blocks \cup {Latest}, v \in GoodBlocks \/ ~ IsBytes(v)
    PROVE  LET p == InFormat("block", v) IN
           /\ Valid("blockNumberOrTag", p) /\ Valid("any", v)
           /\ (IF p.type = "tag" THEN <<"tag", p.value>> ELSE <<"number", p.value>>) = BlockMeant(v)
<1>1. v.type \in {"number", "hex", "tag"} /\ v.digits # HashDigits
  BY BlocksAre DEF GoodBlocks, NumbersAndTags, BlockMeant, Latest, Arg, IsBytes, HashDigits
<1>2. BlockMeant(v) = IF v.type = "tag" THEN <<"tag", v.value>> ELSE <<"number", v.value>>
  BY <1>1 DEF BlockMeant
<1>3. CASE v.type = "tag"
  BY <1>2, <1>3 DEF InFormat, Valid
<1>4. CASE v.type \in {"number", "hex"}
  <2>1. InFormat("block", v) = Hex(v.value, v.digits)
    BY <1>4 DEF InFormat
  <2>2. InFormat("block", v).type = "hex" /\ InFormat("block", v).value = v.value
    BY <2>1 DEF Hex, Arg
  <2>3. QED
    BY <1>2, <1>4, <2>2 DEF Valid
<1>5. QED
  BY <1>1, <1>3, <1>4

LEMMA BlockByHash ==
    ASSUME NEW v \in Blocks \cup {Latest}, IsBytes(v)
    PROVE  LET p == InFormat("bytes32", v) IN
           /\ Valid("bytes32", p) /\ Valid("any", v)
           /\ <<"hash", p.value>> = BlockMeant(v) \/ TakenForBytes(v)
<1>1. \/ v.type = "hex" /\ v.digits \in 1 .. HashDigits /\ v.digits % 2 = 0
      \/ v.type = "bytes" /\ v.digits = HashDigits
  BY BlocksAre DEF IsBytes
<1>2. InFormat("bytes32", v) = Arg("hex", HashDigits, v.value)
  BY <1>1 DEF InFormat, HashDigits
<1>3. Valid("bytes32", InFormat("bytes32", v)) /\ Valid("any", v)
  BY <1>2 DEF Valid, IsBytes, Arg, HashDigits
<1>4. BlockMeant(v) = <<"hash", v.value>> \/ TakenForBytes(v)
  BY <1>1 DEF BlockMeant, TakenForBytes
<1>5. QED
  BY <1>2, <1>3, <1>4 DEF Arg

(* The arguments of each type, and what they are valid as.                 *)
LEMMA SuitableNumbers ==
    ASSUME NEW kind
    PROVE  /\ Suitable(kind, "uint") = {Arg("number", 0, 2), Arg("hex", 1, 2)}
           /\ Suitable(kind, "bytes") = {Arg("hex", 4, 3), Arg("bytes", 4, 3)}
BY DEF Suitable

LEMMA SuitableIs ==
    ASSUME NEW form \in {"asIs", "utf8ToHex"}
    PROVE  /\ Suitable("address", form) = {Arg("hex", 40, 1)}
           /\ Suitable("string", form)  = {Arg("text", 0, 0)}
           /\ Suitable("uint", form)    = {Arg("number", 0, 2)}
           /\ Suitable("bytes8", form)  = {Arg("hex", 16, 4)}
           /\ Suitable("bytes32", form) = {Arg("hex", HashDigits, 7)}
<1>1. Suitable("address", form) = {Arg("hex", 40, 1)}
  BY DEF Suitable, Address
<1>2. Suitable("string", form) = {Arg("text", 0, 0)}
  BY DEF Suitable
<1>3. Suitable("uint", form) = {Arg("number", 0, 2)}
  BY DEF Suitable
<1>4. Suitable("bytes8", form) = {Arg("hex", 16, 4)}
  BY DEF Suitable
<1>5. Suitable("bytes32", form) = {Arg("hex", HashDigits, 7)}
  BY DEF Suitable, SomeHash
<1>6. QED
  BY <1>1, <1>2, <1>3, <1>4, <1>5

LEMMA ValidIs ==
    ASSUME NEW v
    PROVE  /\ Valid("any", v)
           /\ Valid("hex", v) <=> v.type = "hex"
           /\ Valid("address", v) <=> v.type = "hex" /\ v.digits = 40
           /\ Valid("bytes32", v) <=> IsBytes(v) /\ v.digits = HashDigits
           /\ Valid("bytes8", v) <=> IsBytes(v) /\ v.digits = 16
           /\ Valid("uint", v) <=> v.type \in {"number", "hex"}
           /\ Valid("string", v) <=> v.type \in {"text", "hex", "tag"}
           /\ \A kind \in {"bool", "numbers", "filter", "hashes"} : Valid(kind, v) <=> v.type = kind
<1>1. Valid("any", v)
  BY DEF Valid
<1>2. Valid("hex", v) <=> v.type = "hex"
  BY DEF Valid
<1>3. Valid("address", v) <=> v.type = "hex" /\ v.digits = 40
  BY DEF Valid
<1>4. Valid("bytes32", v) <=> IsBytes(v) /\ v.digits = HashDigits
  BY DEF Valid
<1>5. Valid("bytes8", v) <=> IsBytes(v) /\ v.digits = 16
  BY DEF Valid
<1>6. Valid("uint", v) <=> v.type \in {"number", "hex"}
  BY DEF Valid
<1>7. Valid("string", v) <=> v.type \in {"text", "hex", "tag"}
  BY DEF Valid
<1>8. \A kind \in {"bool", "numbers", "filter", "hashes"} : Valid(kind, v) <=> v.type = kind
  BY DEF Valid
<1>9. QED
  BY <1>1, <1>2, <1>3, <1>4, <1>5, <1>6, <1>7, <1>8

LEMMA RoutedIs ==
    ASSUME NEW form, NEW v, form # "blockOrHash"
    PROVE  Routed(form, v) = InFormat(form, v)
BY DEF Routed

LEMMA Matched ==
    ASSUME NEW outer, NEW form, NEW inner, Match(outer, form, inner), NEW v,
           v \in Suitable(Wanted(outer, inner), form) \/ (form = "block" /\ v \in GoodBlocks)
    PROVE  Valid(outer, v) /\ Valid(inner, Routed(form, v))
<1>1. CASE outer = "any" /\ form = "asIs"
  <2>1. inner \in {"address", "bool", "any", "numbers", "bytes8", "bytes32"}
    BY <1>1 DEF Match
  <2>2. Routed(form, v) = v /\ v \in Suitable(inner, "asIs")
    BY <1>1 DEF Routed, InFormat, Wanted
  <2>3. CASE inner \in {"address", "bytes8", "bytes32"}
    <3>1. CASE inner = "address"
      <4>1. v = Arg("hex", 40, 1)
        BY <2>2, <3>1, SuitableIs
      <4>2. v.type = "hex" /\ v.digits = 40
        BY <4>1 DEF Arg
      <4>3. QED
        BY <1>1, <2>2, <3>1, <4>2, ValidIs
    <3>2. CASE inner = "bytes8"
      <4>1. v = Arg("hex", 16, 4)
        BY <2>2, <3>2, SuitableIs
      <4>2. IsBytes(v) /\ v.digits = 16
        BY <4>1 DEF Arg, IsBytes
      <4>3. QED
        BY <1>1, <2>2, <3>2, <4>2, ValidIs
    <3>3. CASE inner = "bytes32"
      <4>1. v = Arg("hex", HashDigits, 7)
        BY <2>2, <3>3, SuitableIs
      <4>2. IsBytes(v) /\ v.digits = HashDigits
        BY <4>1 DEF Arg, IsBytes, HashDigits
      <4>3. QED
        BY <1>1, <2>2, <3>3, <4>2, ValidIs
    <3>4. QED
      BY <2>3, <3>1, <3>2, <3>3
  <2>4. CASE inner \in {"bool", "any", "numbers"}
    <3>1. v = Arg(inner, 0, 0)
      BY <2>2, <2>4 DEF Suitable
    <3>2. QED
      BY <1>1, <2>2, <2>4, <3>1, ValidIs DEF Arg
  <2>5. QED
    BY <2>1, <2>3, <2>4
<1>2. CASE form = "block"
  <2>1. outer = "any" /\ inner = "blockNumberOrTag" /\ v \in GoodBlocks
    BY <1>2 DEF Match, Suitable, GoodBlocks
  <2>2. v \in Blocks \cup {Latest}
    BY <2>1 DEF GoodBlocks, NumbersAndTags
  <2>3. QED
    BY <1>2, <2>1, <2>2, BlockByNumber DEF Routed
<1>3. CASE outer = "any" /\ form \in {"uint", "bytes"}
  <2>1. inner = "hex" /\ v \in Suitable("hex", form)
    BY <1>3 DEF Match, Wanted
  <2>2. InFormat(form, v).type = "hex"
    <3>1. CASE form = "uint"
      BY <2>1, <3>1, SuitableNumbers DEF InFormat, Arg, Hex
    <3>2. CASE form = "bytes"
      BY <2>1, <3>2, SuitableNumbers DEF InFormat, Arg, IsBytes
    <3>3. QED
      BY <1>3, <3>1, <3>2
  <2>3. QED
    BY <1>3, <2>1, <2>2, ValidIs, RoutedIs
<1>4. CASE outer = "any" /\ form = "bytes32"
  <2>1. inner = "bytes32" /\ v \in {SomeHash, Arg("bytes", HashDigits, 7)}
    BY <1>4 DEF Match, Suitable
  <2>2. InFormat(form, v) = Arg("hex", HashDigits, 7)
    BY <1>4, <2>1 DEF InFormat, Arg, SomeHash, HashDigits
  <2>3. QED
    BY <1>4, <2>1, <2>2 DEF Routed, Valid, IsBytes, Arg, HashDigits
<1>5. CASE outer = "any" /\ form \in {"transaction", "filter", "eachBytes"}
  <2>1. inner \in {"any", "filter", "hashes"} /\ v = Arg(inner, 0, 0)
    BY <1>5 DEF Match, Suitable, Wanted
  <2>2. Routed(form, v) = v
    BY <1>5 DEF Routed, InFormat
  <2>3. QED
    BY <1>5, <2>1, <2>2, ValidIs DEF Arg
<1>6. CASE outer # "any"
  <2>1. outer \in {"string", "address", "uint"} /\ form \in {"asIs", "utf8ToHex"} /\ inner = "any"
    BY <1>6 DEF Match
  <2>2. v \in Suitable(outer, form)
    BY <1>6, <2>1 DEF Wanted
  <2>3. CASE outer = "string"
    <3>1. v = Arg("text", 0, 0)
      BY <2>1, <2>2, <2>3, SuitableIs
    <3>2. QED
      BY <2>1, <2>3, <3>1, ValidIs DEF Arg
  <2>4. CASE outer = "address"
    <3>1. v = Arg("hex", 40, 1)
      BY <2>1, <2>2, <2>4, SuitableIs
    <3>2. QED
      BY <2>1, <2>4, <3>1, ValidIs DEF Arg
  <2>5. CASE outer = "uint"
    <3>1. v = Arg("number", 0, 2)
      BY <2>1, <2>2, <2>5, SuitableIs
    <3>2. QED
      BY <2>1, <2>5, <3>1, ValidIs DEF Arg
  <2>6. QED
    BY <2>1, <2>3, <2>4, <2>5
<1>7. QED
  BY <1>1, <1>2, <1>3, <1>4, <1>5, <1>6 DEF Match
---------------------------------------------------------------------------
(* The rows: each layer fits the next                                      *)

(* A method that only calls web3-rpc-methods.                              *)
AsIs(kind) == Match("any", "asIs", kind)
IsDirect(m) ==
    LET r == RpcMethods[m.rpc] IN
    /\ "rpc" \in DOMAIN m /\ m.block = 0 /\ 0 \notin DOMAIN r.kinds
    /\ \A i \in DOMAIN r.kinds : AsIs(r.kinds[i])

(* A wrapper of one function, which may have a block among its arguments.  *)
IsStraight(m) ==
    LET w == Wrappers[m.wrapper]
        r == RpcMethods[w.calls[1]]
    IN
    /\ "rpc" \notin DOMAIN m /\ m.wrapper # "sign"
    /\ Len(w.calls) = 1
    /\ DOMAIN w.kinds = DOMAIN w.forms /\ DOMAIN r.kinds = DOMAIN w.forms
    /\ \A i \in DOMAIN w.forms : Match(w.kinds[i], w.forms[i], r.kinds[i])
    /\ m.block \in DOMAIN w.forms =>
          /\ w.forms[m.block] = "block"
          /\ r.method \in DOMAIN BlockNumberIn \ DOMAIN BlockHashIn
          /\ BlockNumberIn[r.method] = m.block

Forks(form, byHash, byNumber) ==
    form = "blockOrHash" /\ byHash = "bytes32" /\ byNumber = "blockNumberOrTag"
Plainly(form, inner) == Match("any", form, inner)

(* By hash or by number, of the block that is the first parameter.         *)
AsksOneOf(byHash, byNumber) ==
    /\ byHash \in DOMAIN BlockHashIn /\ BlockHashIn[byHash] = 1
    /\ byNumber \in DOMAIN BlockNumberIn \ DOMAIN BlockHashIn /\ BlockNumberIn[byNumber] = 1

(* A wrapper that chooses by the form of the block, its first argument.    *)
IsFork(m) ==
    LET w == Wrappers[m.wrapper]
        h == RpcMethods[w.calls[1]]
        n == RpcMethods[w.calls[2]]
    IN
    /\ "rpc" \notin DOMAIN m /\ m.wrapper # "sign"
    /\ m.block = 1 /\ Len(w.calls) = 2
    /\ DOMAIN w.forms = DOMAIN w.kinds /\ DOMAIN h.kinds = DOMAIN w.forms
    /\ DOMAIN n.kinds = DOMAIN w.forms /\ 1 \in DOMAIN w.forms
    /\ \A i \in DOMAIN w.forms : w.kinds[i] = "any"
    /\ Forks(w.forms[1], h.kinds[1], n.kinds[1])
    /\ \A i \in DOMAIN w.forms \ {1} :
          h.kinds[i] = n.kinds[i] /\ Plainly(w.forms[i], n.kinds[i])
    /\ AsksOneOf(h.method, n.method)

(* The block is where the interface has it.                                *)
AsksOf(method, block, forms) ==
    block \in DOMAIN forms =>
        /\ forms[block] = "block"
        /\ method \in DOMAIN BlockNumberIn \ DOMAIN BlockHashIn
        /\ BlockNumberIn[method] = block

LEMMA StraightIs ==
    ASSUME NEW wrapper, wrapper # "sign", NEW block, NEW calls, calls = <<calls[1]>>,
           NEW kinds, NEW forms, NEW schema, NEW method, NEW inner,
           Wrappers[wrapper] = [calls |-> calls, kinds |-> kinds, forms |-> forms, schema |-> schema],
           RpcMethods[calls[1]] = R(method, inner),
           DOMAIN kinds = DOMAIN forms, DOMAIN inner = DOMAIN forms,
           \A i \in DOMAIN forms : Match(kinds[i], forms[i], inner[i]),
           AsksOf(method, block, forms)
    PROVE  IsStraight(Wraps(wrapper, block))
<1>1. Len(calls) = 1
  OBVIOUS
<1>2. QED
  BY <1>1 DEF IsStraight, Wraps, R, AsksOf

(* ... for none, one, two and three arguments.                             *)
LEMMA Straight0 ==
    ASSUME NEW wrapper, wrapper # "sign", NEW call_, NEW schema, NEW method,
           Wrappers[wrapper] \in {P(call_, <<>>, <<>>, schema), W(<<call_>>, <<>>, schema)},
           RpcMethods[call_] = R(method, <<>>)
    PROVE  IsStraight(Wraps(wrapper, 0))
<1> DEFINE calls == <<call_>>
           none  == <<>>
<1>1. Wrappers[wrapper] = [calls |-> calls, kinds |-> none, forms |-> none, schema |-> schema]
  BY DEF P, W
<1>2. calls[1] = call_ /\ calls = <<calls[1]>>
  OBVIOUS
<1>3. DOMAIN none = {}
  OBVIOUS
<1> HIDE DEF none, calls
<1>4. AsksOf(method, 0, none)
  BY <1>3 DEF AsksOf
<1>5. RpcMethods[calls[1]] = R(method, none)
  BY <1>2 DEF none
<1>6. QED
  BY <1>1, <1>2, <1>3, <1>4, <1>5, StraightIs

LEMMA Straight1 ==
    ASSUME NEW wrapper, wrapper # "sign", NEW block, NEW call_, NEW schema, NEW method,
           NEW k1, NEW a1, NEW x1,
           Wrappers[wrapper] = P(call_, <<k1>>, <<a1>>, schema),
           RpcMethods[call_] = R(method, <<x1>>),
           Match(k1, a1, x1),
           AsksOf(method, block, <<a1>>)
    PROVE  IsStraight(Wraps(wrapper, block))
<1> DEFINE calls == <<call_>>
           kinds == <<k1>>
           forms == <<a1>>
           inner == <<x1>>
<1>1. Wrappers[wrapper] = [calls |-> calls, kinds |-> kinds, forms |-> forms, schema |-> schema]
  BY DEF P
<1>2. calls[1] = call_ /\ calls = <<calls[1]>>
  OBVIOUS
<1>3. /\ DOMAIN kinds = DOMAIN forms /\ DOMAIN inner = DOMAIN forms
      /\ \A i \in DOMAIN forms : Match(kinds[i], forms[i], inner[i])
  OBVIOUS
<1>4. RpcMethods[calls[1]] = R(method, inner) /\ AsksOf(method, block, forms)
  BY <1>2
<1> HIDE DEF calls, kinds, forms, inner
<1>5. QED
  BY <1>1, <1>2, <1>3, <1>4, StraightIs

LEMMA Straight2 ==
    ASSUME NEW wrapper, wrapper # "sign", NEW block, NEW call_, NEW schema, NEW method,
           NEW k1, NEW k2, NEW a1, NEW a2, NEW x1, NEW x2,
           Wrappers[wrapper] = P(call_, <<k1, k2>>, <<a1, a2>>, schema),
           RpcMethods[call_] = R(method, <<x1, x2>>),
           Match(k1, a1, x1), Match(k2, a2, x2),
           AsksOf(method, block, <<a1, a2>>)
    PROVE  IsStraight(Wraps(wrapper, block))
<1> DEFINE calls == <<call_>>
           kinds == <<k1, k2>>
           forms == <<a1, a2>>
           inner == <<x1, x2>>
<1>1. Wrappers[wrapper] = [calls |-> calls, kinds |-> kinds, forms |-> forms, schema |-> schema]
  BY DEF P
<1>2. calls[1] = call_ /\ calls = <<calls[1]>>
  OBVIOUS
<1>3. /\ DOMAIN kinds = DOMAIN forms /\ DOMAIN inner = DOMAIN forms
      /\ \A i \in DOMAIN forms : Match(kinds[i], forms[i], inner[i])
  OBVIOUS
<1>4. RpcMethods[calls[1]] = R(method, inner) /\ AsksOf(method, block, forms)
  BY <1>2
<1> HIDE DEF calls, kinds, forms, inner
<1>5. QED
  BY <1>1, <1>2, <1>3, <1>4, StraightIs

LEMMA Straight3 ==
    ASSUME NEW wrapper, wrapper # "sign", NEW block, NEW call_, NEW schema, NEW method,
           NEW k1, NEW k2, NEW k3, NEW a1, NEW a2, NEW a3, NEW x1, NEW x2, NEW x3,
           Wrappers[wrapper] = P(call_, <<k1, k2, k3>>, <<a1, a2, a3>>, schema),
           RpcMethods[call_] = R(method, <<x1, x2, x3>>),
           Match(k1, a1, x1), Match(k2, a2, x2), Match(k3, a3, x3),
           AsksOf(method, block, <<a1, a2, a3>>)
    PROVE  IsStraight(Wraps(wrapper, block))
<1> DEFINE calls == <<call_>>
           kinds == <<k1, k2, k3>>
           forms == <<a1, a2, a3>>
           inner == <<x1, x2, x3>>
<1>1. Wrappers[wrapper] = [calls |-> calls, kinds |-> kinds, forms |-> forms, schema |-> schema]
  BY DEF P
<1>2. calls[1] = call_ /\ calls = <<calls[1]>>
  OBVIOUS
<1>3. /\ DOMAIN kinds = DOMAIN forms /\ DOMAIN inner = DOMAIN forms
      /\ \A i \in DOMAIN forms : Match(kinds[i], forms[i], inner[i])
  OBVIOUS
<1>4. RpcMethods[calls[1]] = R(method, inner) /\ AsksOf(method, block, forms)
  BY <1>2
<1> HIDE DEF calls, kinds, forms, inner
<1>5. QED
  BY <1>1, <1>2, <1>3, <1>4, StraightIs

(* Wrappers that validate nothing.                                         *)
LEMMA PlainIs ==
    ASSUME NEW call_, NEW schema, NEW a, NEW b, NEW c
    PROVE  /\ W(<<call_>>, <<a>>, schema) = P(call_, <<"any">>, <<a>>, schema)
           /\ W(<<call_>>, <<a, b>>, schema) = P(call_, <<"any", "any">>, <<a, b>>, schema)
           /\ W(<<call_>>, <<a, b, c>>, schema)
                = P(call_, <<"any", "any", "any">>, <<a, b, c>>, schema)
BY DEF W, P

LEMMA Plain1 ==
    ASSUME NEW wrapper, wrapper # "sign", NEW block, NEW call_, NEW schema, NEW method,
           NEW a1, NEW x1,
           Wrappers[wrapper] = W(<<call_>>, <<a1>>, schema),
           RpcMethods[call_] = R(method, <<x1>>),
           Match("any", a1, x1),
           AsksOf(method, block, <<a1>>)
    PROVE  IsStraight(Wraps(wrapper, block))
<1>1. Wrappers[wrapper] = P(call_, <<"any">>, <<a1>>, schema)
  BY PlainIs
<1>2. QED
  BY <1>1, Straight1

LEMMA Plain2 ==
    ASSUME NEW wrapper, wrapper # "sign", NEW block, NEW call_, NEW schema, NEW method,
           NEW a1, NEW a2, NEW x1, NEW x2,
           Wrappers[wrapper] = W(<<call_>>, <<a1, a2>>, schema),
           RpcMethods[call_] = R(method, <<x1, x2>>),
           Match("any", a1, x1), Match("any", a2, x2),
           AsksOf(method, block, <<a1, a2>>)
    PROVE  IsStraight(Wraps(wrapper, block))
<1>1. Wrappers[wrapper] = P(call_, <<"any", "any">>, <<a1, a2>>, schema)
  BY PlainIs
<1>2. QED
  BY <1>1, Straight2

LEMMA Plain3 ==
    ASSUME NEW wrapper, wrapper # "sign", NEW block, NEW call_, NEW schema, NEW method,
           NEW a1, NEW a2, NEW a3, NEW x1, NEW x2, NEW x3,
           Wrappers[wrapper] = W(<<call_>>, <<a1, a2, a3>>, schema),
           RpcMethods[call_] = R(method, <<x1, x2, x3>>),
           Match("any", a1, x1), Match("any", a2, x2), Match("any", a3, x3),
           AsksOf(method, block, <<a1, a2, a3>>)
    PROVE  IsStraight(Wraps(wrapper, block))
<1>1. Wrappers[wrapper] = P(call_, <<"any", "any", "any">>, <<a1, a2, a3>>, schema)
  BY PlainIs
<1>2. QED
  BY <1>1, Straight3

LEMMA AsksNothing ==
    ASSUME NEW method, NEW a, NEW b, NEW c
    PROVE  AsksOf(method, 0, <<a>>) /\ AsksOf(method, 0, <<a, b>>) /\ AsksOf(method, 0, <<a, b, c>>)
BY DEF AsksOf

(* The rows of web3.eth, table by table.                                   *)
Fits(m) == IsDirect(m) \/ IsStraight(m) \/ IsFork(m)
Fit(table) == \A x \in DOMAIN table : Fits(table[x])

LEMMA StateRows == Fit(ethState) /\ Fit(ethCount)
<1>1. /\ Wrappers["getBalance"] = W(<<"getBalance">>, <<"asIs", "block">>, "uint")
      /\ Wrappers["getStorageAt"] = W(<<"getStorageAt">>, <<"asIs", "uint", "block">>, "bytes")
      /\ Wrappers["getCode"] = W(<<"getCode">>, <<"asIs", "block">>, "bytes")
      /\ Wrappers["getTransactionCount"]
           = W(<<"getTransactionCount">>, <<"asIs", "block">>, "uint")
  BY WrapperTable DEF Part, wrapState, wrapTransactions
<1>2. /\ RpcMethods["getBalance"] = R("eth_getBalance", <<"address", "blockNumberOrTag">>)
      /\ RpcMethods["getStorageAt"]
           = R("eth_getStorageAt", <<"address", "hex", "blockNumberOrTag">>)
      /\ RpcMethods["getCode"] = R("eth_getCode", <<"address", "blockNumberOrTag">>)
      /\ RpcMethods["getTransactionCount"]
           = R("eth_getTransactionCount", <<"address", "blockNumberOrTag">>)
  BY RpcTable DEF Part, rpcState, rpcCounts
<1>3. /\ AsksOf("eth_getBalance", 2, <<"asIs", "block">>)
      /\ AsksOf("eth_getStorageAt", 3, <<"asIs", "uint", "block">>)
      /\ AsksOf("eth_getCode", 2, <<"asIs", "block">>)
      /\ AsksOf("eth_getTransactionCount", 2, <<"asIs", "block">>)
  BY DEF AsksOf, BlockNumberIn, BlockHashIn
<1>4. /\ Match("any", "asIs", "address") /\ Match("any", "uint", "hex")
      /\ Match("any", "block", "blockNumberOrTag")
  BY DEF Match
<1>5. IsStraight(Wraps("getBalance", 2)) /\ IsStraight(Wraps("getCode", 2))
  BY <1>1, <1>2, <1>3, <1>4, Plain2
<1>6. IsStraight(Wraps("getTransactionCount", 2)) /\ IsStraight(Wraps("getStorageAt", 3))
  BY <1>1, <1>2, <1>3, <1>4, Plain2, Plain3
<1>7. QED
  BY <1>5, <1>6 DEF Fit, Fits, ethState, ethCount

(* The node itself, and the methods that only call web3-rpc-methods.       *)
LEMMA Direct0 ==
    ASSUME NEW rpc, NEW method, RpcMethods[rpc] = R(method, <<>>)
    PROVE  IsDirect(Direct(rpc))
BY DEF IsDirect, Direct, R

LEMMA Direct3 ==
    ASSUME NEW rpc, NEW method, NEW x1, NEW x2, NEW x3, RpcMethods[rpc] = R(method, <<x1, x2, x3>>),
           AsIs(x1), AsIs(x2), AsIs(x3)
    PROVE  IsDirect(Direct(rpc))
BY DEF IsDirect, Direct, R

LEMMA NodeRows == Fit(ethNode) /\ Fit(ethChain)
<1>1. /\ Wrappers["getHashRate"] = W(<<"getHashRate">>, <<>>, "uint")
      /\ Wrappers["getGasPrice"] = W(<<"getGasPrice">>, <<>>, "uint")
      /\ Wrappers["getBlockNumber"] = W(<<"getBlockNumber">>, <<>>, "uint")
      /\ Wrappers["getChainId"] = W(<<"getChainId">>, <<>>, "uint")
  BY WrapperTable DEF Part, wrapState, wrapOthers
<1>2. /\ RpcMethods["getHashRate"] = R("eth_hashrate", <<>>)
      /\ RpcMethods["getGasPrice"] = R("eth_gasPrice", <<>>)
      /\ RpcMethods["getBlockNumber"] = R("eth_blockNumber", <<>>)
      /\ RpcMethods["getChainId"] = R("eth_chainId", <<>>)
      /\ RpcMethods["getProtocolVersion"] = R("eth_protocolVersion", <<>>)
      /\ RpcMethods["getSyncing"] = R("eth_syncing", <<>>)
      /\ RpcMethods["getCoinbase"] = R("eth_coinbase", <<>>)
      /\ RpcMethods["getMining"] = R("eth_mining", <<>>)
      /\ RpcMethods["getAccounts"] = R("eth_accounts", <<>>)
      /\ RpcMethods["getNodeInfo"] = R("web3_clientVersion", <<>>)
  BY RpcTable DEF Part, rpcState, rpcOthers
<1>3. /\ IsStraight(Wraps("getHashRate", 0))
      /\ IsStraight(Wraps("getGasPrice", 0))
  BY <1>1, <1>2, Straight0
<1>4. /\ IsStraight(Wraps("getBlockNumber", 0))
      /\ IsStraight(Wraps("getChainId", 0))
  BY <1>1, <1>2, Straight0
<1>5. /\ IsDirect(Direct("getProtocolVersion"))
      /\ IsDirect(Direct("getSyncing"))
      /\ IsDirect(Direct("getCoinbase"))
  BY <1>2, Direct0
<1>6. /\ IsDirect(Direct("getMining"))
      /\ IsDirect(Direct("getAccounts"))
      /\ IsDirect(Direct("getNodeInfo"))
  BY <1>2, Direct0
<1>7. QED
  BY <1>3, <1>4, <1>5, <1>6 DEF Fit, Fits, ethNode, ethChain

LEMMA TransactionRows == Fit(ethTransactions)
<1>1. /\ Wrappers["getTransaction"] = W(<<"getTransactionByHash">>, <<"bytes32">>, "transaction")
      /\ Wrappers["getTransactionReceipt"] = W(<<"getTransactionReceipt">>, <<"bytes32">>, "receipt")
  BY WrapperTable DEF Part, wrapTransactions
<1>2. /\ RpcMethods["getTransactionByHash"] = R("eth_getTransactionByHash", <<"bytes32">>)
      /\ RpcMethods["getTransactionReceipt"] = R("eth_getTransactionReceipt", <<"bytes32">>)
  BY RpcTable DEF Part, rpcBlocks
<1>3. Match("any", "bytes32", "bytes32")
  BY DEF Match
<1>4. /\ IsStraight(Wraps("getTransaction", 0))
      /\ IsStraight(Wraps("getTransactionReceipt", 0))
  BY <1>1, <1>2, <1>3, Plain1, AsksNothing
<1>5. QED
  BY <1>4 DEF Fit, Fits, ethTransactions

LEMMA WorkRows == Fit(ethWork)
<1>1. Wrappers["getLogs"] = W(<<"getLogs">>, <<"filter">>, "logs")
  BY WrapperTable DEF Part, wrapOthers
<1>2. /\ RpcMethods["getLogs"] = R("eth_getLogs", <<"filter">>)
      /\ RpcMethods["getWork"] = R("eth_getWork", <<>>)
      /\ RpcMethods["submitWork"] = R("eth_submitWork", <<"bytes8", "bytes32", "bytes32">>)
      /\ RpcMethods["requestAccounts"] = R("eth_requestAccounts", <<>>)
  BY RpcTable DEF Part, rpcFilters, rpcOthers
<1>3. AsIs("bytes32") /\ AsIs("bytes8") /\ Match("any", "filter", "filter")
  BY DEF Match, AsIs
<1>4. IsStraight(Wraps("getLogs", 0))
  BY <1>1, <1>2, <1>3, Plain1, AsksNothing
<1>5. /\ IsDirect(Direct("getWork"))
      /\ IsDirect(Direct("submitWork"))
      /\ IsDirect(Direct("requestAccounts"))
  BY <1>2, <1>3, Direct0, Direct3
<1>6. QED
  BY <1>4, <1>5 DEF Fit, Fits, ethWork

LEMMA ProofRows == Fit(ethProof) /\ Fit(ethFees) /\ Fit(ethAccess)
<1>1. /\ Wrappers["getProof"] = W(<<"getProof">>, <<"asIs", "eachBytes", "block">>, "account")
      /\ Wrappers["getFeeHistory"] = W(<<"getFeeHistory">>, <<"uint", "block", "asIs">>, "feeHistory")
      /\ Wrappers["createAccessList"] = W(<<"createAccessList">>, <<"transaction", "block">>, "accessList")
      /\ Wrappers["signTypedData"] = W(<<"signTypedData">>, <<"asIs", "asIs">>, "bytes")
  BY WrapperTable DEF Part, wrapOthers
<1>2. /\ RpcMethods["getProof"] = R("eth_getProof", <<"address", "hashes", "blockNumberOrTag">>)
      /\ RpcMethods["getFeeHistory"] = R("eth_feeHistory", <<"hex", "blockNumberOrTag", "numbers">>)
      /\ RpcMethods["createAccessList"] = R("eth_createAccessList", <<"any", "blockNumberOrTag">>)
      /\ RpcMethods["signTypedData"] = R("eth_signTypedData_v4", <<"address", "any">>)
  BY RpcTable DEF Part, rpcOthers
<1>3. /\ AsksOf("eth_getProof", 3, <<"asIs", "eachBytes", "block">>)
      /\ AsksOf("eth_feeHistory", 2, <<"uint", "block", "asIs">>)
      /\ AsksOf("eth_createAccessList", 2, <<"transaction", "block">>)
  BY DEF AsksOf, BlockNumberIn, BlockHashIn
<1>4. /\ Match("any", "asIs", "address")
      /\ Match("any", "asIs", "any")
      /\ Match("any", "asIs", "numbers")
      /\ Match("any", "block", "blockNumberOrTag")
      /\ Match("any", "eachBytes", "hashes")
      /\ Match("any", "transaction", "any")
      /\ Match("any", "uint", "hex")
  BY DEF Match
<1>5. /\ IsStraight(Wraps("createAccessList", 2))
      /\ IsStraight(Wraps("signTypedData", 0))
  <2>1. IsStraight(Wraps("createAccessList", 2))
    <3>1. Wrappers["createAccessList"]
            = W(<<"createAccessList">>, <<"transaction", "block">>, "accessList")
      BY <1>1
    <3>2. RpcMethods["createAccessList"] = R("eth_createAccessList", <<"any", "blockNumberOrTag">>)
      BY <1>2
    <3>3. AsksOf("eth_createAccessList", 2, <<"transaction", "block">>)
      BY <1>3
    <3>4. QED
      BY <1>4, <3>1, <3>2, <3>3, Plain2
  <2>2. IsStraight(Wraps("signTypedData", 0))
    <3>1. Wrappers["signTypedData"] = W(<<"signTypedData">>, <<"asIs", "asIs">>, "bytes")
      BY <1>1
    <3>2. RpcMethods["signTypedData"] = R("eth_signTypedData_v4", <<"address", "any">>)
      BY <1>2
    <3>3. AsksOf("eth_signTypedData_v4", 0, <<"asIs", "asIs">>)
      BY AsksNothing
    <3>4. QED
      BY <1>4, <3>1, <3>2, <3>3, Plain2
  <2>3. QED
    BY <2>1, <2>2
<1>6. IsStraight(Wraps("getProof", 3))
  <2>1. Wrappers["getProof"] = W(<<"getProof">>, <<"asIs", "eachBytes", "block">>, "account")
    BY <1>1
  <2>2. RpcMethods["getProof"] = R("eth_getProof", <<"address", "hashes", "blockNumberOrTag">>)
    BY <1>2
  <2>3. AsksOf("eth_getProof", 3, <<"asIs", "eachBytes", "block">>)
    BY <1>3
  <2>4. QED
    BY <1>4, <2>1, <2>2, <2>3, Plain3
<1>7. IsStraight(Wraps("getFeeHistory", 2))
  <2>1. Wrappers["getFeeHistory"]
          = W(<<"getFeeHistory">>, <<"uint", "block", "asIs">>, "feeHistory")
    BY <1>1
  <2>2. RpcMethods["getFeeHistory"] = R("eth_feeHistory", <<"hex", "blockNumberOrTag", "numbers">>)
    BY <1>2
  <2>3. AsksOf("eth_feeHistory", 2, <<"uint", "block", "asIs">>)
    BY <1>3
  <2>4. QED
    BY <1>4, <2>1, <2>2, <2>3, Plain3
<1>8. QED
  BY <1>5, <1>6, <1>7 DEF Fit, Fits, ethProof, ethFees, ethAccess

LEMMA NetRows == Fit(netMethods)
<1>1. /\ Wrappers["getId"] = W(<<"getId">>, <<>>, "uint")
      /\ Wrappers["getPeerCount"] = W(<<"getPeerCount">>, <<>>, "uint")
      /\ Wrappers["isListening"] = W(<<"isListening">>, <<>>, "none")
  BY WrapperTable DEF Part, wrapNet
<1>2. /\ RpcMethods["getId"] = R("net_version", <<>>)
      /\ RpcMethods["getPeerCount"] = R("net_peerCount", <<>>)
      /\ RpcMethods["isListening"] = R("net_listening", <<>>)
  BY RpcTable DEF Part, rpcNet
<1>3. /\ IsStraight(Wraps("getId", 0))
      /\ IsStraight(Wraps("getPeerCount", 0))
  BY <1>1, <1>2, Straight0
<1>4. IsStraight(Wraps("isListening", 0))
  BY <1>1, <1>2, Straight0
<1>5. QED
  BY <1>3, <1>4 DEF Fit, Fits, netMethods

LEMMA PersonalRows == Fit(personalMethods)
<1>1. /\ Wrappers["listAccounts"] = P("listAccounts", <<>>, <<>>, "addresses")
      /\ Wrappers["newAccount"] = P("newAccount", <<"string">>, <<"asIs">>, "address")
      /\ Wrappers["unlockAccount"] = P("unlockAccount", <<"address", "string", "uint">>,
            <<"asIs", "asIs", "asIs">>, "none")
      /\ Wrappers["lockAccount"] = P("lockAccount", <<"address">>, <<"asIs">>, "none")
      /\ Wrappers["importRawKey"] = P("importRawKey", <<"string", "string">>,
            <<"asIs", "asIs">>, "none")
      /\ Wrappers["personalSendTransaction"] = P("personalSendTransaction", <<"any", "any">>,
            <<"transaction", "asIs">>, "none")
      /\ Wrappers["personalSignTransaction"] = P("personalSignTransaction", <<"any", "any">>,
            <<"transaction", "asIs">>, "none")
      /\ Wrappers["personalSign"] = P("personalSign", <<"string", "address", "string">>,
            <<"utf8ToHex", "asIs", "asIs">>, "none")
      /\ Wrappers["ecRecover"] = P("ecRecover", <<"string", "string">>,
            <<"utf8ToHex", "asIs">>, "none")
  BY WrapperTable DEF Part, wrapPersonal
<1>2. /\ RpcMethods["listAccounts"] = R("personal_listAccounts", <<>>)
      /\ RpcMethods["newAccount"] = R("personal_newAccount", <<"any">>)
      /\ RpcMethods["unlockAccount"] = R("personal_unlockAccount", <<"any", "any", "any">>)
      /\ RpcMethods["lockAccount"] = R("personal_lockAccount", <<"any">>)
      /\ RpcMethods["importRawKey"] = R("personal_importRawKey", <<"any", "any">>)
      /\ RpcMethods["personalSendTransaction"] = R("personal_sendTransaction", <<"any", "any">>)
      /\ RpcMethods["personalSignTransaction"] = R("personal_signTransaction", <<"any", "any">>)
      /\ RpcMethods["personalSign"] = R("personal_sign", <<"any", "any", "any">>)
      /\ RpcMethods["ecRecover"] = R("personal_ecRecover", <<"any", "any">>)
  BY RpcTable DEF Part, rpcPersonal
<1>3. /\ Match("address", "asIs", "any")
      /\ Match("any", "asIs", "any")
      /\ Match("any", "transaction", "any")
      /\ Match("string", "asIs", "any")
      /\ Match("string", "utf8ToHex", "any")
      /\ Match("uint", "asIs", "any")
  BY DEF Match
<1>4. IsStraight(Wraps("listAccounts", 0))
  <2>1. Wrappers["listAccounts"] \in {P("listAccounts", <<>>, <<>>, "addresses"),
                                      W(<<"listAccounts">>, <<>>, "addresses")}
    BY <1>1
  <2>2. RpcMethods["listAccounts"] = R("personal_listAccounts", <<>>)
    BY <1>2
  <2>3. QED
    BY <2>1, <2>2, Straight0
<1>5. /\ IsStraight(Wraps("newAccount", 0))
      /\ IsStraight(Wraps("lockAccount", 0))
  BY <1>1, <1>2, <1>3, Straight1, AsksNothing
<1>6. /\ IsStraight(Wraps("importRawKey", 0))
      /\ IsStraight(Wraps("personalSendTransaction", 0))
  BY <1>1, <1>2, <1>3, Straight2, AsksNothing
<1>7. /\ IsStraight(Wraps("personalSignTransaction", 0))
      /\ IsStraight(Wraps("ecRecover", 0))
  BY <1>1, <1>2, <1>3, Straight2, AsksNothing
<1>8. IsStraight(Wraps("unlockAccount", 0))
  <2>1. Wrappers["unlockAccount"] = P("unlockAccount", <<"address", "string", "uint">>,
                                      <<"asIs", "asIs", "asIs">>, "none")
    BY <1>1
  <2>2. RpcMethods["unlockAccount"] = R("personal_unlockAccount", <<"any", "any", "any">>)
    BY <1>2
  <2>3. AsksOf("personal_unlockAccount", 0, <<"asIs", "asIs", "asIs">>)
    BY AsksNothing
  <2>4. QED
    BY <1>3, <2>1, <2>2, <2>3, Straight3
<1>9. IsStraight(Wraps("personalSign", 0))
  <2>1. Wrappers["personalSign"] = P("personalSign", <<"string", "address", "string">>,
                                     <<"utf8ToHex", "asIs", "asIs">>, "none")
    BY <1>1
  <2>2. RpcMethods["personalSign"] = R("personal_sign", <<"any", "any", "any">>)
    BY <1>2
  <2>3. AsksOf("personal_sign", 0, <<"utf8ToHex", "asIs", "asIs">>)
    BY AsksNothing
  <2>4. QED
    BY <1>3, <2>1, <2>2, <2>3, Straight3
<1>10. QED
  <2>1. ASSUME NEW x \in DOMAIN wrapPersonal
        PROVE  IsStraight(Wraps(x, 0))
    BY <1>4, <1>5, <1>6, <1>7, <1>8, <1>9 DEF wrapPersonal
  <2>2. QED
    BY <2>1 DEF Fit, Fits, personalMethods

(* Methods that choose by the form of the block.                           *)
LEMMA Fork1 ==
    ASSUME NEW wrapper, wrapper # "sign", NEW h, NEW n, NEW schema, NEW byHash, NEW byNumber,
           NEW f1, NEW x1, NEW y1,
           Wrappers[wrapper] = W(<<h, n>>, <<f1>>, schema),
           RpcMethods[h] = R(byHash, <<x1>>), RpcMethods[n] = R(byNumber, <<y1>>),
           AsksOneOf(byHash, byNumber), Forks(f1, x1, y1)
    PROVE  IsFork(Wraps(wrapper, 1))
<1>1. Wrappers[wrapper].calls = <<h, n>> /\ Wrappers[wrapper].forms = <<f1>>
  BY DEF W
<1>2. DOMAIN Wrappers[wrapper].kinds = {1} /\ Wrappers[wrapper].kinds[1] = "any"
  BY DEF W
<1>3. RpcMethods[h].kinds = <<x1>> /\ RpcMethods[n].kinds = <<y1>>
  BY DEF R
<1>4. RpcMethods[h].method = byHash /\ RpcMethods[n].method = byNumber
  BY DEF R
<1>5. /\ Len(Wrappers[wrapper].calls) = 2
      /\ Wrappers[wrapper].calls[1] = h /\ Wrappers[wrapper].calls[2] = n
  BY <1>1
<1>6. /\ DOMAIN Wrappers[wrapper].forms = {1} /\ Wrappers[wrapper].forms[1] = f1
      /\ DOMAIN RpcMethods[h].kinds = {1} /\ RpcMethods[h].kinds[1] = x1
      /\ DOMAIN RpcMethods[n].kinds = {1} /\ RpcMethods[n].kinds[1] = y1
  <2>1. DOMAIN Wrappers[wrapper].forms = {1} /\ Wrappers[wrapper].forms[1] = f1
    BY <1>1
  <2>2. DOMAIN RpcMethods[h].kinds = {1} /\ RpcMethods[h].kinds[1] = x1
    <3>1. RpcMethods[h].kinds = <<x1>>
      BY <1>3
    <3>2. QED
      BY <3>1
  <2>3. DOMAIN RpcMethods[n].kinds = {1} /\ RpcMethods[n].kinds[1] = y1
    BY <1>3
  <2>4. QED
    BY <2>1, <2>2, <2>3
<1>7. Wraps(wrapper, 1).wrapper = wrapper /\ Wraps(wrapper, 1).block = 1
      /\ "rpc" \notin DOMAIN Wraps(wrapper, 1)
  BY DEF Wraps
<1>8. DOMAIN Wrappers[wrapper].forms \ {1} = {}
  BY <1>6
<1>9. QED
  BY <1>2, <1>4, <1>5, <1>6, <1>7, <1>8 DEF IsFork

LEMMA Fork2 ==
    ASSUME NEW wrapper, wrapper # "sign", NEW h, NEW n, NEW schema, NEW byHash, NEW byNumber,
           NEW f1, NEW x1, NEW y1, NEW f2, NEW x2, Plainly(f2, x2),
           Wrappers[wrapper] = W(<<h, n>>, <<f1, f2>>, schema),
           RpcMethods[h] = R(byHash, <<x1, x2>>), RpcMethods[n] = R(byNumber, <<y1, x2>>),
           AsksOneOf(byHash, byNumber), Forks(f1, x1, y1)
    PROVE  IsFork(Wraps(wrapper, 1))
<1>1. Wrappers[wrapper].calls = <<h, n>> /\ Wrappers[wrapper].forms = <<f1, f2>>
  BY DEF W
<1>2. DOMAIN Wrappers[wrapper].kinds = {1, 2} /\ Wrappers[wrapper].kinds[1] = "any"
      /\ Wrappers[wrapper].kinds[2] = "any"
  BY DEF W
<1>3. RpcMethods[h].kinds = <<x1, x2>> /\ RpcMethods[n].kinds = <<y1, x2>>
  BY DEF R
<1>4. RpcMethods[h].method = byHash /\ RpcMethods[n].method = byNumber
  BY DEF R
<1>5. /\ Len(Wrappers[wrapper].calls) = 2
      /\ Wrappers[wrapper].calls[1] = h /\ Wrappers[wrapper].calls[2] = n
  BY <1>1
<1>6. /\ DOMAIN Wrappers[wrapper].forms = {1, 2}
      /\ Wrappers[wrapper].forms[1] = f1 /\ Wrappers[wrapper].forms[2] = f2
  BY <1>1
<1>7. /\ DOMAIN RpcMethods[h].kinds = {1, 2} /\ DOMAIN RpcMethods[n].kinds = {1, 2}
      /\ RpcMethods[h].kinds[1] = x1 /\ RpcMethods[n].kinds[1] = y1
      /\ RpcMethods[h].kinds[2] = x2 /\ RpcMethods[n].kinds[2] = x2
  BY <1>3
<1>8. Wraps(wrapper, 1).wrapper = wrapper /\ Wraps(wrapper, 1).block = 1
      /\ "rpc" \notin DOMAIN Wraps(wrapper, 1)
  BY DEF Wraps
<1>9. QED
  BY <1>2, <1>4, <1>5, <1>6, <1>7, <1>8 DEF IsFork

LEMMA BlockRows == Fit(ethBlocks) /\ Fit(ethUncles)
<1>1. /\ Wrappers["getBlock"]
           = W(<<"getBlockByHash", "getBlockByNumber">>, <<"blockOrHash", "asIs">>, "block")
      /\ Wrappers["getBlockTransactionCount"]
           = W(<<"getBlockTransactionCountByHash", "getBlockTransactionCountByNumber">>,
               <<"blockOrHash">>, "uint")
      /\ Wrappers["getBlockUncleCount"]
           = W(<<"getUncleCountByBlockHash", "getUncleCountByBlockNumber">>,
               <<"blockOrHash">>, "uint")
      /\ Wrappers["getUncle"]
           = W(<<"getUncleByBlockHashAndIndex", "getUncleByBlockNumberAndIndex">>,
               <<"blockOrHash", "uint">>, "block")
  BY WrapperTable DEF Part, wrapBlocks
<1>2. /\ RpcMethods["getBlockByHash"] = R("eth_getBlockByHash", <<"bytes32", "bool">>)
      /\ RpcMethods["getBlockByNumber"] = R("eth_getBlockByNumber", <<"blockNumberOrTag", "bool">>)
      /\ RpcMethods["getUncleByBlockHashAndIndex"]
           = R("eth_getUncleByBlockHashAndIndex", <<"bytes32", "hex">>)
      /\ RpcMethods["getUncleByBlockNumberAndIndex"]
           = R("eth_getUncleByBlockNumberAndIndex", <<"blockNumberOrTag", "hex">>)
  BY RpcTable DEF Part, rpcBlocks
<1>3. /\ RpcMethods["getBlockTransactionCountByHash"]
           = R("eth_getBlockTransactionCountByHash", <<"bytes32">>)
      /\ RpcMethods["getBlockTransactionCountByNumber"]
           = R("eth_getBlockTransactionCountByNumber", <<"blockNumberOrTag">>)
      /\ RpcMethods["getUncleCountByBlockHash"] = R("eth_getUncleCountByBlockHash", <<"bytes32">>)
      /\ RpcMethods["getUncleCountByBlockNumber"]
           = R("eth_getUncleCountByBlockNumber", <<"blockNumberOrTag">>)
  BY RpcTable DEF Part, rpcCounts
<1>4. /\ AsksOneOf("eth_getBlockByHash", "eth_getBlockByNumber")
      /\ AsksOneOf("eth_getUncleByBlockHashAndIndex", "eth_getUncleByBlockNumberAndIndex")
      /\ AsksOneOf("eth_getBlockTransactionCountByHash", "eth_getBlockTransactionCountByNumber")
      /\ AsksOneOf("eth_getUncleCountByBlockHash", "eth_getUncleCountByBlockNumber")
  BY DEF AsksOneOf, BlockHashIn, BlockNumberIn
<1>5. Forks("blockOrHash", "bytes32", "blockNumberOrTag")
  BY DEF Forks
<1>6. Plainly("asIs", "bool") /\ Plainly("uint", "hex")
  BY DEF Plainly, Match
<1>7. IsFork(Wraps("getBlockTransactionCount", 1)) /\ IsFork(Wraps("getBlockUncleCount", 1))
  BY <1>1, <1>3, <1>4, <1>5, Fork1
<1>8. IsFork(Wraps("getBlock", 1)) /\ IsFork(Wraps("getUncle", 1))
  BY <1>1, <1>2, <1>4, <1>5, <1>6, Fork2
<1>9. QED
  BY <1>7, <1>8 DEF Fit, Fits, ethBlocks, ethUncles

LEMMA FromBlockRows == Fit(ethFromBlock)
<1>1. /\ Wrappers["getPendingTransactions"]
           = W(<<"getPendingTransactions">>, <<>>, "transactions")
      /\ Wrappers["getTransactionFromBlock"]
           = W(<<"getTransactionByBlockHashAndIndex", "getTransactionByBlockNumberAndIndex">>,
               <<"blockOrHash", "uint">>, "transaction")
  BY WrapperTable DEF Part, wrapTransactions
<1>2. /\ RpcMethods["getPendingTransactions"] = R("eth_pendingTransactions", <<>>)
      /\ RpcMethods["getTransactionByBlockHashAndIndex"]
           = R("eth_getTransactionByBlockHashAndIndex", <<"bytes32", "hex">>)
      /\ RpcMethods["getTransactionByBlockNumberAndIndex"]
           = R("eth_getTransactionByBlockNumberAndIndex", <<"blockNumberOrTag", "hex">>)
  BY RpcTable DEF Part, rpcBlocks, rpcOthers
<1>3. AsksOneOf("eth_getTransactionByBlockHashAndIndex", "eth_getTransactionByBlockNumberAndIndex")
  BY DEF AsksOneOf, BlockHashIn, BlockNumberIn
<1>4. Forks("blockOrHash", "bytes32", "blockNumberOrTag") /\ Plainly("uint", "hex")
  BY DEF Forks, Plainly, Match
<1>5. IsStraight(Wraps("getPendingTransactions", 0))
  <2>1. Wrappers["getPendingTransactions"]
          \in {P("getPendingTransactions", <<>>, <<>>, "transactions"),
               W(<<"getPendingTransactions">>, <<>>, "transactions")}
    BY <1>1
  <2>2. RpcMethods["getPendingTransactions"] = R("eth_pendingTransactions", <<>>)
    BY <1>2
  <2>3. QED
    BY <2>1, <2>2, Straight0
<1>6. IsFork(Wraps("getTransactionFromBlock", 1))
  BY <1>1, <1>2, <1>3, <1>4, Fork2
<1>7. QED
  BY <1>5, <1>6 DEF Fit, Fits, ethFromBlock

LEMMA SigningRows ==
    ASSUME NEW name \in DOMAIN ethSigning
    PROVE  Fits(ethSigning[name]) \/ name = "sign"
<1>1. /\ Wrappers["signTransaction"]
           = W(<<"signTransaction">>, <<"transaction">>, "signedTransaction")
      /\ Wrappers["call"] = W(<<"call">>, <<"transaction", "block">>, "bytes")
      /\ Wrappers["estimateGas"] = W(<<"estimateGas">>, <<"transaction", "block">>, "uint")
  BY WrapperTable DEF Part, wrapSigning
<1>2. /\ RpcMethods["signTransaction"] = R("eth_signTransaction", <<"any">>)
      /\ RpcMethods["call"] = R("eth_call", <<"any", "blockNumberOrTag">>)
      /\ RpcMethods["estimateGas"] = R("eth_estimateGas", <<"any", "blockNumberOrTag">>)
  BY RpcTable DEF Part, rpcCounts
<1>3. /\ AsksOf("eth_call", 2, <<"transaction", "block">>)
      /\ AsksOf("eth_estimateGas", 2, <<"transaction", "block">>)
  BY DEF AsksOf, BlockNumberIn, BlockHashIn
<1>4. Match("any", "transaction", "any") /\ Match("any", "block", "blockNumberOrTag")
  BY DEF Match
<1>5. IsStraight(Wraps("signTransaction", 0))
  BY <1>1, <1>2, <1>4, Plain1, AsksNothing
<1>6. IsStraight(Wraps("call", 2)) /\ IsStraight(Wraps("estimateGas", 2))
  BY <1>1, <1>2, <1>3, <1>4, Plain2
<1>7. QED
  BY <1>5, <1>6 DEF Fits, ethSigning

(* All methods but sign(), which turns its arguments round.                *)
FitsOrSigns(name, m) == IF name = "sign" THEN m = Wraps("sign", 0) ELSE Fits(m)
AllFit(table) == \A x \in DOMAIN table : FitsOrSigns(x, table[x])

LEMMA JoinedFit ==
    ASSUME NEW f, NEW g, AllFit(f), AllFit(g)
    PROVE  AllFit(Joined(f, g))
BY DEF AllFit, Joined

LEMMA EveryRow == AllFit(Methods)
<1>1. AllFit(ethNode) /\ AllFit(ethChain)
  <2>1. "sign" \notin DOMAIN ethNode /\ "sign" \notin DOMAIN ethChain
    BY DEF ethNode, ethChain
  <2>2. QED
    BY <2>1, NodeRows DEF AllFit, FitsOrSigns, Fit
<1>2. AllFit(ethState) /\ AllFit(ethCount)
  <2>1. "sign" \notin DOMAIN ethState /\ "sign" \notin DOMAIN ethCount
    BY DEF ethState, ethCount
  <2>2. QED
    BY <2>1, StateRows DEF AllFit, FitsOrSigns, Fit
<1>3. AllFit(ethBlocks) /\ AllFit(ethUncles) /\ AllFit(ethFromBlock)
  <2>1. /\ "sign" \notin DOMAIN ethBlocks /\ "sign" \notin DOMAIN ethUncles
        /\ "sign" \notin DOMAIN ethFromBlock
    BY DEF ethBlocks, ethUncles, ethFromBlock
  <2>2. QED
    BY <2>1, BlockRows, FromBlockRows DEF AllFit, FitsOrSigns, Fit
<1>4. AllFit(ethTransactions) /\ AllFit(ethWork)
  <2>1. "sign" \notin DOMAIN ethTransactions /\ "sign" \notin DOMAIN ethWork
    BY DEF ethTransactions, ethWork
  <2>2. QED
    BY <2>1, TransactionRows, WorkRows DEF AllFit, FitsOrSigns, Fit
<1>5. AllFit(ethProof) /\ AllFit(ethFees) /\ AllFit(ethAccess)
  <2>1. /\ "sign" \notin DOMAIN ethProof /\ "sign" \notin DOMAIN ethFees
        /\ "sign" \notin DOMAIN ethAccess
    BY DEF ethProof, ethFees, ethAccess
  <2>2. QED
    BY <2>1, ProofRows DEF AllFit, FitsOrSigns, Fit
<1>6. AllFit(netMethods) /\ AllFit(personalMethods)
  <2>1. "sign" \notin DOMAIN netMethods /\ "sign" \notin DOMAIN personalMethods
    BY DEF netMethods, personalMethods, wrapPersonal
  <2>2. QED
    BY <2>1, NetRows, PersonalRows DEF AllFit, FitsOrSigns, Fit
<1>7. AllFit(ethSigning)
  <2>1. ethSigning["sign"] = Wraps("sign", 0)
    BY DEF ethSigning
  <2>2. QED
    BY <2>1, SigningRows DEF AllFit, FitsOrSigns
<1>8. QED
  BY <1>1, <1>2, <1>3, <1>4, <1>5, <1>6, <1>7, JoinedFit DEF Methods

---------------------------------------------------------------------------
(* What a method asks for, with arguments of its types                     *)

LEMMA StraightAsks ==
    ASSUME NEW m, IsStraight(m), NEW v,
           DOMAIN v = DOMAIN Wrappers[m.wrapper].forms,
           \A i \in DOMAIN v :
               \/ v[i] \in Suitable(Wanted(Wrappers[m.wrapper].kinds[i],
                                           RpcMethods[Wrappers[m.wrapper].calls[1]].kinds[i]),
                                    Wrappers[m.wrapper].forms[i])
               \/ Wrappers[m.wrapper].forms[i] = "block" /\ v[i] \in GoodBlocks
    PROVE  /\ ~ IsThrown(Wrapped(m.wrapper, v))
           /\ m.block \in DOMAIN v => BlockAskedFor(Wrapped(m.wrapper, v)) = BlockMeant(v[m.block])
<1> DEFINE w == Wrappers[m.wrapper]
           r == RpcMethods[w.calls[1]]
           routed == [i \in DOMAIN v |-> Routed(w.forms[i], v[i])]
<1>1. /\ m.wrapper # "sign" /\ Len(w.calls) = 1
      /\ DOMAIN w.kinds = DOMAIN v /\ DOMAIN r.kinds = DOMAIN v
      /\ \A i \in DOMAIN v : Match(w.kinds[i], w.forms[i], r.kinds[i])
  BY DEF IsStraight
<1>2. /\ \A i \in DOMAIN v : Valid(w.kinds[i], v[i])
      /\ \A i \in DOMAIN v : Valid(r.kinds[i], Routed(w.forms[i], v[i]))
  BY <1>1, Matched
<1>3. AllValid(w.kinds, v)
  BY <1>1, <1>2 DEF AllValid
<1>4. AllValid(r.kinds, routed)
  BY <1>1, <1>2 DEF AllValid
<1>5. Wire(m.wrapper, v) = v
  BY <1>1 DEF Wire
<1>6. Wrapped(m.wrapper, v) = Rpc(w.calls[1], routed)
  BY <1>1, <1>3, <1>5 DEF Wrapped
<1>7. Rpc(w.calls[1], routed) = [method |-> r.method, params |-> routed]
  BY <1>4 DEF Rpc
<1>8. ASSUME m.block \in DOMAIN v
      PROVE  BlockAskedFor([method |-> r.method, params |-> routed]) = BlockMeant(v[m.block])
  <2>1. /\ w.forms[m.block] = "block"
        /\ r.method \in DOMAIN BlockNumberIn \ DOMAIN BlockHashIn
        /\ BlockNumberIn[r.method] = m.block
    BY <1>8 DEF IsStraight
  <2>2. v[m.block] \in GoodBlocks
    <3>1. \A kind : Suitable(kind, "block") \subseteq GoodBlocks
      BY DEF Suitable, GoodBlocks
    <3>2. QED
      BY <1>8, <2>1, <3>1
  <2>3. v[m.block] \in Blocks \cup {Latest}
    BY <2>2 DEF GoodBlocks, NumbersAndTags
  <2>4. routed[m.block] = InFormat("block", v[m.block])
    BY <1>8, <2>1 DEF Routed
  <2>5. QED
    BY <2>1, <2>2, <2>3, <2>4, BlockByNumber DEF BlockAskedFor
<1>9. Wrapped(m.wrapper, v) = [method |-> r.method, params |-> routed]
  BY <1>6, <1>7
<1>10. \A method, params : ~ IsThrown([method |-> method, params |-> params])
  BY DEF IsThrown
<1> HIDE DEF w, r, routed
<1>11. ~ IsThrown(Wrapped(m.wrapper, v))
  BY <1>9, <1>10
<1>12. QED
  BY <1>8, <1>9, <1>11

LEMMA ForkAsks ==
    ASSUME NEW m, IsFork(m), NEW v,
           DOMAIN v = DOMAIN Wrappers[m.wrapper].forms,
           v[1] \in Blocks \cup {Latest},
           \A i \in DOMAIN v \ {1} :
               \/ v[i] \in Suitable(RpcMethods[Wrappers[m.wrapper].calls[2]].kinds[i],
                                    Wrappers[m.wrapper].forms[i])
               \/ Wrappers[m.wrapper].forms[i] = "block" /\ v[i] \in GoodBlocks
    PROVE  LET about == BlockAskedFor(Wrapped(m.wrapper, v)) IN
           /\ ~ IsThrown(Wrapped(m.wrapper, v))
           /\ about = BlockMeant(v[1]) \/ (TakenForBytes(v[1]) /\ about[1] = "hash")
<1> DEFINE w == Wrappers[m.wrapper]
           h == RpcMethods[w.calls[1]]
           n == RpcMethods[w.calls[2]]
           routed == [i \in DOMAIN v |-> Routed(w.forms[i], v[i])]
<1>1. /\ m.wrapper # "sign" /\ Len(w.calls) = 2
      /\ DOMAIN w.kinds = DOMAIN v /\ DOMAIN h.kinds = DOMAIN v /\ DOMAIN n.kinds = DOMAIN v
      /\ 1 \in DOMAIN v
      /\ \A i \in DOMAIN v : w.kinds[i] = "any"
      /\ Forks(w.forms[1], h.kinds[1], n.kinds[1]) /\ AsksOneOf(h.method, n.method)
  BY DEF IsFork
<1>2. ASSUME NEW i \in DOMAIN v \ {1}
      PROVE  Valid(h.kinds[i], Routed(w.forms[i], v[i])) /\ Valid(n.kinds[i], Routed(w.forms[i], v[i]))
  <2>1. h.kinds[i] = n.kinds[i] /\ Plainly(w.forms[i], n.kinds[i])
    BY <1>1 DEF IsFork
  <2>2. v[i] \in Suitable(Wanted("any", n.kinds[i]), w.forms[i])
        \/ (w.forms[i] = "block" /\ v[i] \in GoodBlocks)
    BY DEF Wanted
  <2>3. Match("any", w.forms[i], n.kinds[i])
    BY <2>1 DEF Plainly
  <2>4. QED
    BY <2>1, <2>2, <2>3, Matched
<1>3. AllValid(w.kinds, v)
  <2>1. \A x : Valid("any", x)
    BY DEF Valid
  <2>2. QED
    BY <1>1, <2>1 DEF AllValid
<1>4. Wire(m.wrapper, v) = v
  BY <1>1 DEF Wire
<1>5. w.forms[1] = "blockOrHash" /\ h.kinds[1] = "bytes32" /\ n.kinds[1] = "blockNumberOrTag"
  BY <1>1 DEF Forks
<1>6. CASE IsBytes(v[1])
  <2>1. routed[1] = InFormat("bytes32", v[1])
    BY <1>1, <1>5, <1>6 DEF Routed
  <2>2. /\ Valid("bytes32", routed[1])
        /\ <<"hash", routed[1].value>> = BlockMeant(v[1]) \/ TakenForBytes(v[1])
    BY <1>6, <2>1, BlockByHash
  <2>3. AllValid(h.kinds, routed)
    BY <1>1, <1>2, <1>5, <2>2 DEF AllValid
  <2>4. Wrapped(m.wrapper, v) = Rpc(w.calls[1], routed)
    BY <1>1, <1>3, <1>4, <1>6 DEF Wrapped
  <2>5. Rpc(w.calls[1], routed) = [method |-> h.method, params |-> routed]
    BY <2>3 DEF Rpc
  <2>6. BlockAskedFor([method |-> h.method, params |-> routed]) = <<"hash", routed[1].value>>
    BY <1>1 DEF AsksOneOf, BlockAskedFor
  <2>7. <<"hash", routed[1].value>>[1] = "hash"
    OBVIOUS
  <2>8. Wrapped(m.wrapper, v) = [method |-> h.method, params |-> routed]
    BY <2>4, <2>5
  <2>9. BlockAskedFor(Wrapped(m.wrapper, v)) = <<"hash", routed[1].value>>
    BY <2>6, <2>8
  <2>10. ~ IsThrown(Wrapped(m.wrapper, v))
    BY <2>8 DEF IsThrown
  <2>11. BlockAskedFor(Wrapped(m.wrapper, v))[1] = "hash"
    BY <2>7, <2>9
  <2>12. BlockAskedFor(Wrapped(m.wrapper, v)) = BlockMeant(v[1]) \/ TakenForBytes(v[1])
    BY <2>2, <2>9
  <2>13. QED
    BY <2>10, <2>11, <2>12
<1>7. CASE ~ IsBytes(v[1])
  <2>1. routed[1] = InFormat("block", v[1])
    BY <1>1, <1>5, <1>7 DEF Routed
  <2>2. /\ Valid("blockNumberOrTag", routed[1])
        /\ (IF routed[1].type = "tag" THEN <<"tag", routed[1].value>>
            ELSE <<"number", routed[1].value>>) = BlockMeant(v[1])
    BY <1>7, <2>1, BlockByNumber
  <2>3. AllValid(n.kinds, routed)
    BY <1>1, <1>2, <1>5, <2>2 DEF AllValid
  <2>4. Wrapped(m.wrapper, v) = Rpc(w.calls[2], routed)
    BY <1>1, <1>3, <1>4, <1>7 DEF Wrapped
  <2>5. Rpc(w.calls[2], routed) = [method |-> n.method, params |-> routed]
    BY <2>3 DEF Rpc
  <2>6. BlockAskedFor([method |-> n.method, params |-> routed]) = BlockMeant(v[1])
    BY <1>1, <2>2 DEF AsksOneOf, BlockAskedFor
  <2>7. \A method, params : ~ IsThrown([method |-> method, params |-> params])
    BY DEF IsThrown
  <2>8. Wrapped(m.wrapper, v) = [method |-> n.method, params |-> routed]
    BY <2>4, <2>5
  <2>9. ~ IsThrown(Wrapped(m.wrapper, v))
    BY <2>7, <2>8
  <2>10. BlockAskedFor(Wrapped(m.wrapper, v)) = BlockMeant(v[1])
    BY <2>6, <2>8
  <2>11. QED
    BY <2>9, <2>10
<1>8. QED
  BY <1>6, <1>7

LEMMA DirectAsks ==
    ASSUME NEW m, IsDirect(m), NEW v, DOMAIN v = DOMAIN RpcMethods[m.rpc].kinds,
           \A i \in DOMAIN v : v[i] \in Suitable(RpcMethods[m.rpc].kinds[i], "asIs")
    PROVE  ~ IsThrown(Rpc(m.rpc, v))
<1> DEFINE r == RpcMethods[m.rpc]
<1>1. ASSUME NEW i \in DOMAIN v
      PROVE  Valid(r.kinds[i], v[i])
  <2>1. Match("any", "asIs", r.kinds[i])
    BY DEF IsDirect, AsIs
  <2>2. v[i] \in Suitable(Wanted("any", r.kinds[i]), "asIs") /\ Routed("asIs", v[i]) = v[i]
    BY DEF Wanted, Routed, InFormat
  <2>3. QED
    BY <2>1, <2>2, Matched
<1>2. AllValid(r.kinds, v)
  BY <1>1 DEF AllValid
<1>3. QED
  BY <1>2 DEF Rpc, IsThrown

LEMMA ArgsAre ==
    ASSUME NEW name, name # "sign", NEW args \in ArgsOf(name)
    PROVE  /\ DOMAIN args = DOMAIN Typed(name)
           /\ \A i \in DOMAIN args : args[i] \in Typed(name)[i]
<1> DEFINE typed == Typed(name)
<1> HIDE DEF typed
<1>1. PICK a \in [DOMAIN typed -> UNION {typed[i] : i \in DOMAIN typed}] :
          /\ \A i \in DOMAIN a : a[i] \in typed[i]
          /\ args = [i \in DOMAIN a |-> a[[k \in DOMAIN typed |-> k][i]]]
  BY DEF ArgsOf, typed
<1>2. DOMAIN a = DOMAIN typed
  OBVIOUS
<1>3. args = a
  BY <1>1, <1>2
<1>4. QED
  BY <1>1, <1>2, <1>3 DEF typed

(* The kinds and forms by which the arguments of a method are chosen.      *)
LEMMA TypedIs ==
    ASSUME NEW name
    PROVE  LET m == Methods[name] IN
           /\ IsDirect(m) =>
                  /\ DOMAIN Typed(name) = DOMAIN RpcMethods[m.rpc].kinds
                  /\ \A i \in DOMAIN Typed(name) :
                         Typed(name)[i] = Suitable(RpcMethods[m.rpc].kinds[i], "asIs")
           /\ IsStraight(m) =>
                  LET w == Wrappers[m.wrapper]
                      r == RpcMethods[w.calls[1]]
                  IN
                  /\ DOMAIN Typed(name) = DOMAIN w.forms
                  /\ \A i \in DOMAIN Typed(name) :
                         Typed(name)[i] = Suitable(Wanted(w.kinds[i], r.kinds[i]), w.forms[i])
                                          \cup (IF m.block = i THEN {Omitted} ELSE {})
           /\ IsFork(m) =>
                  LET w == Wrappers[m.wrapper]
                      n == RpcMethods[w.calls[2]]
                  IN
                  /\ DOMAIN Typed(name) = DOMAIN w.forms
                  /\ \A i \in DOMAIN Typed(name) :
                         Typed(name)[i] = Suitable(n.kinds[i], w.forms[i])
                                          \cup (IF m.block = i THEN {Omitted} ELSE {})
<1> DEFINE m == Methods[name]
<1>1. ASSUME IsDirect(m)
      PROVE  /\ DOMAIN Typed(name) = DOMAIN RpcMethods[m.rpc].kinds
             /\ \A i \in DOMAIN Typed(name) :
                    Typed(name)[i] = Suitable(RpcMethods[m.rpc].kinds[i], "asIs")
  <2>1. "rpc" \in DOMAIN m /\ m.block = 0 /\ 0 \notin DOMAIN RpcMethods[m.rpc].kinds
    BY <1>1 DEF IsDirect
  <2>2. QED
    BY <2>1 DEF Typed
<1>2. ASSUME IsStraight(m)
      PROVE  LET w == Wrappers[m.wrapper]
                 r == RpcMethods[w.calls[1]]
             IN
             /\ DOMAIN Typed(name) = DOMAIN w.forms
             /\ \A i \in DOMAIN Typed(name) :
                    Typed(name)[i] = Suitable(Wanted(w.kinds[i], r.kinds[i]), w.forms[i])
                                     \cup (IF m.block = i THEN {Omitted} ELSE {})
  <2>1. "rpc" \notin DOMAIN m /\ Len(Wrappers[m.wrapper].calls) = 1
    BY <1>2 DEF IsStraight
  <2>2. QED
    BY <2>1 DEF Typed, Wanted
<1>3. ASSUME IsFork(m)
      PROVE  LET w == Wrappers[m.wrapper]
                 n == RpcMethods[w.calls[2]]
             IN
             /\ DOMAIN Typed(name) = DOMAIN w.forms
             /\ \A i \in DOMAIN Typed(name) :
                    Typed(name)[i] = Suitable(n.kinds[i], w.forms[i])
                                     \cup (IF m.block = i THEN {Omitted} ELSE {})
  <2>1. /\ "rpc" \notin DOMAIN m /\ Len(Wrappers[m.wrapper].calls) = 2
        /\ \A i \in DOMAIN Wrappers[m.wrapper].forms : Wrappers[m.wrapper].kinds[i] = "any"
    BY <1>3 DEF IsFork
  <2>2. QED
    BY <2>1 DEF Typed
<1>4. QED
  BY <1>1, <1>2, <1>3

(* The default block takes the place of an argument that is omitted.       *)
LEMMA FilledIs ==
    ASSUME NEW name, NEW args, NEW d
    PROVE  LET v == Filled(name, args, d) IN
           /\ DOMAIN v = DOMAIN args
           /\ \A i \in DOMAIN args :
                  v[i] = IF args[i] = Omitted /\ i = Methods[name].block THEN d ELSE args[i]
BY DEF Filled

(* What AsksForItsBlock says of a call.                                    *)
Right(about, block) == about = BlockMeant(block) \/ (TakenForBytes(block) /\ about[1] = "hash")
AsksRight(name, args, d, request) ==
    /\ ~ IsThrown(request)
    /\ \A i \in DOMAIN args \cap {Methods[name].block} :
           Right(BlockAskedFor(request), IF args[i] = Omitted THEN d ELSE args[i])

(* What a wrapper of one function with two arguments is made of.           *)
LEMMA PairIs ==
    ASSUME NEW a, NEW b
    PROVE  DOMAIN <<a, b>> = {1, 2} /\ <<a, b>>[1] = a /\ <<a, b>>[2] = b
OBVIOUS

TwoForms(w, call_, f1, f2) ==
    /\ Len(w.calls) = 1 /\ w.calls[1] = call_
    /\ DOMAIN w.forms = {1, 2} /\ w.forms[1] = f1 /\ w.forms[2] = f2
    /\ DOMAIN w.kinds = {1, 2} /\ w.kinds[1] = "any" /\ w.kinds[2] = "any"
TwoKinds(r, k1, k2) == DOMAIN r.kinds = {1, 2} /\ r.kinds[1] = k1 /\ r.kinds[2] = k2

LEMMA TwoFormsOf ==
    ASSUME NEW w, NEW call_, NEW f1, NEW f2, NEW schema, w = W(<<call_>>, <<f1, f2>>, schema)
    PROVE  TwoForms(w, call_, f1, f2)
<1>1. Len(w.calls) = 1 /\ w.calls[1] = call_
  BY DEF W
<1>2. DOMAIN w.forms = {1, 2} /\ w.forms[1] = f1 /\ w.forms[2] = f2
  BY DEF W
<1>3. DOMAIN w.kinds = {1, 2} /\ w.kinds[1] = "any" /\ w.kinds[2] = "any"
  BY DEF W
<1>4. QED
  BY <1>1, <1>2, <1>3 DEF TwoForms

LEMMA TwoKindsOf ==
    ASSUME NEW r, NEW method, NEW k1, NEW k2, r = R(method, <<k1, k2>>)
    PROVE  TwoKinds(r, k1, k2)
BY DEF R, TwoKinds

LEMMA SignAsks ==
    ASSUME Methods["sign"] = Wraps("sign", 0), NEW args \in ArgsOf("sign"), NEW d
    PROVE  AsksRight("sign", args, d, RequestOf("sign", args, d))
<1>1. /\ Methods["sign"].wrapper = "sign" /\ Methods["sign"].block = 0
      /\ "rpc" \notin DOMAIN Methods["sign"]
  BY DEF Wraps
<1>2. TwoForms(Wrappers["sign"], "sign", "asIs", "bytes")
  <2>1. Wrappers["sign"] = W(<<"sign">>, <<"asIs", "bytes">>, "bytes")
    BY WrapperTable DEF Part, wrapSigning
  <2>2. QED
    BY <2>1, TwoFormsOf
<1>3. TwoKinds(RpcMethods["sign"], "address", "hex")
  <2>1. RpcMethods["sign"] = R("eth_sign", <<"address", "hex">>)
    BY RpcTable DEF Part, rpcCounts
  <2>2. QED
    BY <2>1, TwoKindsOf
<1> DEFINE typed == Typed("sign")
<1>6. /\ DOMAIN typed = {1, 2}
      /\ typed[1] = Suitable("address", "asIs") /\ typed[2] = Suitable("hex", "bytes")
  <2> DEFINE w     == Wrappers["sign"]
             asked == w.calls[Len(w.calls)]
             kind(i) == IF w.kinds[i] # "any" THEN w.kinds[i] ELSE RpcMethods[asked].kinds[i]
  <2>1. /\ typed = [i \in DOMAIN w.forms |->
                       Suitable(kind(i), w.forms[i]) \cup (IF 0 = i THEN {Omitted} ELSE {})]
    BY <1>1 DEF Typed
  <2>2. DOMAIN w.forms = {1, 2} /\ w.forms[1] = "asIs" /\ w.forms[2] = "bytes"
    BY <1>2 DEF TwoForms
  <2>3. asked = "sign" /\ w.kinds[1] = "any" /\ w.kinds[2] = "any"
    BY <1>2 DEF TwoForms
  <2>4. kind(1) = "address" /\ kind(2) = "hex"
    BY <1>3, <2>3 DEF TwoKinds
  <2> HIDE DEF w, kind, typed
  <2>5. QED
    BY <2>1, <2>2, <2>4
<1> HIDE DEF typed
<1>7. /\ DOMAIN args = {1, 2}
      /\ args[2] \in Suitable("address", "asIs") /\ args[1] \in Suitable("hex", "bytes")
  <2>1. PICK a \in [DOMAIN typed -> UNION {typed[i] : i \in DOMAIN typed}] :
            /\ \A i \in DOMAIN a : a[i] \in typed[i]
            /\ args = [i \in DOMAIN a |-> a[<<2, 1>>[i]]]
    BY DEF ArgsOf, typed
  <2>2. DOMAIN a = {1, 2} /\ <<2, 1>>[1] = 2 /\ <<2, 1>>[2] = 1
    BY <1>6
  <2>3. args[1] = a[2] /\ args[2] = a[1] /\ DOMAIN args = {1, 2}
    BY <2>1, <2>2
  <2>4. QED
    BY <1>6, <2>1, <2>2, <2>3
<1> DEFINE v == Filled("sign", args, d)
<1>8. DOMAIN v = {1, 2} /\ v[1] = args[1] /\ v[2] = args[2]
  BY <1>1, <1>7, FilledIs
<1> HIDE DEF v
<1>9. AllValid(Wrappers["sign"].kinds, v)
  <2>1. \A x : Valid("any", x)
    BY DEF Valid
  <2>2. QED
    BY <1>2, <2>1 DEF AllValid, TwoForms
<1> DEFINE routed == [i \in DOMAIN <<v[2], v[1]>> |-> Routed(Wrappers["sign"].forms[i], <<v[2], v[1]>>[i])]
<1>10. Wrapped("sign", v) = Rpc("sign", routed)
  <2>1. Wire("sign", v) = <<v[2], v[1]>>
    BY DEF Wire
  <2>2. QED
    BY <1>2, <1>9, <2>1 DEF Wrapped, TwoForms
<1>11. Valid("address", Routed("asIs", v[2])) /\ Valid("hex", Routed("bytes", v[1]))
  <2>1. Match("any", "asIs", "address") /\ Match("any", "bytes", "hex")
    BY DEF Match
  <2>2. v[2] \in Suitable(Wanted("any", "address"), "asIs")
        /\ v[1] \in Suitable(Wanted("any", "hex"), "bytes")
    BY <1>7, <1>8 DEF Wanted
  <2>3. QED
    BY <2>1, <2>2, Matched
<1>12. AllValid(RpcMethods["sign"].kinds, routed)
  <2>1. /\ routed[1] = Routed("asIs", v[2]) /\ routed[2] = Routed("bytes", v[1])
    BY <1>2, PairIs DEF TwoForms
  <2>2. QED
    BY <1>3, <1>11, <2>1 DEF AllValid, TwoKinds
<1> HIDE DEF routed
<1>13. ~ IsThrown(Rpc("sign", routed))
  BY <1>12 DEF Rpc, IsThrown
<1>14. RequestOf("sign", args, d) = Wrapped("sign", v)
  BY <1>1 DEF RequestOf, v
<1>15. DOMAIN args \cap {Methods["sign"].block} = {}
  BY <1>1, <1>7
<1>16. QED
  BY <1>10, <1>13, <1>14, <1>15 DEF AsksRight

LEMMA MethodAsks ==
    ASSUME NEW name \in DOMAIN Methods, NEW args \in ArgsOf(name), NEW d \in GoodBlocks
    PROVE  AsksRight(name, args, d, RequestOf(name, args, d))
<1> DEFINE m == Methods[name]
           v == Filled(name, args, d)
<1>1. FitsOrSigns(name, m)
  BY EveryRow DEF AllFit
<1>2. CASE name = "sign"
  BY <1>1, <1>2, SignAsks DEF FitsOrSigns
<1>3. CASE name # "sign"
  <2>1. Fits(m)
    BY <1>1, <1>3 DEF FitsOrSigns
  <2>2. /\ DOMAIN args = DOMAIN Typed(name)
        /\ \A i \in DOMAIN args : args[i] \in Typed(name)[i]
    BY <1>3, ArgsAre
  <2>3. /\ DOMAIN v = DOMAIN args
        /\ \A i \in DOMAIN args : v[i] = IF args[i] = Omitted /\ i = m.block THEN d ELSE args[i]
    BY FilledIs
  <2>4. RequestOf(name, args, d) = IF "rpc" \in DOMAIN m THEN Rpc(m.rpc, v) ELSE Wrapped(m.wrapper, v)
    BY DEF RequestOf
  <2> HIDE DEF v
  <2>5. CASE IsDirect(m)
    <3>1. "rpc" \in DOMAIN m /\ m.block = 0 /\ 0 \notin DOMAIN RpcMethods[m.rpc].kinds
      BY <2>5 DEF IsDirect
    <3>2. /\ DOMAIN v = DOMAIN RpcMethods[m.rpc].kinds
          /\ \A i \in DOMAIN v : v[i] \in Suitable(RpcMethods[m.rpc].kinds[i], "asIs")
      <4>1. /\ DOMAIN Typed(name) = DOMAIN RpcMethods[m.rpc].kinds
            /\ \A i \in DOMAIN Typed(name) :
                   Typed(name)[i] = Suitable(RpcMethods[m.rpc].kinds[i], "asIs")
        BY <2>5, TypedIs
      <4>2. DOMAIN v = DOMAIN RpcMethods[m.rpc].kinds /\ \A i \in DOMAIN v : v[i] = args[i]
        BY <2>2, <2>3, <3>1, <4>1
      <4>3. ASSUME NEW i \in DOMAIN v
            PROVE  v[i] \in Suitable(RpcMethods[m.rpc].kinds[i], "asIs")
        BY <2>2, <2>3, <4>1, <4>2
      <4>4. QED
        BY <4>2, <4>3
    <3>3. ~ IsThrown(Rpc(m.rpc, v))
      BY <2>5, <3>2, DirectAsks
    <3>4. DOMAIN args \cap {m.block} = {}
      BY <2>3, <3>1, <3>2
    <3>5. ~ IsThrown(RequestOf(name, args, d))
      BY <2>4, <3>1, <3>3
    <3>6. QED
      BY <3>4, <3>5 DEF AsksRight
  <2>6. CASE IsStraight(m)
    <3> DEFINE w == Wrappers[m.wrapper]
               r == RpcMethods[w.calls[1]]
    <3>1. "rpc" \notin DOMAIN m /\ (m.block \in DOMAIN w.forms => w.forms[m.block] = "block")
      BY <2>6 DEF IsStraight
    <3>2. /\ DOMAIN v = DOMAIN w.forms
          /\ \A i \in DOMAIN v : v[i] \in Suitable(Wanted(w.kinds[i], r.kinds[i]), w.forms[i])
                                 \/ (w.forms[i] = "block" /\ v[i] \in GoodBlocks)
      <4>1. /\ DOMAIN Typed(name) = DOMAIN w.forms
            /\ \A i \in DOMAIN Typed(name) :
                   Typed(name)[i] = Suitable(Wanted(w.kinds[i], r.kinds[i]), w.forms[i])
                                    \cup (IF m.block = i THEN {Omitted} ELSE {})
        BY <2>6, TypedIs
      <4>2. DOMAIN v = DOMAIN w.forms /\ DOMAIN args = DOMAIN w.forms
        BY <2>2, <2>3, <4>1
      <4>3. ASSUME NEW i \in DOMAIN v
            PROVE  \/ v[i] \in Suitable(Wanted(w.kinds[i], r.kinds[i]), w.forms[i])
                   \/ w.forms[i] = "block" /\ v[i] \in GoodBlocks
        <5>1. args[i] \in Suitable(Wanted(w.kinds[i], r.kinds[i]), w.forms[i])
              \/ (args[i] = Omitted /\ i = m.block)
          <6>1. args[i] \in Typed(name)[i]
            BY <2>2, <4>2
          <6>2. Typed(name)[i] = Suitable(Wanted(w.kinds[i], r.kinds[i]), w.forms[i])
                                 \cup (IF m.block = i THEN {Omitted} ELSE {})
            BY <4>1, <4>2
          <6>3. QED
            BY <6>1, <6>2
        <5>2. v[i] = IF args[i] = Omitted /\ i = m.block THEN d ELSE args[i]
          BY <2>3, <4>2, <4>3
        <5>3. i = m.block => w.forms[i] = "block"
          BY <3>1, <4>2, <4>3
        <5>4. QED
          BY <5>1, <5>2, <5>3
      <4>4. QED
        BY <4>2, <4>3
    <3>3. /\ ~ IsThrown(Wrapped(m.wrapper, v))
          /\ m.block \in DOMAIN v => BlockAskedFor(Wrapped(m.wrapper, v)) = BlockMeant(v[m.block])
      BY <2>6, <3>2, StraightAsks
    <3>4. RequestOf(name, args, d) = Wrapped(m.wrapper, v)
      BY <2>4, <3>1
    <3>5. \A i \in DOMAIN args \cap {m.block} :
              Right(BlockAskedFor(RequestOf(name, args, d)),
                    IF args[i] = Omitted THEN d ELSE args[i])
      BY <2>3, <3>3, <3>4 DEF Right
    <3>6. QED
      BY <3>3, <3>4, <3>5 DEF AsksRight
  <2>7. CASE IsFork(m)
    <3> DEFINE w == Wrappers[m.wrapper]
               n == RpcMethods[w.calls[2]]
    <3>1. /\ "rpc" \notin DOMAIN m /\ m.block = 1
          /\ 1 \in DOMAIN w.forms /\ w.forms[1] = "blockOrHash"
      BY <2>7 DEF IsFork, Forks
    <3>2. /\ DOMAIN v = DOMAIN w.forms
          /\ \A i \in DOMAIN v : v[i] \in Suitable(n.kinds[i], w.forms[i]) \/ (i = 1 /\ v[i] = d)
      <4>1. /\ DOMAIN Typed(name) = DOMAIN w.forms
            /\ \A i \in DOMAIN Typed(name) :
                   Typed(name)[i] = Suitable(n.kinds[i], w.forms[i])
                                    \cup (IF m.block = i THEN {Omitted} ELSE {})
        BY <2>7, TypedIs
      <4>2. DOMAIN v = DOMAIN w.forms /\ DOMAIN args = DOMAIN w.forms
        BY <2>2, <2>3, <4>1
      <4>3. ASSUME NEW i \in DOMAIN v
            PROVE  v[i] \in Suitable(n.kinds[i], w.forms[i]) \/ (i = 1 /\ v[i] = d)
        <5>1. args[i] \in Suitable(n.kinds[i], w.forms[i]) \/ (args[i] = Omitted /\ i = m.block)
          <6>1. args[i] \in Typed(name)[i]
            BY <2>2, <4>2
          <6>2. Typed(name)[i] = Suitable(n.kinds[i], w.forms[i])
                                 \cup (IF m.block = i THEN {Omitted} ELSE {})
            BY <4>1, <4>2
          <6>3. QED
            BY <6>1, <6>2
        <5>2. v[i] = IF args[i] = Omitted /\ i = m.block THEN d ELSE args[i]
          BY <2>3, <4>2, <4>3
        <5>3. QED
          BY <3>1, <5>1, <5>2
      <4>4. QED
        BY <4>2, <4>3
    <3>3. v[1] \in Blocks \cup {Latest}
      <4>1. Suitable(n.kinds[1], "blockOrHash") = Blocks
        BY DEF Suitable
      <4>2. QED
        BY <3>1, <3>2, <4>1 DEF GoodBlocks, NumbersAndTags
    <3>4. ~ IsThrown(Wrapped(m.wrapper, v)) /\ Right(BlockAskedFor(Wrapped(m.wrapper, v)), v[1])
      BY <2>7, <3>2, <3>3, ForkAsks DEF Right
    <3>5. RequestOf(name, args, d) = Wrapped(m.wrapper, v)
      BY <2>4, <3>1
    <3>6. \A i \in DOMAIN args \cap {m.block} : v[1] = IF args[i] = Omitted THEN d ELSE args[i]
      BY <2>3, <3>1
    <3>7. QED
      BY <3>4, <3>5, <3>6 DEF AsksRight
  <2>8. QED
    BY <2>1, <2>5, <2>6, <2>7 DEF Fits
<1>4. QED
  BY <1>2, <1>3

---------------------------------------------------------------------------
(* How a call ends                                                         *)

(* What is said of the end of a call that is answered by r.                *)
Faithful(r, rejects, spec, end) ==
    LET fails == rejects \/ "error" \in DOMAIN r.fields IN
    /\ end.at = "resolved" => ~ fails /\ end.value \in {J!Field(r, "result"), J!Field(r, "value")}
    /\ fails /\ r.revert /\ ~ spec => end.at # "rejected" \/ end.class = "ContractExecutionError"

(* An end is a record of three shapes.                                     *)
IsEnd(end) == \/ end = J!Open
              \/ \E v : end = J!Resolved(v)
              \/ \E c : end = J!Rejected(c)

LEMMA FaithfulEnds ==
    ASSUME NEW r, NEW rejects, NEW spec
    PROVE  /\ Faithful(r, rejects, spec, J!Open)
           /\ \A c : (r.revert /\ ~ spec => c = "ContractExecutionError")
                     => Faithful(r, rejects, spec, J!Rejected(c))
           /\ \A v : ~ rejects /\ "error" \notin DOMAIN r.fields
                      /\ v \in {J!Field(r, "result"), J!Field(r, "value")}
                     => Faithful(r, rejects, spec, J!Resolved(v))
<1>1. J!Open.at = "open"
  BY DEF J!Open
<1>2. \A c : J!Rejected(c).at = "rejected" /\ J!Rejected(c).class = c
  BY DEF J!Rejected
<1>3. \A v : J!Resolved(v).at = "resolved" /\ J!Resolved(v).value = v
  BY DEF J!Resolved
<1>4. QED
  BY <1>1, <1>2, <1>3 DEF Faithful

(* What is built of a value that is no answer of JSON-RPC.                 *)
LEMMA BuiltIs ==
    ASSUME NEW r, NEW v, v = IF r.shape = "nullish" THEN J!NullDatum ELSE J!Field(r, "value")
    PROVE  /\ ~ J!IsThrow(J!Built(r, FALSE)) /\ ~ J!IsThrow(J!Built(r, TRUE))
           /\ J!Sent(J!Built(r, TRUE)) = J!Rejected("ResponseError")
           /\ J!Sent(J!Built(r, FALSE)) = J!Resolved(v)
<1> DEFINE good == [jsonrpc |-> J!Version, id |-> 1, result |-> v]
           bad  == [jsonrpc |-> J!Version, id |-> 1, error |-> v]
<1>1. /\ DOMAIN good = {"jsonrpc", "id", "result"}
      /\ good["jsonrpc"] = J!Version /\ good["id"] = 1 /\ good["result"] = v
  OBVIOUS
<1>2. "result" \notin DOMAIN bad
  OBVIOUS
<1>3. J!Built(r, FALSE) = J!Answer("object", good, r.revert)
  BY DEF J!Built
<1>4. J!Built(r, TRUE) = J!Answer("object", bad, r.revert)
  BY DEF J!Built
<1> HIDE DEF good, bad
<1>5. \A fields : /\ ~ J!IsThrow(J!Answer("object", fields, r.revert))
                  /\ J!Answer("object", fields, r.revert).shape = "object"
                  /\ J!Answer("object", fields, r.revert).fields = fields
  BY DEF J!Answer, J!IsThrow
<1>6. ~ J!IsResponseWithResult(J!Built(r, TRUE))
  BY <1>2, <1>4, <1>5 DEF J!IsResponseWithResult
<1>7. J!IsResponseWithResult(J!Built(r, FALSE)) /\ J!Built(r, FALSE).fields["result"] = v
  <2>1. J!Built(r, FALSE).shape = "object" /\ J!Built(r, FALSE).fields = good
    BY <1>3, <1>5
  <2>2. /\ J!Field(J!Built(r, FALSE), "jsonrpc") = J!Version
        /\ J!Field(J!Built(r, FALSE), "error") = J!NullDatum
        /\ J!Field(J!Built(r, FALSE), "id") = 1
    BY <1>1, <2>1 DEF J!Field
  <2>3. QED
    BY <1>1, <2>1, <2>2 DEF J!IsResponseWithResult, J!Ids
<1>8. QED
  BY <1>3, <1>4, <1>5, <1>6, <1>7 DEF J!Sent

LEMMA SentIsEnd == \A r : IsEnd(J!Sent(r))
BY DEF J!Sent, IsEnd

LEMMA EndsAreEnds ==
    ASSUME NEW kind, NEW r, NEW rejects, NEW way, NEW spec
    PROVE  IsEnd(J!EndsFor(kind, r, rejects, way, spec))
<1>1. \A x : IsEnd(J!Settle(x))
  BY SentIsEnd DEF J!Settle, IsEnd
<1>2. \A x, w, e : IsEnd(J!InCallback(x, w, e))
  BY SentIsEnd DEF J!InCallback, IsEnd
<1>3. QED
  BY <1>1, <1>2 DEF J!EndsFor

(* A result is passed on as it is.                                         *)
LEMMA ResultsEnd ==
    ASSUME NEW r \in Results, NEW kind, NEW way, NEW spec
    PROVE  Faithful(r, FALSE, spec, J!EndsFor(kind, r, FALSE, way, spec))
<1>1. PICK v \in {Value, J!NullDatum} : r = Envelope([result |-> v], FALSE)
  BY DEF Results
<1>2. /\ r.shape = "object" /\ r.revert = FALSE
      /\ r.fields = Joined([jsonrpc |-> J!Version, id |-> 1], [result |-> v])
  BY <1>1 DEF Envelope, J!Answer
<1>3. /\ DOMAIN r.fields = {"jsonrpc", "id", "result"}
      /\ r.fields["jsonrpc"] = J!Version /\ r.fields["id"] = 1 /\ r.fields["result"] = v
  BY <1>2 DEF Joined
<1>4. J!IsResponseWithResult(r)
  BY <1>2, <1>3 DEF J!IsResponseWithResult, J!Field, J!Ids
<1>5. ~ J!IsResponseWithError(r) /\ ~ J!Nullish(r)
  BY <1>2, <1>3 DEF J!IsResponseWithError, J!Nullish
<1>6. \A legacy, error : J!Process(FALSE, r, legacy, error, spec) = r
  BY <1>4, <1>5 DEF J!Process
<1>7. ~ J!IsThrow(r)
  BY <1>1 DEF J!IsThrow, Envelope, J!Answer
<1>8. J!Chained(FALSE, r, FALSE, spec) = r
  BY <1>6, <1>7 DEF J!Chained
<1>9. J!Sent(r) = J!Resolved(v)
  BY <1>3, <1>4 DEF J!Sent
<1>10. J!EndsFor(kind, r, FALSE, way, spec) = J!Resolved(v)
  BY <1>5, <1>6, <1>7, <1>8, <1>9 DEF J!EndsFor, J!Settle, J!InCallback
<1>11. J!Field(r, "result") = v
  BY <1>3 DEF J!Field
<1>12. QED
  BY <1>3, <1>10, <1>11, FaithfulEnds

(* What is thrown for an error, whatever the way it comes.                 *)
ThrownFor(r, spec) == IF r.shape = "Error"
                      THEN IF r.revert THEN "ContractExecutionError" ELSE J!Field(r, "class")
                      ELSE J!ErrorOf(r, spec)
RevertTold(r, spec) == r.revert /\ ~ spec => ThrownFor(r, spec) = "ContractExecutionError"

Throws(r, spec) ==
    /\ \A legacy, error : J!Process(FALSE, r, legacy, error, spec) = J!Thrown(ThrownFor(r, spec))
    /\ ~ J!Nullish(r)
    /\ RevertTold(r, spec)

LEMMA EnvelopesThrow ==
    ASSUME NEW code, NEW revert, NEW spec
    PROVE  Throws(Envelope([error |-> code], revert), spec)
<1> DEFINE r == Envelope([error |-> code], revert)
<1>1. /\ r.shape = "object" /\ r.revert = revert
      /\ r.fields = Joined([jsonrpc |-> J!Version, id |-> 1], [error |-> code])
  BY DEF Envelope, J!Answer
<1> HIDE DEF r
<1>2. /\ DOMAIN r.fields = {"jsonrpc", "id", "error"}
      /\ r.fields["jsonrpc"] = J!Version /\ r.fields["id"] = 1 /\ r.fields["error"] = code
  BY <1>1 DEF Joined
<1>3. J!IsResponseWithError(r) /\ ~ J!Nullish(r)
  BY <1>1, <1>2 DEF J!IsResponseWithError, J!Field, J!Ids, J!Nullish
<1>4. ThrownFor(r, spec) = J!ErrorOf(r, spec)
  BY <1>1 DEF ThrownFor
<1>5. r.revert /\ ~ spec => J!ErrorOf(r, spec) = "ContractExecutionError"
  BY DEF J!ErrorOf
<1>6. \A legacy, error : J!Process(FALSE, r, legacy, error, spec) = J!Thrown(ThrownFor(r, spec))
  BY <1>3, <1>4 DEF J!Process
<1>7. Throws(r, spec)
  BY <1>3, <1>4, <1>5, <1>6 DEF RevertTold, Throws
<1>8. QED
  BY <1>7 DEF r

LEMMA InstancesThrow ==
    ASSUME NEW revert \in BOOLEAN, NEW spec
    PROVE  Throws(J!ErrorInstance("Error", revert), spec)
<1> DEFINE r == J!ErrorInstance("Error", revert)
<1>1. r.shape = "Error" /\ r.revert = revert
  BY DEF J!ErrorInstance, J!Answer
<1> HIDE DEF r
<1>2. ~ J!IsResponseWithError(r) /\ ~ J!IsResponseWithResult(r) /\ ~ J!Nullish(r)
  BY <1>1 DEF J!IsResponseWithError, J!IsResponseWithResult, J!Nullish
<1>3. \A legacy, error : J!Process(FALSE, r, legacy, error, spec) = J!Thrown(ThrownFor(r, spec))
  BY <1>1, <1>2 DEF J!Process, ThrownFor
<1>4. RevertTold(r, spec)
  BY <1>1 DEF ThrownFor, RevertTold
<1>5. Throws(r, spec)
  BY <1>2, <1>3, <1>4 DEF Throws
<1>6. QED
  BY <1>5 DEF r

LEMMA ErrorsThrow ==
    ASSUME NEW r \in ErrorEnvelopes \cup Errors, NEW spec
    PROVE  Throws(r, spec)
<1>1. CASE r \in ErrorEnvelopes
  <2>1. PICK code \in {3, -32000}, revert \in BOOLEAN : r = Envelope([error |-> code], revert)
    BY <1>1 DEF ErrorEnvelopes
  <2>2. Throws(Envelope([error |-> code], revert), spec)
    BY EnvelopesThrow
  <2>3. QED
    BY <2>1, <2>2
<1>2. CASE r \in Errors
  BY <1>2, InstancesThrow DEF Errors
<1>3. QED
  BY <1>1, <1>2

LEMMA ErrorsEnd ==
    ASSUME NEW r \in ErrorEnvelopes \cup Errors, NEW kind, NEW rejects \in BOOLEAN, NEW way, NEW spec
    PROVE  Faithful(r, rejects, spec, J!EndsFor(kind, r, rejects, way, spec))
<1> DEFINE class == ThrownFor(r, spec)
<1>1. /\ \A legacy, error : J!Process(FALSE, r, legacy, error, spec) = J!Thrown(class)
      /\ ~ J!Nullish(r)
      /\ r.revert /\ ~ spec => class = "ContractExecutionError"
  BY ErrorsThrow DEF Throws, RevertTold
<1> HIDE DEF class
<1>2. J!IsThrow(J!Thrown(class)) /\ J!Thrown(class).throws = class
  BY DEF J!IsThrow, J!Thrown
<1>3. J!Process(FALSE, J!ErrorInstance(class, FALSE), TRUE, TRUE, spec) = J!Thrown(class)
  <2> DEFINE e == J!ErrorInstance(class, FALSE)
  <2>1. /\ e.shape = "Error" /\ e.revert = FALSE
        /\ DOMAIN e.fields = {"class"} /\ e.fields["class"] = class
    BY DEF J!ErrorInstance, J!Answer
  <2> HIDE DEF e
  <2>2. ~ J!IsResponseWithError(e) /\ ~ J!IsResponseWithResult(e) /\ ~ J!Nullish(e)
    BY <2>1 DEF J!IsResponseWithError, J!IsResponseWithResult, J!Nullish
  <2>3. J!Field(e, "class") = class
    BY <2>1 DEF J!Field
  <2>4. J!Process(FALSE, e, TRUE, TRUE, spec) = J!Thrown(class)
    BY <2>1, <2>2, <2>3 DEF J!Process
  <2>5. QED
    BY <2>4 DEF e
<1>4. J!Chained(FALSE, r, rejects, spec) = J!Thrown(class)
  BY <1>1, <1>2, <1>3 DEF J!Chained
<1>5. J!EndsFor(kind, r, rejects, way, spec) \in {J!Open, J!Rejected(class)}
  BY <1>1, <1>2, <1>4 DEF J!EndsFor, J!Settle, J!InCallback
<1>6. QED
  BY <1>1, <1>5, FaithfulEnds

(* What is not JSON-RPC is made a result or an error by the way it comes.  *)
LEMMA OthersEnd ==
    ASSUME NEW r \in Objects \cup Bare, NEW kind, kind # "web3",
           NEW rejects \in BOOLEAN, NEW way, NEW spec
    PROVE  Faithful(r, rejects, spec, J!EndsFor(kind, r, rejects, way, spec))
<1>1. /\ r.shape \in {"object", "bare"} /\ r.revert = FALSE
      /\ DOMAIN r.fields = {"value"} /\ r.fields["value"] = Value
  BY DEF Objects, Bare, J!Answer
<1>2. ~ J!IsResponseWithError(r) /\ ~ J!IsResponseWithResult(r) /\ ~ J!Nullish(r)
  BY <1>1 DEF J!IsResponseWithError, J!IsResponseWithResult, J!Nullish
<1>3. J!Field(r, "value") = Value
  BY <1>1 DEF J!Field
<1>4. \A error \in BOOLEAN : J!Process(FALSE, r, TRUE, error, spec) = J!Built(r, error)
  BY <1>1, <1>2 DEF J!Process
<1>5. /\ ~ J!IsThrow(J!Built(r, FALSE)) /\ ~ J!IsThrow(J!Built(r, TRUE))
      /\ J!Sent(J!Built(r, TRUE)) = J!Rejected("ResponseError")
      /\ J!Sent(J!Built(r, FALSE)) = J!Resolved(Value)
  BY <1>1, <1>3, BuiltIs
<1>6. J!Chained(FALSE, r, rejects, spec) = J!Built(r, rejects)
  BY <1>4, <1>5 DEF J!Chained
<1>7. CASE rejects
  <2>1. J!EndsFor(kind, r, rejects, way, spec)
          \in {J!Open, J!Rejected("ResponseError"), J!Rejected("theAnswer")}
    BY <1>2, <1>4, <1>5, <1>6, <1>7 DEF J!EndsFor, J!Settle, J!InCallback
  <2>2. QED
    BY <1>1, <2>1, FaithfulEnds
<1>8. CASE ~ rejects
  <2>1. J!EndsFor(kind, r, rejects, way, spec) = J!Resolved(Value)
    BY <1>2, <1>4, <1>5, <1>6, <1>8 DEF J!EndsFor, J!Settle, J!InCallback
  <2>2. QED
    BY <1>1, <1>3, <1>8, <2>1, FaithfulEnds
<1>9. QED
  BY <1>7, <1>8

LEMMA NothingEnds ==
    ASSUME NEW r \in Nothing, NEW kind, NEW way, NEW spec
    PROVE  Faithful(r, FALSE, spec, J!EndsFor(kind, r, FALSE, way, spec))
<1>1. r.shape = "nullish" /\ r.revert = FALSE /\ r.fields = <<>>
  BY DEF Nothing, J!Answer
<1>2. DOMAIN r.fields = {} /\ J!Nullish(r) /\ J!Field(r, "value") = J!NullDatum
  BY <1>1 DEF J!Nullish, J!Field
<1>3. \A legacy : J!Process(FALSE, r, legacy, FALSE, spec) = J!Built(r, FALSE)
  BY <1>2 DEF J!Process
<1>5. /\ ~ J!IsThrow(J!Built(r, FALSE))
      /\ J!Sent(J!Built(r, FALSE)) = J!Resolved(J!NullDatum)
  BY <1>1, BuiltIs
<1>8. J!Chained(FALSE, r, FALSE, spec) = J!Built(r, FALSE)
  BY <1>3, <1>5 DEF J!Chained
<1>9. J!IsThrow(J!Thrown("ResponseError")) /\ J!Thrown("ResponseError").throws = "ResponseError"
  BY DEF J!IsThrow, J!Thrown
<1>10. J!EndsFor(kind, r, FALSE, way, spec)
         \in {J!Open, J!Rejected("ResponseError"), J!Resolved(J!NullDatum)}
  BY <1>2, <1>3, <1>5, <1>8, <1>9 DEF J!EndsFor, J!Settle, J!InCallback
<1>11. QED
  BY <1>1, <1>2, <1>10, FaithfulEnds

LEMMA MalformedEnd ==
    ASSUME NEW r \in Malformed, NEW way, NEW spec
    PROVE  Faithful(r, FALSE, spec, J!EndsFor("web3", r, FALSE, way, spec))
<1>1. r.revert = FALSE /\ r.shape \in {"array", "object"}
  BY DEF Malformed, J!Answer
<1>2. "result" \notin DOMAIN r.fields /\ "error" \notin DOMAIN r.fields
  <2>1. CASE r = J!Answer("array", <<>>, FALSE)
    BY <2>1 DEF J!Answer
  <2>2. CASE r = J!Answer("object", [jsonrpc |-> J!Version], FALSE)
    BY <2>2 DEF J!Answer
  <2>3. QED
    BY <2>1, <2>2 DEF Malformed
<1>3. ~ J!IsResponseWithError(r) /\ ~ J!IsResponseWithResult(r) /\ ~ J!Nullish(r)
  BY <1>1, <1>2 DEF J!IsResponseWithError, J!IsResponseWithResult, J!Nullish
<1>4. J!Process(FALSE, r, FALSE, FALSE, spec) = J!Thrown("ResponseError")
  BY <1>1, <1>3 DEF J!Process
<1>5. J!EndsFor("web3", r, FALSE, way, spec) = J!Rejected("ResponseError")
  <2>1. J!EndsFor("web3", r, FALSE, way, spec) = J!Settle(J!Process(FALSE, r, FALSE, FALSE, spec))
    BY DEF J!EndsFor
  <2>2. J!IsThrow(J!Thrown("ResponseError")) /\ J!Thrown("ResponseError").throws = "ResponseError"
    BY DEF J!IsThrow, J!Thrown
  <2>3. QED
    BY <1>4, <2>1, <2>2 DEF J!Settle
<1>6. QED
  BY <1>1, <1>5, FaithfulEnds

LEMMA AnswersEnd ==
    ASSUME NEW kind, NEW r, NEW rejects \in BOOLEAN, NEW way, NEW spec,
           r \in IF rejects THEN Rejecting(kind) ELSE Resolving(kind)
    PROVE  Faithful(r, rejects, spec, J!EndsFor(kind, r, rejects, way, spec))
<1>1. CASE rejects
  <2>1. r \in ErrorEnvelopes \cup Errors \/ (kind # "web3" /\ r \in Objects)
    BY <1>1 DEF Rejecting
  <2>2. QED
    BY <2>1, ErrorsEnd, OthersEnd
<1>2. CASE ~ rejects
  <2>1. \/ r \in Results \cup ErrorEnvelopes \cup Nothing
        \/ kind = "web3" /\ r \in Malformed
        \/ kind # "web3" /\ r \in Bare
    BY <1>2 DEF Resolving
  <2>2. rejects = FALSE
    BY <1>2
  <2>3. QED
    BY <2>1, <2>2, ResultsEnd, ErrorsEnd, OthersEnd, NothingEnds, MalformedEnd
<1>3. QED
  BY <1>1, <1>2

---------------------------------------------------------------------------
(* The calls of Requests                                                   *)

(* The inductive invariant.  A default block is always one that is not a   *)
(* hash, so that the methods that want a number can be asked about it; and *)
(* a call keeps what it was asked and what it is asked for.                *)
Asked == {"name", "args", "default", "request"}
KeepsWhatWasAsked == Made => Asked \subseteq DOMAIN call

RequestsInv ==
    /\ defaultBlock \in GoodBlocks
    /\ KeepsWhatWasAsked
    /\ AsksForItsBlock
    /\ AnsweredFaithfully

(* The two invariants of a call, of the call alone.                        *)
LEMMA AsksIs ==
    ASSUME Made
    PROVE  AsksForItsBlock <=> AsksRight(call.name, call.args, call.default, call.request)
BY DEF AsksForItsBlock, AsksRight, Right

LEMMA JoinedFields ==
    ASSUME NEW f, NEW g
    PROVE  /\ DOMAIN Joined(f, g) = DOMAIN f \cup DOMAIN g
           /\ \A x \in DOMAIN f : Joined(f, g)[x] = f[x]
           /\ \A x \in DOMAIN g \ DOMAIN f : Joined(f, g)[x] = g[x]
BY DEF Joined

LEMMA CallKeeps ==
    ASSUME RequestsInv, NEW name \in DOMAIN Methods, NEW args \in ArgsOf(name), Call(name, args)
    PROVE  RequestsInv'
<1> DEFINE request == RequestOf(name, args, defaultBlock)
           asked == [name |-> name, args |-> args, default |-> defaultBlock, request |-> request]
<1>1. AsksRight(name, args, defaultBlock, request)
  BY MethodAsks DEF RequestsInv
<1>2. /\ DOMAIN asked = Asked
      /\ asked["name"] = name /\ asked["args"] = args
      /\ asked["default"] = defaultBlock /\ asked["request"] = request
  BY DEF Asked
<1> HIDE DEF asked
<1>3. /\ "answer" \notin DOMAIN call' /\ Asked \subseteq DOMAIN call'
      /\ call'["name"] = name /\ call'["args"] = args
      /\ call'["default"] = defaultBlock /\ call'["request"] = request
  <2>1. \/ \E class : call' = Joined(asked, J!Rejected(class))
        \/ call' = Joined([at |-> "waiting", kind |-> J!Kind(current), id |-> J!NextId(seed)], asked)
    BY DEF Call, asked
  <2>2. CASE \E class : call' = Joined(asked, J!Rejected(class))
    <3>1. PICK class : call' = Joined(asked, J!Rejected(class))
      BY <2>2
    <3> DEFINE end == J!Rejected(class)
    <3>2. DOMAIN end = {"at", "class"} /\ call' = Joined(asked, end)
      BY <3>1 DEF J!Rejected
    <3> HIDE DEF end
    <3>3. DOMAIN call' = Asked \cup {"at", "class"} /\ \A x \in Asked : call'[x] = asked[x]
      BY <1>2, <3>2, JoinedFields
    <3>4. QED
      BY <1>2, <3>3 DEF Asked
  <2>3. CASE call' = Joined([at |-> "waiting", kind |-> J!Kind(current), id |-> J!NextId(seed)], asked)
    <3> DEFINE sent == [at |-> "waiting", kind |-> J!Kind(current), id |-> J!NextId(seed)]
    <3>1. DOMAIN sent = {"at", "kind", "id"}
      OBVIOUS
    <3>2. call' = Joined(sent, asked)
      BY <2>3
    <3> HIDE DEF sent
    <3>3. /\ DOMAIN Joined(sent, asked) = DOMAIN sent \cup DOMAIN asked
          /\ \A x \in DOMAIN asked \ DOMAIN sent : Joined(sent, asked)[x] = asked[x]
      BY JoinedFields
    <3>4. \A x \in Asked : x \in DOMAIN asked \ DOMAIN sent
      BY <1>2, <3>1 DEF Asked
    <3>5. \A x \in Asked : call'[x] = asked[x]
      BY <3>2, <3>3, <3>4
    <3>6. DOMAIN call' = Asked \cup {"at", "kind", "id"}
      BY <1>2, <3>1, <3>2, <3>3
    <3>7. QED
      BY <1>2, <3>5, <3>6 DEF Asked
  <2>4. QED
    BY <2>1, <2>2, <2>3
<1>4. AnsweredFaithfully'
  BY <1>3 DEF AnsweredFaithfully
<1>5. AsksForItsBlock'
  <2>1. AsksRight(call'["name"], call'["args"], call'["default"], call'["request"])
    BY <1>1, <1>3
  <2>2. QED
    BY <2>1 DEF AsksForItsBlock, AsksRight, Right
<1>6. defaultBlock' \in GoodBlocks
  BY DEF Call, RequestsInv
<1>7. QED
  BY <1>3, <1>4, <1>5, <1>6 DEF RequestsInv, KeepsWhatWasAsked

LEMMA AnswerKeeps ==
    ASSUME RequestsInv, NEW rejects \in BOOLEAN,
           NEW r \in IF rejects THEN Rejecting(call.kind) ELSE Resolving(call.kind),
           NEW way, Answered(r, rejects, way)
    PROVE  RequestsInv'
<1> DEFINE end == J!EndsFor(call.kind, r, rejects, way, specification)
           fin == Finished(call.name, end)
           told == [answer |-> r, rejects |-> rejects]
<1>1. Faithful(r, rejects, specification, end)
  BY AnswersEnd
<1>2. IsEnd(end) /\ IsEnd(fin)
  BY EndsAreEnds DEF Finished, IsEnd
<1>3. /\ call' = Joined(told, Joined(fin, call))
      /\ specification' = specification /\ defaultBlock' = defaultBlock
      /\ call.at = "waiting"
  BY DEF Answered
<1>4. DOMAIN told = {"answer", "rejects"} /\ told["answer"] = r /\ told["rejects"] = rejects
  OBVIOUS
<1>5. \/ fin = end
      \/ end.at = "resolved" /\ (fin = J!Resolved(EmptyList) \/ \E c : fin = J!Rejected(c))
  BY DEF Finished
<1>6. J!Open.at = "open"
  BY DEF J!Open
<1>7. \A c : J!Rejected(c).at = "rejected" /\ DOMAIN J!Rejected(c) = {"at", "class"}
  BY DEF J!Rejected
<1>8. \A v : /\ J!Resolved(v).at = "resolved" /\ J!Resolved(v).value = v
             /\ DOMAIN J!Resolved(v) = {"at", "value"}
  BY DEF J!Resolved
<1> HIDE DEF end, fin, told
<1>9. Made /\ Asked \subseteq DOMAIN call
  BY <1>3 DEF RequestsInv, KeepsWhatWasAsked, Made, NoCall
<1>10. /\ "at" \in DOMAIN fin
       /\ DOMAIN fin \subseteq {"at", "value", "class"}
       /\ fin.at = "resolved" => "value" \in DOMAIN fin
       /\ fin.at = "rejected" => "class" \in DOMAIN fin
  <2>1. DOMAIN J!Open = {"at"}
    BY DEF J!Open
  <2>2. QED
    BY <1>2, <1>6, <1>7, <1>8, <2>1 DEF IsEnd
<1>11. /\ DOMAIN call' = DOMAIN told \cup (DOMAIN fin \cup DOMAIN call)
       /\ \A x \in DOMAIN told : call'[x] = told[x]
       /\ \A x \in DOMAIN fin \ DOMAIN told : call'[x] = fin[x]
       /\ \A x \in DOMAIN call \ (DOMAIN fin \cup DOMAIN told) : call'[x] = call[x]
  <2> DEFINE kept == Joined(fin, call)
  <2>1. /\ DOMAIN kept = DOMAIN fin \cup DOMAIN call
        /\ \A x \in DOMAIN fin : kept[x] = fin[x]
        /\ \A x \in DOMAIN call \ DOMAIN fin : kept[x] = call[x]
    BY JoinedFields
  <2> HIDE DEF kept
  <2>2. /\ DOMAIN call' = DOMAIN told \cup DOMAIN kept
        /\ \A x \in DOMAIN told : call'[x] = told[x]
        /\ \A x \in DOMAIN kept \ DOMAIN told : call'[x] = kept[x]
    <3>1. call' = Joined(told, kept)
      BY <1>3 DEF kept
    <3>2. /\ DOMAIN Joined(told, kept) = DOMAIN told \cup DOMAIN kept
          /\ \A x \in DOMAIN told : Joined(told, kept)[x] = told[x]
          /\ \A x \in DOMAIN kept \ DOMAIN told : Joined(told, kept)[x] = kept[x]
      BY JoinedFields
    <3>3. QED
      BY <3>1, <3>2
  <2>3. \A x \in DOMAIN fin \ DOMAIN told : call'[x] = fin[x]
    BY <2>1, <2>2
  <2>4. \A x \in DOMAIN call \ (DOMAIN fin \cup DOMAIN told) :
             x \in DOMAIN kept \ DOMAIN told /\ kept[x] = call[x]
    BY <2>1
  <2>5. \A x \in DOMAIN call \ (DOMAIN fin \cup DOMAIN told) : call'[x] = call[x]
    BY <2>2, <2>4
  <2>6. DOMAIN call' = DOMAIN told \cup (DOMAIN fin \cup DOMAIN call)
    BY <2>1, <2>2
  <2>7. QED
    BY <2>2, <2>3, <2>5, <2>6
<1>12. "answer" \in DOMAIN call' /\ call'["answer"] = r /\ call'["rejects"] = rejects
  BY <1>4, <1>11
<1>13. \A x \in DOMAIN fin : call'[x] = fin[x]
  BY <1>4, <1>10, <1>11
<1>14. Asked \subseteq DOMAIN call' /\ \A x \in Asked : call'[x] = call[x]
  <2>1. \A x \in Asked : x \in DOMAIN call /\ x \notin DOMAIN fin /\ x \notin DOMAIN told
    BY <1>4, <1>9, <1>10 DEF Asked
  <2>2. QED
    BY <1>11, <2>1
<1>15. AnsweredFaithfully'
  <2> DEFINE fails == rejects \/ "error" \in DOMAIN r.fields
  <2>1. /\ end.at = "resolved" => ~ fails /\ end.value \in {J!Field(r, "result"), J!Field(r, "value")}
        /\ fails /\ r.revert /\ ~ specification
             => end.at # "rejected" \/ end.class = "ContractExecutionError"
    BY <1>1 DEF Faithful
  <2>2. /\ fin.at = "resolved" =>
             ~ fails /\ fin.value \in {J!Field(r, "result"), J!Field(r, "value"), EmptyList}
        /\ fails /\ r.revert /\ ~ specification
             => fin.at # "rejected" \/ fin.class = "ContractExecutionError"
    <3>1. CASE fin = end
      BY <2>1, <3>1
    <3>2. CASE end.at = "resolved" /\ (fin = J!Resolved(EmptyList) \/ \E c : fin = J!Rejected(c))
      BY <1>7, <1>8, <2>1, <3>2
    <3>3. QED
      BY <1>5, <3>1, <3>2
  <2> HIDE DEF fails
  <2>3. call'["at"] = fin["at"]
    BY <1>10, <1>13
  <2>4. call'["at"] = "resolved" => call'["value"] = fin["value"]
    BY <1>10, <1>13, <2>3
  <2>5. call'["at"] = "rejected" => call'["class"] = fin["class"]
    BY <1>10, <1>13, <2>3
  <2>6. /\ call'["at"] = "resolved" =>
             ~ fails /\ call'["value"] \in {J!Field(r, "result"), J!Field(r, "value"), EmptyList}
        /\ fails /\ r.revert /\ ~ specification
             => call'["at"] # "rejected" \/ call'["class"] = "ContractExecutionError"
    BY <2>2, <2>3, <2>4, <2>5
  <2>7. QED
    BY <1>3, <1>12, <2>6 DEF AnsweredFaithfully, fails
<1>16. AsksForItsBlock'
  <2>1. AsksRight(call["name"], call["args"], call["default"], call["request"])
    BY <1>9, AsksIs DEF RequestsInv
  <2>2. AsksRight(call'["name"], call'["args"], call'["default"], call'["request"])
    BY <1>14, <2>1 DEF Asked
  <2>3. QED
    BY <2>2 DEF AsksForItsBlock, AsksRight, Right
<1>17. QED
  BY <1>3, <1>14, <1>15, <1>16 DEF RequestsInv, KeepsWhatWasAsked

(* The other steps leave the call alone.                                   *)
LEMMA SettingKeeps ==
    ASSUME RequestsInv, call' = call, specification' = specification, defaultBlock' \in GoodBlocks
    PROVE  RequestsInv'
BY DEF RequestsInv, KeepsWhatWasAsked, AsksForItsBlock, AnsweredFaithfully, Made

LEMMA RequestsInvHolds == ReqSpec => []RequestsInv
<1>1. ReqInit => RequestsInv
  BY DEF ReqInit, RequestsInv, KeepsWhatWasAsked, AsksForItsBlock, AnsweredFaithfully, Made, GoodBlocks
<1>2. RequestsInv /\ [ReqNext]_reqVars => RequestsInv'
  <2> SUFFICES ASSUME RequestsInv, [ReqNext]_reqVars
               PROVE  RequestsInv'
    OBVIOUS
  <2>1. ASSUME NEW name \in DOMAIN Methods, NEW args \in ArgsOf(name), Call(name, args)
        PROVE  RequestsInv'
    BY <2>1, CallKeeps
  <2>2. ASSUME NEW way, NEW r \in Resolving(call.kind), Answered(r, FALSE, way)
        PROVE  RequestsInv'
    BY <2>2, AnswerKeeps
  <2>3. ASSUME NEW way, NEW r \in Rejecting(call.kind), Answered(r, TRUE, way)
        PROVE  RequestsInv'
    BY <2>3, AnswerKeeps
  <2>4. ASSUME NEW b \in NumbersAndTags, SetDefaultBlock(b)
        PROVE  RequestsInv'
    BY <2>4, SettingKeeps DEF SetDefaultBlock, GoodBlocks
  <2>5. ASSUME NEW p \in Providers, SetCurrentProvider(p)
        PROVE  RequestsInv'
    BY <2>5, SettingKeeps DEF SetCurrentProvider, RequestsInv
  <2>6. CASE UNCHANGED reqVars
    BY <2>6, SettingKeeps DEF reqVars, RequestsInv
  <2>7. QED
    BY <2>1, <2>2, <2>3, <2>4, <2>5, <2>6 DEF ReqNext
<1>3. QED
  BY <1>1, <1>2, PTL DEF ReqSpec

(* Every method of the library, called with arguments of its types, is     *)
(* asked of the node in a form that the node's interface accepts, and      *)
(* about the block the caller named or the default block of that moment:   *)
(* the three layers of web3_eth.ts, rpc_method_wrappers.ts and             *)
(* eth_rpc_methods.ts fit, whatever blocks there are and whatever the      *)
(* program sets meanwhile.                                                 *)
THEOREM BlocksAreAskedFor == ReqSpec => []AsksForItsBlock
<1>1. RequestsInv => AsksForItsBlock
  BY DEF RequestsInv
<1>2. QED
  BY <1>1, RequestsInvHolds, PTL

(* A call resolves only with what the provider gave as a result: an error, *)
(* in whatever form a provider of any kind gives it, never passes for one, *)
(* and a revert is told as one (web3_request_manager.ts).                  *)
THEOREM AnswersAreFaithful == ReqSpec => []AnsweredFaithfully
<1>1. RequestsInv => AnsweredFaithfully
  BY DEF RequestsInv
<1>2. QED
  BY <1>1, RequestsInvHolds, PTL
==============================================================================
