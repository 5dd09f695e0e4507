-------------------------------- MODULE Chains --------------------------------
(***************************************************************************)
(* The chains web3-eth-accounts knows and what its Common answers about    *)
(* them (common/chains/*.ts, common/common.ts, common/utils.ts): which     *)
(* hardfork a block is under, which comes next, the hash of a fork, the    *)
(* EIPs that are active and the parameters in force.                       *)
(*                                                                         *)
(* A total difficulty is 0 below the terminal one of the chain and 1 from  *)
(* it on; the hash of a fork is known by its name.  What throws is Throws. *)
(***************************************************************************)
EXTENDS ForkParams, SequencesExt

Ors(value, other) == IF value # Unset THEN value ELSE other  \* value ?? other
FirstOf(S) == CHOOSE i \in S : \A j \in S : i <= j
LastOf(S) == CHOOSE i \in S : \A j \in S : i >= j

At(name, block, forkHash) ==
    [name |-> name, block |-> block, timestamp |-> Unset, ttd |-> Unset, forkHash |-> forkHash]
TheMerge(block, forkHash) == [At("merge", block, forkHash) EXCEPT !.ttd = 1]

mainnet ==
    << At("chainstart", 0, "fc64ec04"), At("homestead", 1150000, "97c2c34c"),
       At("dao", 1920000, "91d1f948"), At("tangerineWhistle", 2463000, "7a64da13"),
       At("spuriousDragon", 2675000, "3edd5b10"), At("byzantium", 4370000, "a00bc324"),
       At("constantinople", 7280000, "668db0af"), At("petersburg", 7280000, "668db0af"),
       At("istanbul", 9069000, "879d6e30"), At("muirGlacier", 9200000, "e029e991"),
       At("berlin", 12244000, "0eb440f6"), At("london", 12965000, "b715077d"),
       At("arrowGlacier", 13773000, "20c327fc"), At("grayGlacier", 15050000, "f0afd0e3"),
       TheMerge(15537394, "f0afd0e3"), At("mergeForkIdTransition", Unset, Unset),
       At("shanghai", Unset, Unset) >>

goerli ==
    << At("chainstart", 0, "a3f5ab08"), At("homestead", 0, "a3f5ab08"),
       At("tangerineWhistle", 0, "a3f5ab08"), At("spuriousDragon", 0, "a3f5ab08"),
       At("byzantium", 0, "a3f5ab08"), At("constantinople", 0, "a3f5ab08"),
       At("petersburg", 0, "a3f5ab08"), At("istanbul", 1561651, "c25efa5c"),
       At("berlin", 4460644, "757a1c47"), At("london", 5062605, "b8c6299d"),
       TheMerge(7382819, "b8c6299d"), At("mergeForkIdTransition", Unset, Unset),
       At("shanghai", Unset, Unset) >>

sepolia ==
    << At("chainstart", 0, "fe3366e7"), At("homestead", 0, "fe3366e7"),
       At("tangerineWhistle", 0, "fe3366e7"), At("spuriousDragon", 0, "fe3366e7"),
       At("byzantium", 0, "fe3366e7"), At("constantinople", 0, "fe3366e7"),
       At("petersburg", 0, "fe3366e7"), At("istanbul", 0, "fe3366e7"),
       At("muirGlacier", 0, "fe3366e7"), At("berlin", 0, "fe3366e7"), At("london", 0, "fe3366e7"),
       TheMerge(1450409, "fe3366e7"), At("mergeForkIdTransition", 1735371, "b96cbd13"),
       [At("shanghai", Unset, "f7f9bc08") EXCEPT !.timestamp = 1677557088] >>

Chains == [mainnet |-> mainnet, goerli |-> goerli, sepolia |-> sepolia]

Position(forks, name) ==
    LET at == {i \in DOMAIN forks : forks[i].name = name} IN IF at = {} THEN 0 ELSE LastOf(at)

\* Forks in the order in which they begin, the first with the chain: those with
\* a block, among them the merge with or without one, then those known by their
\* time alone.
Scheduled(forks) ==
    /\ Len(forks) > 0 /\ forks[1].block = 0
    /\ \A i \in DOMAIN forks :
          /\ {forks[i].block, forks[i].ttd, forks[i].timestamp} \subseteq Nat \cup {Unset}
          /\ forks[i].timestamp # Unset => forks[i].block = Unset /\ forks[i].ttd = Unset
    /\ \A i, j \in DOMAIN forks : i < j =>
          /\ forks[i].ttd = Unset \/ forks[j].ttd = Unset
          /\ (forks[i].block # Unset /\ forks[j].block # Unset) => forks[i].block <= forks[j].block
          /\ forks[i].timestamp # Unset =>
                /\ forks[j].block = Unset /\ forks[j].ttd = Unset
                /\ forks[j].timestamp # Unset => forks[i].timestamp <= forks[j].timestamp

---------------------------------------------------------------------------
(* Which hardfork *)

\* getHardforkByBlockNumber(), by the block and, where they are given, the
\* total difficulty and the time.
HardforkByBlock(forks, block, td, time) ==
    LET applied  == {i \in DOMAIN forks : \/ forks[i].block # Unset \/ forks[i].ttd # Unset
                                          \/ forks[i].timestamp # Unset}
        merges   == {i \in applied : forks[i].ttd # Unset}
        merge    == FirstOf(merges)
        after(i) == \/ forks[i].block # Unset /\ forks[i].block > block
                    \/ time # Unset /\ forks[i].timestamp # Unset /\ forks[i].timestamp > time
        begun    == {i \in applied : \A j \in applied : after(j) => i < j}
        \* without a time, forks known by theirs alone do not count
        dated    == {i \in begun : \/ time # Unset \/ forks[i].block # Unset
                                   \/ forks[i].ttd # Unset}
        last     == LastOf(dated)
        byTtd    == forks[last].block = Unset /\ forks[last].timestamp = Unset
        start    == IF byTtd /\ (td = Unset \/ forks[last].ttd > td)
                    THEN LastOf({i \in applied : i < last}) ELSE last
        wrongTd  == /\ ~ byTtd /\ merges # {} /\ td # Unset
                    /\ (start >= merge) # (forks[merge].ttd <= td)
        same(i)  == /\ forks[i].block = forks[start].block
                    /\ forks[i].timestamp = forks[start].timestamp
        found    == LastOf({i \in applied : i >= start /\ \A k \in applied \cap start..i : same(k)})
        timed    == time # Unset /\ time # 0
    IN
    IF (\E i \in merges : i # merge) \/ begun = {} \/ wrongTd THEN Throws
    ELSE IF timed /\ \E i \in applied : i < start /\ Ors(forks[i].timestamp, 0) > time THEN Throws
    ELSE IF timed /\ \E i \in applied : i > found /\ Ors(forks[i].timestamp, time) < time THEN Throws
    ELSE forks[found].name

HardforkGteHardfork(forks, hf1, hf2) ==
    Position(forks, hf1) >= Position(forks, hf2) /\ Position(forks, hf2) # 0

HardforkBlock(forks, hf) == IF Position(forks, hf) = 0 THEN Unset ELSE forks[Position(forks, hf)].block

\* Forks of the first block are never active by this function.
HardforkIsActiveOnBlock(forks, hf, block) ==
    LET hfBlock == HardforkBlock(forks, hf) IN
    hfBlock # Unset /\ hfBlock # 0 /\ block >= hfBlock
IsHardforkBlock(forks, block, hf) ==
    LET hfBlock == HardforkBlock(forks, hf) IN hfBlock # Unset /\ hfBlock # 0 /\ block = hfBlock

\* nextHardforkBlock(): the merge is no fork that peers see.
NextHardforkBlock(forks, hf) ==
    LET merge   == FirstOf({i \in DOMAIN forks : forks[i].ttd # Unset})
        own     == HardforkBlock(forks, hf)
        hfBlock == IF own = Unset /\ hf = "merge" THEN HardforkBlock(forks, forks[merge - 1].name)
                   ELSE own
        later   == {i \in DOMAIN forks : /\ forks[i].block # Unset /\ forks[i].ttd = Unset
                                         /\ forks[i].block > hfBlock}
    IN
    IF hfBlock = Unset \/ later = {} THEN Unset ELSE forks[FirstOf(later)].block
IsNextHardforkBlock(forks, block, hf) ==
    NextHardforkBlock(forks, hf) # Unset /\ NextHardforkBlock(forks, hf) = block

BlockOrTime(fork) == Ors(fork.timestamp, fork.block)
NextHardforkBlockOrTimestamp(forks, hf) ==
    LET at    == IF hf = "merge" THEN Position(forks, hf) - 1 ELSE Position(forks, hf)
        later == {i \in (at + 1)..Len(forks) : /\ forks[i].name # "merge"
                                               /\ BlockOrTime(forks[i]) # Unset
                                               /\ BlockOrTime(forks[i]) # BlockOrTime(forks[at])}
    IN
    IF at <= 0 \/ later = {} THEN Unset ELSE BlockOrTime(forks[FirstOf(later)])

---------------------------------------------------------------------------
(* Hashes of forks: what _calcForkHash() hashes after the genesis *)

CalcForkHash(forks, hf) ==
    LET counts(passed, fork) ==
            /\ BlockOrTime(fork) \notin {Unset, 0} /\ fork.name # "merge"
            /\ passed = <<>> \/ Last(passed) # BlockOrTime(fork)
    IN FoldLeft(LAMBDA passed, fork : IF counts(passed, fork)
                                      THEN Append(passed, BlockOrTime(fork)) ELSE passed,
                <<>>, SubSeq(forks, 1, Position(forks, hf)))

ForkHash(forks, hf) ==
    LET fork == forks[Position(forks, hf)] IN
    IF Position(forks, hf) = 0 THEN Throws
    ELSE IF fork.block = Unset /\ fork.timestamp = Unset /\ fork.ttd = Unset THEN Throws
    ELSE IF fork.forkHash # Unset THEN fork.forkHash
    ELSE CalcForkHash(forks, hf)

HardforkForForkHash(forks, forkHash) ==
    LET at == {i \in DOMAIN forks : forks[i].forkHash = forkHash} IN
    IF at = {} THEN Unset ELSE forks[LastOf(at)].name

SetForkHashes(forks) ==
    [i \in DOMAIN forks |->
        IF /\ forks[i].forkHash = Unset
           /\ BlockOrTime(forks[i]) # Unset \/ forks[i].ttd # Unset
        THEN [forks[i] EXCEPT !.forkHash = ForkHash(forks, forks[i].name)] ELSE forks[i]]

---------------------------------------------------------------------------
(* Chains read from a genesis file of geth *)

forkMap ==
    [homesteadBlock |-> "homestead", daoForkBlock |-> "dao", eip150Block |-> "tangerineWhistle",
     eip155Block |-> "spuriousDragon", byzantiumBlock |-> "byzantium",
     constantinopleBlock |-> "constantinople", petersburgBlock |-> "petersburg",
     istanbulBlock |-> "istanbul", muirGlacierBlock |-> "muirGlacier", berlinBlock |-> "berlin",
     londonBlock |-> "london", mergeForkBlock |-> "mergeForkIdTransition",
     shanghaiTime |-> "shanghai", shardingForkTime |-> "shardingFork"]
Timed == {"shanghaiTime", "shardingForkTime"}
PostMerge == {"mergeForkIdTransition", "shanghai", "shardingFork"}

\* A stable sort by a key, a function of the forks.
InsertSorted(sorted, fork, key) ==
    LET n == Cardinality({i \in DOMAIN sorted : key[sorted[i]] <= key[fork]}) IN
    InsertAt(sorted, n + 1, fork)
SortedBy(forks, key) ==
    FoldLeft(LAMBDA sorted, fork : InsertSorted(sorted, fork, key), <<>>, forks)

Infinity == 2147483647
\* parseGethParams(): by block, then by time, forks with a block at the time of
\* the genesis; the merge goes before the first fork that comes after it.
GethHardforks(config, genesisTimestamp, hasTtd) ==
    LET fork(entry) == IF entry.key \in Timed
                       THEN [At(forkMap[entry.key], Unset, Unset) EXCEPT !.timestamp = entry.value]
                       ELSE At(forkMap[entry.key], entry.value, Unset)
        listed      == [i \in DOMAIN config |-> fork(config[i])]
        byBlock     == SortedBy(listed, [hf \in Range(listed) |-> Ors(hf.block, Infinity)])
        timely      == SortedBy(byBlock,
                           [hf \in Range(listed) |-> Ors(hf.timestamp, genesisTimestamp)])
        post        == {i \in DOMAIN timely : timely[i].name \in PostMerge}
        merged      == IF ~ hasTtd THEN timely
                       ELSE InsertAt(timely, FirstOf(post \union {Len(timely) + 1}),
                                     TheMerge(Unset, Unset))
    IN
    <<At("chainstart", 0, Unset)>> \o merged

---------------------------------------------------------------------------
(* EIPs and parameters.  `c` is a Common: [forks, changes, hardfork, eips]; *)
(* `changes` are the names of the hardforks it had when it was made.        *)

SpecEips(hf) ==
    IF hf \in DOMAIN HARDFORK_SPECS /\ "eips" \in DOMAIN HARDFORK_SPECS[hf]
    THEN HARDFORK_SPECS[hf].eips ELSE <<>>

IsActivatedEIP(c, eip) ==
    \/ eip \in ToSet(c.eips)
    \/ \E hf \in ToSet(c.changes) :
          HardforkGteHardfork(c.forks, c.hardfork, hf) /\ eip \in ToSet(SpecEips(hf))

\* setEIPs() refuses the list for one of its EIPs.
EipRefused(c, eips, eip) ==
    \/ eip \notin DOMAIN EIPs
    \/ ~ HardforkGteHardfork(c.forks, c.hardfork, EIPs[eip].minimumHardfork)
    \/ \E required \in EIPs[eip].requiredEIPs :
          required \notin ToSet(eips) /\ ~ IsActivatedEIP(c, required)

ParamByEIP(topic, name, eip) ==
    IF eip \notin DOMAIN EIPs THEN Throws
    ELSE IF topic \notin DOMAIN EIPs[eip].params THEN Throws
    ELSE IF name \notin DOMAIN EIPs[eip].params[topic] THEN Unset
    ELSE IF EIPs[eip].params[topic][name] = Table THEN Throws
    ELSE EIPs[eip].params[topic][name]

\* One hardfork of paramByHardfork(): EIPs that say nothing leave the value.
FaultParamOfFork(topic, name, value, hf) ==
    IF value = Throws THEN Throws
    ELSE IF "eips" \in DOMAIN HARDFORK_SPECS[hf]
    THEN FoldLeft(LAMBDA v, eip : IF v = Throws THEN v ELSE ParamByEIP(topic, name, eip),
                  value, HARDFORK_SPECS[hf].eips)
    ELSE LET params == HARDFORK_SPECS[hf].params IN
         IF name \in DOMAIN params[topic] THEN params[topic][name] ELSE value
ParamOfFork(topic, name, value, hf) ==
    IF value = Throws \/ hf \notin DOMAIN HARDFORK_SPECS THEN Throws
    ELSE IF "eips" \in DOMAIN HARDFORK_SPECS[hf]
    THEN FoldLeft(LAMBDA v, eip : IF v = Throws THEN v ELSE Ors(ParamByEIP(topic, name, eip), v),
                  value, HARDFORK_SPECS[hf].eips)
    ELSE LET params == HARDFORK_SPECS[hf].params IN
         IF topic \notin DOMAIN params THEN Throws
         ELSE IF name \in DOMAIN params[topic] THEN params[topic][name]
         ELSE value

ParamByHardfork(c, topic, name, hf) ==
    LET last  == FirstOf({i \in DOMAIN c.changes : c.changes[i] = hf} \union {Len(c.changes)})
        value == FoldLeft(LAMBDA v, fork : ParamOfFork(topic, name, v, fork),
                          Unset, SubSeq(c.changes, 1, last))
    IN IF value = Table THEN Throws ELSE Ors(value, 0)

\* param(): the first of the EIPs set that knows the parameter.
Param(c, topic, name) ==
    LET known == {i \in DOMAIN c.eips : ParamByEIP(topic, name, c.eips[i]) # Unset} IN
    IF known # {} THEN ParamByEIP(topic, name, c.eips[FirstOf(known)])
    ELSE ParamByHardfork(c, topic, name, c.hardfork)

ParamByBlock(c, topic, name, block, td, time) ==
    LET hf == HardforkByBlock(c.forks, block, td, time) IN
    IF hf = Throws THEN Throws ELSE ParamByHardfork(c, topic, name, hf)

\* consensusType(): that of the last hardfork that has one, else the chain's.
ConsensusType(c, ofChain) ==
    IF \E i \in DOMAIN c.changes :
          /\ c.changes[i] = "merge"
          /\ i <= FirstOf({k \in DOMAIN c.changes : c.changes[k] = c.hardfork} \union {Len(c.changes)})
    THEN "pos" ELSE ofChain
==============================================================================
