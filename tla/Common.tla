-------------------------------- MODULE Common --------------------------------
(***************************************************************************)
(* The life of a Common (common/common.ts): made for a chain, told which   *)
(* hardfork and which EIPs are in force, listened to for changes of the    *)
(* hardfork, and copied, as every transaction copies the one it is given.  *)
(***************************************************************************)
EXTENDS Chains

CONSTANTS
    Commons,      \* the objects
    ChainNames,   \* chains they are made for or set to
    Hardforks,    \* hardforks asked for
    EipLists,     \* lists given to setEIPs()
    BlockNumbers, \* blocks given to setHardforkByBlockNumber()
    MaxCommonCalls

VARIABLES
    commons,      \* the objects made so far
    emitter,      \* the table of listeners each object uses, by the object it was made for
    listening,    \* the objects with a listener for hardforkChanged
    heard,        \* what the listener of each object knows the hardfork to be
    commonCalls

commonVars == <<commons, emitter, listening, heard, commonCalls>>

MadeCommons == DOMAIN commons
With(o, c)  == [p \in MadeCommons \cup {o} |-> IF p = o THEN c ELSE commons[p]]
Calls == commonCalls < MaxCommonCalls /\ commonCalls' = commonCalls + 1

---------------------------------------------------------------------------
(* The constructor *)

NamesOf(forks) == [i \in DOMAIN forks |-> forks[i].name]
Bare(chain) == [forks |-> Chains[chain], changes |-> NamesOf(Chains[chain]), hardfork |-> "merge",
                eips |-> <<>>]
Supports(c, hf) == hf \in ToSet(c.changes)
EipsAllowed(c, eips) == \A i \in DOMAIN eips : ~ EipRefused(c, eips, eips[i])

NewCommon(o, chain, hf, eips) ==
    LET c == [Bare(chain) EXCEPT !.hardfork = hf] IN
    /\ Calls
    /\ o \notin MadeCommons
    /\ Supports(c, hf) /\ EipsAllowed(c, eips)
    /\ commons' = With(o, [c EXCEPT !.eips = eips])
    /\ UNCHANGED <<emitter, listening, heard>>

---------------------------------------------------------------------------
(* Calls *)

\* hardforkChanged goes to the listeners of this object.
Tell(o, hf) ==
    heard' = [p \in Commons |-> IF p \in listening /\ emitter[p] = emitter[o] THEN hf ELSE heard[p]]

Listen(o) ==
    /\ Calls
    /\ listening' = listening \union {o}
    /\ heard' = [heard EXCEPT ![o] = commons[o].hardfork]
    /\ UNCHANGED <<commons, emitter>>

SetHardfork(o, hf) ==
    /\ Calls
    /\ Supports(commons[o], hf)
    /\ commons' = [commons EXCEPT ![o].hardfork = hf]
    /\ IF commons[o].hardfork = hf THEN UNCHANGED heard ELSE Tell(o, hf)
    /\ UNCHANGED <<emitter, listening>>

SetHardforkByBlockNumber(o, block) ==
    LET hf == HardforkByBlock(commons[o].forks, block, Unset, Unset) IN
    hf # Throws /\ SetHardfork(o, hf)

\* What was asked for is checked with the EIPs set before still active.
SetEIPs(o, eips) ==
    /\ Calls
    /\ EipsAllowed(commons[o], eips)
    /\ commons' = [commons EXCEPT ![o].eips = eips]
    /\ UNCHANGED <<emitter, listening, heard>>

\* setChain() leaves the hardfork, the EIPs and the names of the hardforks.
SetChain(o, chain) ==
    /\ Calls
    /\ commons' = [commons EXCEPT ![o].forks = Chains[chain]]
    /\ UNCHANGED <<emitter, listening, heard>>

\* copy(): the copy has the table of listeners of the original until
\* removeAllListeners() gives it one of its own.
FaultCopy(o, copy) ==
    /\ Calls
    /\ copy \notin MadeCommons
    /\ commons' = With(copy, commons[o])
    /\ emitter' = [emitter EXCEPT ![copy] = emitter[o]]
    /\ UNCHANGED <<listening, heard>>
Copy(o, copy) ==
    /\ Calls
    /\ copy \notin MadeCommons
    /\ commons' = With(copy, commons[o])
    /\ emitter' = [emitter EXCEPT ![copy] = copy]
    /\ UNCHANGED <<listening, heard>>

---------------------------------------------------------------------------

CommonInit ==
    /\ commons = <<>>
    /\ emitter = [o \in Commons |-> o]
    /\ listening = {}
    /\ heard = [o \in Commons |-> Unset]
    /\ commonCalls = 0

CommonNext ==
    \/ \E o \in Commons, chain \in ChainNames, hf \in Hardforks, eips \in EipLists :
          NewCommon(o, chain, hf, eips)
    \/ \E o \in MadeCommons :
          \/ Listen(o)
          \/ \E hf \in Hardforks : SetHardfork(o, hf)
          \/ \E block \in BlockNumbers : SetHardforkByBlockNumber(o, block)
          \/ \E eips \in EipLists : SetEIPs(o, eips)
          \/ \E chain \in ChainNames : SetChain(o, chain)
          \/ \E copy \in Commons \ {o} : Copy(o, copy)

CommonSpec == CommonInit /\ [][CommonNext]_commonVars

---------------------------------------------------------------------------

\* A listener always knows the hardfork of the object it listens to, and hears
\* of no other: not of the copies that transactions make of that object.
ListenersInformed ==
    \A o \in Commons : heard[o] = (IF o \in listening THEN commons[o].hardfork ELSE Unset)

==============================================================================
