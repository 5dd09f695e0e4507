----------------------------- MODULE ContextsProofs -----------------------------
(***************************************************************************)
(* Proofs about contexts and their configurations, for any contexts,       *)
(* providers and options, and about Ens, which is one of them, for any     *)
(* number of networks, resolvers, lookups and checks, and any answers of   *)
(* the node.                                                               *)
(***************************************************************************)
EXTENDS Configuration, Ens, TLAPS

---------------------------------------------------------------------------
(* Contexts *)

(* Why those that follow are in step: who follows two contexts is apart,   *)
(* so that no setter reaches a context which has to be like another one.   *)
Linkage ==
    /\ follows \subseteq MadeContexts \X MadeContexts
    /\ \A pair \in follows : pair[1] # pair[2]
    /\ \A c, d, e \in MadeContexts : <<c, d>> \in follows /\ <<c, e>> \in follows /\ d # e => c \in apart

Same ==
    \A c, d \in MadeContexts :
        <<c, d>> \in follows /\ c \notin apart /\ d \notin apart =>
            config[c] = config[d] /\ manager[c] = manager[d]

Agrees(cfg) ==
    LET common == cfg["defaultCommon"] IN
    common # Nothing =>
        /\ ~ Clash(cfg["defaultChain"], common.baseChain)
        /\ ~ Clash(cfg["defaultHardfork"], common.hardfork)

Sound == \A c \in MadeContexts \ apart : Agrees(config[c])

ConfigInv ==
    /\ DOMAIN manager = MadeContexts
    /\ Linkage
    /\ Same
    /\ Sound

LEMMA ConfigInitially == ConfigInit => ConfigInv
<1> SUFFICES ASSUME ConfigInit
             PROVE  ConfigInv
  OBVIOUS
<1>1. MadeContexts = {Root} /\ follows = {} /\ config[Root] = Defaults /\ DOMAIN manager = {Root}
  BY DEF ConfigInit, MadeContexts
<1>2. Defaults["defaultCommon"] = Nothing
  BY DEF Defaults, Options
<1>3. QED
  BY <1>1, <1>2 DEF ConfigInv, Linkage, Same, Sound, Agrees

LEMMA AcceptedAgrees ==
    ASSUME NEW cfg, NEW name, NEW value, NEW new, Agrees(cfg), ~ Refused(cfg, name, value),
           \A o \in {"defaultCommon", "defaultChain", "defaultHardfork"} :
               new[o] = IF name = o THEN value ELSE cfg[o]
    PROVE  Agrees(new)
<1>1. CASE name = "defaultCommon"
  BY <1>1 DEF Agrees, Refused, Clash
<1>2. CASE name = "defaultChain"
  BY <1>2 DEF Agrees, Refused, Clash
<1>3. CASE name = "defaultHardfork"
  BY <1>3 DEF Agrees, Refused, Clash
<1>4. CASE name \notin {"defaultCommon", "defaultChain", "defaultHardfork"}
  BY <1>4 DEF Agrees
<1>5. QED
  BY <1>1, <1>2, <1>3, <1>4

LEMMA SettingAgrees ==
    ASSUME NEW cfg, NEW name, NEW value, Agrees(cfg), ~ Refused(cfg, name, value)
    PROVE  Agrees(Assigned(Changes(name), value, cfg))
<1>1. \A o \in {"defaultCommon", "defaultChain", "defaultHardfork"} :
          Assigned(Changes(name), value, cfg)[o] = IF name = o THEN value ELSE cfg[o]
  BY DEF Assigned, Changes, Options
<1>2. QED
  BY <1>1, AcceptedAgrees

(* A setter: a follower that is like the context stays so, and whatever    *)
(* else the event reaches is apart.                                        *)
LEMMA SetOptionKeeps ==
    ASSUME ConfigInv, NEW c \in MadeContexts, NEW name, NEW value, SetOption(c, name, value)
    PROVE  ConfigInv'
<1> DEFINE Set == {c} \cup Followers(c)
           Others == MadeContexts \ Set
<1>1. /\ MadeContexts' = MadeContexts /\ follows' = follows /\ manager' = manager
      /\ apart' = apart \cup SetApart(c)
      /\ \A d \in Set \cap MadeContexts : config'[d] = Assigned(Changes(name), value, config[d])
      /\ \A d \in Others : config'[d] = config[d]
  BY DEF SetOption, MadeContexts
<1>2. Set \subseteq MadeContexts /\ c \in Set
  BY DEF Followers
<1>3. \A d \in Followers(c) : d \notin apart' => c \notin apart /\ config[d] = config[c]
  BY <1>1 DEF SetApart, Followers, ConfigInv, Same
<1>4. \A d \in Set : d \notin apart' => config'[d] = Assigned(Changes(name), value, config[c])
  BY <1>1, <1>2, <1>3
<1>5. Linkage'
  BY <1>1 DEF ConfigInv, Linkage
<1>6. ASSUME NEW d \in MadeContexts, NEW e \in MadeContexts,
             <<d, e>> \in follows, d \notin apart', e \notin apart'
      PROVE  config'[d] = config'[e]
  <2>1. config[d] = config[e]
    BY <1>1, <1>6 DEF ConfigInv, Same
  <2>2. d # c
    BY <1>1, <1>6 DEF SetApart
  <2>3. CASE e = c
    BY <1>4, <1>6, <2>3 DEF Followers
  <2>4. CASE e # c
    <3>1. d \notin Followers(c)
      BY <1>1, <1>6, <2>4 DEF Followers, ConfigInv, Linkage
    <3>2. e \notin Followers(c)
      BY <1>1, <1>6 DEF SetApart, Followers
    <3>3. QED
      BY <1>1, <2>1, <2>2, <2>4, <3>1, <3>2
  <2>5. QED
    BY <2>3, <2>4
<1>7. Same'
  BY <1>1, <1>6 DEF ConfigInv, Same
<1>8. ASSUME NEW d \in MadeContexts, d \notin apart'
      PROVE  Agrees(config'[d])
  <2>1. CASE d \in Set
    <3>1. c \notin apart
      BY <1>1, <1>3, <1>8, <2>1
    <3>2. Agrees(config[c]) /\ ~ Refused(config[c], name, value)
      BY <3>1 DEF ConfigInv, Sound, SetOption
    <3>3. QED
      BY <1>4, <1>8, <2>1, <3>2, SettingAgrees
  <2>2. CASE d \notin Set
    BY <1>1, <1>8, <2>2 DEF ConfigInv, Sound
  <2>3. QED
    BY <2>1, <2>2
<1>9. Sound'
  BY <1>1, <1>8 DEF Sound, Agrees
<1>10. QED
  BY <1>1, <1>5, <1>7, <1>9 DEF ConfigInv

LEMMA SetConfigKeeps ==
    ASSUME ConfigInv, NEW c \in MadeContexts, NEW name, NEW value, SetConfig(c, name, value)
    PROVE  ConfigInv'
<1>1. /\ MadeContexts' = MadeContexts /\ follows' = follows /\ manager' = manager
      /\ apart' = apart \cup {c} \cup Followers(c)
      /\ \A d \in MadeContexts \ {c} : config'[d] = config[d]
  BY DEF SetConfig, MadeContexts
<1>2. Linkage'
  BY <1>1 DEF ConfigInv, Linkage
<1>3. Same'
  BY <1>1 DEF ConfigInv, Same, Followers
<1>4. Sound'
  BY <1>1 DEF ConfigInv, Sound, Agrees
<1>5. QED
  BY <1>1, <1>2, <1>3, <1>4 DEF ConfigInv

(* A context is made, alone or as the follower of its parent.              *)
Follows(c) ==
    \E parent \in MadeContexts :
        /\ follows' = follows \cup {<<c, parent>>}
        /\ c \notin apart' => config'[c] = config[parent] /\ manager'[c] = manager[parent]

LEMMA MakingKeeps ==
    ASSUME ConfigInv, NEW c, c \notin MadeContexts, NEW cfg, NEW m, Becomes(c, cfg, m),
           follows' = follows \/ Follows(c),
           apart \subseteq apart', c \notin apart' => Agrees(cfg)
    PROVE  ConfigInv'
<1>1. /\ MadeContexts' = MadeContexts \cup {c} /\ DOMAIN manager' = MadeContexts'
      /\ config'[c] = cfg /\ manager'[c] = m
      /\ \A d \in MadeContexts : config'[d] = config[d] /\ manager'[d] = manager[d]
  BY DEF Becomes, MadeContexts, ConfigInv
<1>2. Sound'
  BY <1>1 DEF ConfigInv, Sound, Agrees
<1>3. \A d, e : <<d, e>> \in follows =>
          d \in MadeContexts /\ e \in MadeContexts /\ d # c /\ e # c
  BY DEF ConfigInv, Linkage
<1>4. CASE follows' = follows
  <2>1. Linkage'
    BY <1>1, <1>3, <1>4 DEF ConfigInv, Linkage
  <2>2. Same'
    BY <1>1, <1>3, <1>4 DEF ConfigInv, Same
  <2>3. QED
    BY <1>1, <1>2, <2>1, <2>2 DEF ConfigInv
<1>5. CASE Follows(c)
  <2>1. PICK parent \in MadeContexts :
            /\ follows' = follows \cup {<<c, parent>>}
            /\ c \notin apart' => config'[c] = config[parent] /\ manager'[c] = manager[parent]
    BY <1>5 DEF Follows
  <2>2. Linkage'
    BY <1>1, <1>3, <2>1 DEF ConfigInv, Linkage
  <2>3. Same'
    BY <1>1, <1>3, <2>1 DEF ConfigInv, Same
  <2>4. QED
    BY <1>1, <1>2, <2>2, <2>3 DEF ConfigInv
<1>6. QED
  BY <1>4, <1>5

LEMMA NewKeeps ==
    ASSUME ConfigInv, NEW c, NEW p, NEW names, NEW value, New(c, p, names, value)
    PROVE  ConfigInv'
<1>1. c \notin apart' => Agrees(Assigned(names, value, Defaults))
  BY DEF New, Agrees, Assigned, Defaults, Options
<1>2. QED
  BY <1>1, MakingKeeps DEF New

LEMMA MadeFromKeeps ==
    ASSUME ConfigInv, NEW c, NEW parent \in MadeContexts, MadeFrom(c, parent),
           follows' = follows \/ follows' = follows \cup {<<c, parent>>}
    PROVE  ConfigInv'
<1>1. c \notin apart' => Agrees(config[parent])
  BY DEF MadeFrom, ConfigInv, Sound
<1>2. config'[c] = config[parent] /\ manager'[c] = manager[parent]
  BY DEF MadeFrom, Becomes
<1>3. follows' = follows \/ Follows(c)
  BY <1>2 DEF Follows
<1>4. QED
  BY <1>1, <1>3, MakingKeeps DEF MadeFrom

(* A link: who followed another context already is apart, and so are those *)
(* that follow the context which is linked.                                *)
LEMMA LinkKeeps ==
    ASSUME ConfigInv, NEW c \in MadeContexts, NEW parent \in MadeContexts, c # parent, Linked(c, parent)
    PROVE  ConfigInv'
<1>1. /\ MadeContexts' = MadeContexts /\ DOMAIN manager' = MadeContexts
      /\ config'[c] = config[parent] /\ manager'[c] = manager[parent]
      /\ \A d \in MadeContexts \ {c} : config'[d] = config[d] /\ manager'[d] = manager[d]
  BY DEF Linked, Becomes, MadeContexts, ConfigInv
<1>2. follows' = follows \cup {<<c, parent>>}
  BY DEF Linked
<1>3. /\ apart \subseteq apart' /\ Followers(c) \subseteq apart'
      /\ parent \in apart => c \in apart'
      /\ \A p \in MadeContexts \ {parent} : <<c, p>> \in follows => c \in apart'
  BY DEF Linked
<1>4. Linkage'
  BY <1>1, <1>2, <1>3 DEF ConfigInv, Linkage
<1>5. ASSUME NEW d \in MadeContexts, NEW e \in MadeContexts,
             <<d, e>> \in follows', d \notin apart', e \notin apart'
      PROVE  config'[d] = config'[e] /\ manager'[d] = manager'[e]
  <2>1. CASE d = c
    BY <1>1, <1>2, <1>3, <1>5, <2>1
  <2>2. CASE d # c
    <3>1. e # c
      BY <1>2, <1>3, <1>5, <2>2 DEF Followers
    <3>2. QED
      BY <1>1, <1>2, <1>3, <1>5, <2>2, <3>1 DEF ConfigInv, Same
  <2>3. QED
    BY <2>1, <2>2
<1>6. Same'
  BY <1>1, <1>5 DEF Same
<1>7. Sound'
  BY <1>1, <1>3 DEF ConfigInv, Sound, Agrees
<1>8. QED
  BY <1>1, <1>4, <1>6, <1>7 DEF ConfigInv

LEMMA StepsKeepConfigInv ==
    ASSUME ConfigInv, ConfigNext
    PROVE  ConfigInv'
<1>1. ASSUME NEW c \in MadeContexts, NEW a \in Assignments,
             SetOption(c, a.name, a.value) \/ SetConfig(c, a.name, a.value)
      PROVE  ConfigInv'
  BY <1>1, SetOptionKeeps, SetConfigKeeps
<1>2. ASSUME NEW c \in Contexts, NEW p \in Providers, NEW a \in Assignments,
             New(c, p, {}, Nothing) \/ New(c, p, {a.name}, a.value)
      PROVE  ConfigInv'
  BY <1>2, NewKeeps
<1>3. ASSUME NEW parent \in MadeContexts, NEW c \in Contexts, NEW sync \in BOOLEAN,
             Use(parent, c) \/ MakeContract(parent, c, sync)
      PROVE  ConfigInv'
  <2>1. MadeFrom(c, parent)
    BY <1>3 DEF Use, MakeContract
  <2>2. follows' = follows \/ follows' = follows \cup {<<c, parent>>}
    BY <1>3 DEF Use, MakeContract
  <2>3. QED
    BY <2>1, <2>2, MadeFromKeeps
<1>4. ASSUME NEW parent \in MadeContexts, NEW c \in MadeContexts, parent # c,
             Link(c, parent) \/ RegisterPlugin(parent, c)
      PROVE  ConfigInv'
  BY <1>4, LinkKeeps DEF Link, RegisterPlugin
<1>5. ASSUME NEW c \in MadeContexts, NEW p \in Providers, SetProvider(c, p)
      PROVE  ConfigInv'
  BY <1>5 DEF SetProvider, ConfigInv, Linkage, Same, Sound, MadeContexts, Agrees
<1>6. QED
  BY <1>1, <1>2, <1>3, <1>4, <1>5 DEF ConfigNext

(* Whoever follows one context, and was changed by its setters only, has   *)
(* its options and its request manager, and no accepted option contradicts *)
(* the default common (web3_context.ts, web3_config.ts).                   *)
THEOREM ContextsInStep == ConfigSpec => []InStep
<1>1. ConfigInv /\ UNCHANGED configVars => ConfigInv'
  BY DEF ConfigInv, configVars, Linkage, Same, Sound, MadeContexts, Agrees
<1>2. ConfigInv /\ [ConfigNext]_configVars => ConfigInv'
  BY <1>1, StepsKeepConfigInv
<1>3. ConfigInv => InStep
  <2> SUFFICES ASSUME ConfigInv
               PROVE  InStep
    OBVIOUS
  <2>1. ASSUME NEW pair \in follows, {pair[1], pair[2]} \cap apart = {}
        PROVE  config[pair[1]] = config[pair[2]] /\ manager[pair[1]] = manager[pair[2]]
    <3>1. pair = <<pair[1], pair[2]>> /\ pair[1] \in MadeContexts /\ pair[2] \in MadeContexts
      BY <2>1 DEF ConfigInv, Linkage
    <3>2. QED
      BY <2>1, <3>1 DEF ConfigInv, Same
  <2>2. QED
    BY <2>1 DEF ConfigInv, Sound, Agrees, InStep
<1>4. QED
  BY ConfigInitially, <1>2, <1>3, PTL DEF ConfigSpec

---------------------------------------------------------------------------
(* Ens *)

Check == [at : {"sync", "id", "done", "ENSNetworkNotSyncedError",
                "ENSUnsupportedNetworkError"},
          network : Networks, called : {"recent", "old"}, inSync : SUBSET Networks]

Supported == \E n \in reached : n \in DOMAIN networkIds

(* What a check relies on: whose node is in sync now is noted, and a check *)
(* has passed a stage only if there was something to be seen.              *)
Founded(check) ==
    /\ check.network \in reached
    /\ reached \ syncing \subseteq check.inSync
    /\ check.at \in {"id", "done"} => check.inSync # {}
    /\ check.at = "done" => Supported

CheckTyped ==
    /\ checks \in Seq(Check)
    /\ network \in reached /\ reached \subseteq Networks
    /\ inSync \subseteq Networks /\ syncing \subseteq Networks

(* What is remembered: a recent time, of a node that was in sync within    *)
(* the hour, and an address, of a network that has a registry.             *)
Remembered ==
    /\ reached \ syncing \subseteq inSync
    /\ lastSyncCheck = "recent" => inSync # {}
    /\ detected # NoAnswer => Supported

CheckInv ==
    /\ CheckTyped
    /\ Remembered
    /\ \A c \in DOMAIN checks : Founded(checks[c])

LEMMA CheckInitially == EnsInit => CheckInv
<1> SUFFICES ASSUME EnsInit
             PROVE  CheckInv
  OBVIOUS
<1>1. checks = <<>>
  BY DEF EnsInit
<1>2. checks \in Seq(Check) /\ \A c \in DOMAIN checks : FALSE
  BY ONLY <1>1
<1>3. /\ network \in Networks /\ lastSyncCheck = "never" /\ detected = NoAnswer
      /\ reached = {network} /\ inSync = {network} \ syncing /\ syncing \subseteq Networks
  BY DEF EnsInit
<1>4. QED
  BY <1>2, <1>3 DEF CheckInv, CheckTyped, Remembered

(* One check goes on, while the world stays as it is.                      *)
LEMMA OneCheckChanges ==
    ASSUME CheckInv, NEW c \in DOMAIN checks, NEW check \in Check, Founded(check)',
           checks' = [checks EXCEPT ![c] = check], Remembered',
           UNCHANGED <<network, syncing, reached, inSync>>
    PROVE  CheckInv'
<1>1. /\ checks' \in Seq(Check) /\ DOMAIN checks' = DOMAIN checks
      /\ checks'[c] = check
      /\ \A d \in DOMAIN checks \ {c} : checks'[d] = checks[d]
  BY DEF CheckInv, CheckTyped
<1>2. \A d \in DOMAIN checks : Founded(checks[d])'
  BY <1>1 DEF CheckInv, Founded, Supported
<1>3. CheckTyped'
  BY <1>1 DEF CheckInv, CheckTyped
<1>4. QED
  BY <1>1, <1>2, <1>3 DEF CheckInv

LEMMA CallsKeepCheckInv ==
    ASSUME CheckInv, CheckNetwork
    PROVE  CheckInv'
<1> DEFINE new == [at |-> IF lastSyncCheck = "recent" THEN AfterSync ELSE "sync",
                   network |-> network, called |-> "recent", inSync |-> inSync]
<1>1. /\ checks' = Append(checks, new) /\ CheckTyped /\ Remembered
      /\ UNCHANGED <<network, syncing, reached, inSync, detected, lastSyncCheck>>
  BY DEF CheckNetwork, unchangedLookups, unchangedNode, CheckInv
<1>2. /\ new.at \in {"sync", "id", "done"} /\ new.network = network /\ new.inSync = inSync
      /\ new.at # "sync" => lastSyncCheck = "recent"
      /\ new.at = "done" => detected # NoAnswer
  BY DEF AfterSync
<1>3. new \in Check
  BY <1>1, <1>2 DEF CheckTyped, Check
<1> HIDE DEF new
<1>4. Founded(new)
  BY <1>1, <1>2 DEF Founded, CheckTyped, Remembered
<1>5. /\ checks' \in Seq(Check) /\ DOMAIN checks' = DOMAIN checks \cup {Len(checks) + 1}
      /\ checks'[Len(checks) + 1] = new
      /\ \A c \in DOMAIN checks : checks'[c] = checks[c]
  BY <1>1, <1>3 DEF CheckTyped
<1>6. \A c \in DOMAIN checks' : Founded(checks[c])'
  BY <1>1, <1>4, <1>5 DEF Founded, Supported, CheckInv
<1>7. CheckTyped' /\ Remembered'
  BY <1>1, <1>5 DEF CheckTyped, Remembered, Supported
<1>8. QED
  BY <1>6, <1>7 DEF CheckInv

LEMMA AnswersKeepCheckInv ==
    ASSUME CheckInv, NEW c \in DOMAIN checks, SyncAnswered(c) \/ IdAnswered(c)
    PROVE  CheckInv'
<1>1. /\ UNCHANGED <<network, syncing, reached, inSync>>
      /\ CheckTyped /\ Remembered /\ Founded(checks[c])
  BY DEF SyncAnswered, IdAnswered, unchangedLookups, unchangedNode, CheckInv
<1>2. checks[c] \in Check
  BY <1>1 DEF CheckTyped
<1>3. CASE SyncAnswered(c) /\ checks[c].network \in syncing
  <2>1. PICK failed : failed = [checks[c] EXCEPT !.at = "ENSNetworkNotSyncedError"]
    OBVIOUS
  <2>2. checks' = [checks EXCEPT ![c] = failed] /\ UNCHANGED <<lastSyncCheck, detected>>
    BY <1>3, <2>1 DEF SyncAnswered
  <2>3. /\ failed \in Check /\ failed.network = checks[c].network
        /\ failed.inSync = checks[c].inSync /\ failed.at = "ENSNetworkNotSyncedError"
    BY <1>2, <2>1 DEF Check
  <2>4. Founded(failed)' /\ Remembered'
    BY <1>1, <2>2, <2>3 DEF Founded, Remembered, Supported
  <2>5. QED
    BY <1>1, <2>2, <2>3, <2>4, OneCheckChanges
<1>4. CASE SyncAnswered(c) /\ checks[c].network \notin syncing
  <2>0. PICK passed : passed = [checks[c] EXCEPT !.at = AfterSync, !.network = network]
    OBVIOUS
  <2>1. /\ checks' = [checks EXCEPT ![c] = passed]
        /\ lastSyncCheck' = checks[c].called /\ UNCHANGED detected
    BY <1>4, <2>0 DEF SyncAnswered
  <2>2. AfterSync \in {"id", "done"} /\ (AfterSync = "done" => detected # NoAnswer)
    BY DEF AfterSync
  <2>3. /\ passed \in Check /\ passed.network = network /\ passed.inSync = checks[c].inSync
        /\ passed.at = AfterSync
    BY <1>1, <1>2, <2>0, <2>2 DEF Check, CheckTyped
  <2>4. checks[c].network \in reached \ syncing
    BY <1>1, <1>4 DEF Founded
  <2>5. Founded(passed)'
    BY <1>1, <2>1, <2>2, <2>3, <2>4 DEF Founded, Remembered, Supported, CheckTyped
  <2>6. Remembered'
    BY <1>1, <2>1, <2>4 DEF Remembered, Supported
  <2>7. QED
    BY <1>1, <2>1, <2>3, <2>5, <2>6, OneCheckChanges
<1>5. CASE IdAnswered(c)
  <2>1. PICK to \in {"done", "ENSUnsupportedNetworkError"} :
            /\ checks' = [checks EXCEPT ![c] = [checks[c] EXCEPT !.at = to]]
            /\ UNCHANGED detected \/ checks[c].network \in DOMAIN networkIds
            /\ to = "done" => checks[c].network \in DOMAIN networkIds
    BY <1>5 DEF IdAnswered
  <2>0. PICK ended : ended = [checks[c] EXCEPT !.at = to]
    OBVIOUS
  <2>2. /\ ended \in Check /\ ended.network = checks[c].network
        /\ ended.inSync = checks[c].inSync /\ ended.at = to
    BY <1>2, <2>0 DEF Check
  <2>3. checks' = [checks EXCEPT ![c] = ended]
    BY <2>0, <2>1
  <2>4. UNCHANGED lastSyncCheck /\ checks[c].at = "id"
    BY <1>5 DEF IdAnswered
  <2>5. Founded(ended)' /\ Remembered'
    BY <1>1, <2>1, <2>2, <2>4 DEF Founded, Remembered, Supported
  <2>6. QED
    BY <1>1, <2>2, <2>3, <2>5, OneCheckChanges
<1>6. QED
  BY <1>3, <1>4, <1>5

(* A node in use is in sync: every check and the history note it.          *)
LEMMA NotingKeepsCheckInv ==
    ASSUME CheckInv, NEW n \in Networks, NoteInSync(n), n \in reached', network' \in reached',
           reached' \subseteq reached \cup {n}, reached \subseteq reached',
           syncing' \subseteq syncing, syncing \subseteq syncing' \cup {n},
           UNCHANGED <<lastSyncCheck, detected>>
    PROVE  CheckInv'
<1>1. checks' = [c \in DOMAIN checks |-> [checks[c] EXCEPT !.inSync = @ \cup {n}]]
  BY DEF NoteInSync
<1>2. checks \in Seq(Check) /\ \A c \in DOMAIN checks : checks[c] \in Check
  BY DEF CheckInv, CheckTyped
<1>3. \A c \in DOMAIN checks :
         /\ checks'[c] \in Check
         /\ checks'[c].at = checks[c].at /\ checks'[c].network = checks[c].network
         /\ checks'[c].inSync = checks[c].inSync \cup {n}
  BY <1>1, <1>2 DEF Check
<1>4. checks' \in Seq(Check) /\ DOMAIN checks' = DOMAIN checks
  <2>1. checks' = [c \in DOMAIN checks |-> checks'[c]]
    BY <1>1
  <2>2. QED
    BY ONLY <1>2, <1>3, <2>1
<1>5. CheckTyped' /\ Remembered'
  BY <1>4 DEF CheckInv, CheckTyped, Remembered, Supported, NoteInSync
<1>6. \A c \in DOMAIN checks : Founded(checks[c])'
  BY <1>3 DEF CheckInv, Founded, Supported
<1>7. QED
  BY <1>4, <1>5, <1>6 DEF CheckInv

LEMMA HourKeepsCheckInv ==
    ASSUME CheckInv, HourPasses
    PROVE  CheckInv'
<1>1. checks' = [c \in DOMAIN checks |-> [checks[c] EXCEPT !.called = "old"]]
  BY DEF HourPasses
<1>2. checks \in Seq(Check) /\ \A c \in DOMAIN checks : checks[c] \in Check
  BY DEF CheckInv, CheckTyped
<1>3. \A c \in DOMAIN checks :
         /\ checks'[c] \in Check
         /\ checks'[c].at = checks[c].at /\ checks'[c].network = checks[c].network
         /\ checks'[c].inSync = checks[c].inSync
  BY <1>1, <1>2 DEF Check
<1>4. checks' \in Seq(Check) /\ DOMAIN checks' = DOMAIN checks
  <2>1. checks' = [c \in DOMAIN checks |-> checks'[c]]
    BY <1>1
  <2>2. QED
    BY ONLY <1>2, <1>3, <2>1
<1>5. CheckTyped' /\ Remembered'
  BY <1>4 DEF CheckInv, CheckTyped, Remembered, Supported, HourPasses
<1>6. \A c \in DOMAIN checks : Founded(checks[c])'
  BY <1>3 DEF CheckInv, Founded, Supported, HourPasses
<1>7. QED
  BY <1>4, <1>5, <1>6 DEF CheckInv

LEMMA StepsKeepCheckInv ==
    ASSUME CheckInv, EnsNext
    PROVE  CheckInv'
<1>1. ASSUME UNCHANGED <<checks, lastSyncCheck, detected, inSync>>,
             network' \in reached', reached' \subseteq Networks, reached \subseteq reached',
             syncing' \subseteq Networks, reached' \ syncing' \subseteq reached \ syncing
      PROVE  CheckInv'
  BY <1>1 DEF CheckInv, CheckTyped, Remembered, Founded, Supported
<1>2. ASSUME UNCHANGED <<checks, lastSyncCheck, detected, network, syncing, reached, inSync>>
      PROVE  CheckInv'
  BY <1>1, <1>2 DEF CheckInv, CheckTyped
<1>3. ASSUME NEW kind \in Lookups, Lookup(kind)
      PROVE  CheckInv'
  BY <1>2, <1>3 DEF Lookup, unchangedNode, unchangedCheck
<1>4. ASSUME NEW l \in DOMAIN lookups,
             ResolverAnswered(l) \/ InterfaceAnswered(l) \/ ValueAnswered(l)
      PROVE  CheckInv'
  BY <1>2, <1>4 DEF ResolverAnswered, InterfaceAnswered, ValueAnswered, unchangedNode,
                    unchangedCheck
<1>5. ASSUME NEW n \in Networks, SetNetwork(n)
      PROVE  CheckInv'
  <2>1. CASE n \in syncing
    BY <1>1, <1>5, <2>1 DEF SetNetwork, CheckInv, CheckTyped
  <2>2. CASE n \notin syncing
    BY <1>5, <2>2, NotingKeepsCheckInv DEF SetNetwork
  <2>3. QED
    BY <2>1, <2>2
<1>6. ASSUME NEW n \in Networks, NodeFallsBehind(n)
      PROVE  CheckInv'
  BY <1>1, <1>6 DEF NodeFallsBehind, unchangedCheck, CheckInv, CheckTyped
<1>7. ASSUME NEW n \in Networks, NodeCatchesUp(n)
      PROVE  CheckInv'
  <2>1. CASE n \in reached
    BY <1>6, <1>7, <2>1, NotingKeepsCheckInv DEF NodeCatchesUp, CheckInv, CheckTyped
  <2>2. CASE n \notin reached
    BY <1>1, <1>7, <2>2 DEF NodeCatchesUp, CheckInv, CheckTyped
  <2>3. QED
    BY <2>1, <2>2
<1>8. ASSUME NEW n \in Networks, NEW r \in Resolvers, NEW v \in Values, OwnerChanges(n, r, v)
      PROVE  CheckInv'
  BY <1>2, <1>8 DEF OwnerChanges, unchangedCheck
<1>9. QED
  BY <1>3, <1>4, <1>5, <1>6, <1>7, <1>8, CallsKeepCheckInv, AnswersKeepCheckInv,
     HourKeepsCheckInv DEF EnsNext

(* checkNetwork() passes only if a network with a registry was reached and *)
(* a node was in sync within the hour before the call or since, however    *)
(* checks overlap, nodes fall behind and the provider changes.             *)
THEOREM NetworkIsChecked == EnsSpec => []NetworkChecked
<1>1. CheckInv /\ UNCHANGED ensVars => CheckInv'
  BY DEF ensVars, CheckInv, CheckTyped, Remembered, Founded, Supported
<1>2. CheckInv => NetworkChecked
  BY DEF CheckInv, Founded, Supported, NetworkChecked
<1>3. QED
  BY <1>1, <1>2, CheckInitially, StepsKeepCheckInv, PTL DEF EnsSpec

-----------------------------------------------------------------------------
Look == [kind : Lookups,
         at : {"resolver", "interface", "value", "done", "error", "ResolverMethodMissingError"},
         network : Networks, resolver : Resolvers \cup {NoAnswer},
         value : Values \cup {NoAnswer}]

NodeTyped ==
    /\ network \in Networks /\ network \in reached
    /\ resolverOf \in [Networks -> Resolvers \cup {NoAnswer}]
    /\ record \in [Networks -> [Resolvers -> Values]]
    /\ lookups \in Seq(Look)

(* Who is asked for a record has said that it supports the interface, and  *)
(* every question goes to a network that the provider reaches or reached.  *)
Answerable(look) ==
    /\ look.at = "value" =>
          look.resolver \in Resolvers /\ methodsInInterface[look.kind] \in interfaces[look.resolver]
    /\ look.network \in reached

LookupInv == NodeTyped /\ \A l \in DOMAIN lookups : Answerable(lookups[l])

LEMMA LookupInitially == EnsInit => LookupInv
<1> SUFFICES ASSUME EnsInit
             PROVE  LookupInv
  OBVIOUS
<1>1. lookups = <<>>
  BY DEF EnsInit
<1>2. lookups \in Seq(Look) /\ \A l \in DOMAIN lookups : FALSE
  BY ONLY <1>1
<1>3. NodeTyped
  BY <1>2 DEF EnsInit, NodeTyped
<1>4. QED
  BY <1>2, <1>3 DEF LookupInv

(* A lookup goes on, and all else stays.                                   *)
LEMMA GoesOn ==
    ASSUME LookupInv, NEW l \in DOMAIN lookups, NEW look \in Look, Answerable(look),
           lookups' = [lookups EXCEPT ![l] = look],
           UNCHANGED <<network, reached, resolverOf, record, interfaces>>
    PROVE  LookupInv'
<1>1. /\ lookups' \in Seq(Look) /\ DOMAIN lookups' = DOMAIN lookups
      /\ lookups'[l] = look
      /\ \A m \in DOMAIN lookups \ {l} : lookups'[m] = lookups[m]
  BY DEF LookupInv, NodeTyped
<1>2. \A m \in DOMAIN lookups' : Answerable(lookups'[m])
  BY <1>1 DEF LookupInv
<1>3. \A m \in DOMAIN lookups' : Answerable(lookups[m])'
  BY <1>1, <1>2 DEF Answerable
<1>4. QED
  BY <1>1, <1>3 DEF LookupInv, NodeTyped

LEMMA AnswersKeepLookupInv ==
    ASSUME LookupInv, NEW l \in DOMAIN lookups,
           ResolverAnswered(l) \/ InterfaceAnswered(l) \/ ValueAnswered(l)
    PROVE  LookupInv'
<1>1. /\ lookups[l] \in Look /\ NodeTyped /\ Answerable(lookups[l])
      /\ UNCHANGED <<network, reached, resolverOf, record, interfaces>>
  BY DEF LookupInv, NodeTyped, ResolverAnswered, InterfaceAnswered, ValueAnswered, unchangedNode,
         unchangedNames
<1>2. CASE ResolverAnswered(l)
  <2> DEFINE look == [lookups[l] EXCEPT !.at = "interface", !.network = network,
                                        !.resolver = resolverOf[lookups[l].network]]
  <2>1. lookups' = [lookups EXCEPT ![l] = look]
    BY <1>2 DEF ResolverAnswered
  <2>2. look \in Look /\ look.at = "interface" /\ look.network = network
    BY <1>1 DEF Look, NodeTyped
  <2> HIDE DEF look
  <2>3. QED
    BY <1>1, <2>1, <2>2, GoesOn DEF Answerable, NodeTyped
<1>3. CASE /\ SupportsInterface(lookups[l].resolver, methodsInInterface[lookups[l].kind]) = "yes"
           /\ lookups' = [lookups EXCEPT ![l].at = "value", ![l].network = network]
  <2> DEFINE look == [lookups[l] EXCEPT !.at = "value", !.network = network]
  <2>1. lookups' = [lookups EXCEPT ![l] = look]
    BY <1>3
  <2>2. look \in Look /\ look.network = network
        /\ look.resolver = lookups[l].resolver /\ look.kind = lookups[l].kind
    BY <1>1 DEF Look, NodeTyped
  <2> HIDE DEF look
  <2>3. /\ look.resolver \in Resolvers
        /\ methodsInInterface[look.kind] \in interfaces[look.resolver]
    BY <1>3, <2>2 DEF SupportsInterface, NoAnswer
  <2>4. QED
    BY <1>1, <2>1, <2>2, <2>3, GoesOn DEF Answerable, NodeTyped
<1>4. ASSUME NEW at \in {"error", "ResolverMethodMissingError"},
             lookups' = [lookups EXCEPT ![l].at = at]
      PROVE  LookupInv'
  <2> DEFINE look == [lookups[l] EXCEPT !.at = at]
  <2>1. look \in Look /\ look.at = at /\ look.network = lookups[l].network
    BY <1>1 DEF Look
  <2>2. lookups' = [lookups EXCEPT ![l] = look]
    BY <1>4
  <2> HIDE DEF look
  <2>3. QED
    BY <1>1, <2>1, <2>2, GoesOn DEF Answerable
<1>5. CASE ValueAnswered(l)
  <2> DEFINE value == CallResolver(lookups[l].network, lookups[l].resolver, Called(lookups[l].kind))
             end == IF value = NoAnswer THEN "error" ELSE "done"
             look == [lookups[l] EXCEPT !.at = end, !.value = value]
  <2>1. lookups' = [lookups EXCEPT ![l] = look]
    BY <1>5 DEF ValueAnswered
  <2>2. value \in Values \cup {NoAnswer}
    BY <1>1 DEF CallResolver, NodeTyped, Look
  <2> HIDE DEF value
  <2>3. look \in Look /\ look.at = end /\ look.network = lookups[l].network
    BY <1>1, <2>2 DEF Look
  <2> HIDE DEF look
  <2>4. QED
    BY <1>1, <2>1, <2>3, GoesOn DEF Answerable
<1>6. QED
  BY <1>2, <1>3, <1>4, <1>5 DEF InterfaceAnswered

LEMMA StepsKeepLookupInv ==
    ASSUME LookupInv, EnsNext
    PROVE  LookupInv'
<1>1. ASSUME NEW kind \in Lookups, Lookup(kind)
      PROVE  LookupInv'
  <2> DEFINE look == [kind |-> kind, at |-> "resolver", network |-> network,
                      resolver |-> NoAnswer, value |-> NoAnswer]
  <2>1. /\ lookups' = Append(lookups, look) /\ lookups \in Seq(Look) /\ NodeTyped
        /\ UNCHANGED <<network, reached, resolverOf, record, interfaces>>
    BY <1>1 DEF Lookup, unchangedNode, unchangedNames, LookupInv, NodeTyped
  <2>2. look \in Look /\ look.at = "resolver" /\ look.network = network
    BY <2>1 DEF Look, NodeTyped
  <2> HIDE DEF look
  <2>3. /\ lookups' \in Seq(Look) /\ DOMAIN lookups' = DOMAIN lookups \cup {Len(lookups) + 1}
        /\ lookups'[Len(lookups) + 1] = look
        /\ \A l \in DOMAIN lookups : lookups'[l] = lookups[l]
    BY <2>1, <2>2
  <2>4. \A l \in DOMAIN lookups' : Answerable(lookups[l])'
    BY <2>1, <2>2, <2>3 DEF Answerable, LookupInv, NodeTyped
  <2>5. QED
    BY <2>1, <2>3, <2>4 DEF LookupInv, NodeTyped
<1>2. CASE UNCHANGED <<network, lookups, reached, resolverOf, record, interfaces>>
  BY <1>2 DEF LookupInv, NodeTyped, Answerable
<1>3. CASE \/ CheckNetwork \/ HourPasses
           \/ \E c \in DOMAIN checks : SyncAnswered(c) \/ IdAnswered(c)
           \/ \E n \in Networks : NodeFallsBehind(n) \/ NodeCatchesUp(n)
  BY <1>2, <1>3 DEF CheckNetwork, SyncAnswered, IdAnswered, HourPasses, NodeFallsBehind,
                    NodeCatchesUp, unchangedLookups, unchangedNode, unchangedNames
<1>4. ASSUME NEW n \in Networks, SetNetwork(n)
      PROVE  LookupInv'
  BY <1>4 DEF SetNetwork, unchangedNames, LookupInv, NodeTyped, Answerable
<1>5. ASSUME NEW n \in Networks, NEW r \in Resolvers, NEW v \in Values, OwnerChanges(n, r, v)
      PROVE  LookupInv'
  <2>1. /\ UNCHANGED <<network, lookups, reached, interfaces>>
        /\ resolverOf' \in [Networks -> Resolvers \cup {NoAnswer}]
        /\ record' \in [Networks -> [Resolvers -> Values]]
    BY <1>5 DEF OwnerChanges, LookupInv, NodeTyped
  <2>2. QED
    BY <2>1 DEF LookupInv, NodeTyped, Answerable
<1>6. QED
  BY <1>1, <1>3, <1>4, <1>5, AnswersKeepLookupInv DEF EnsNext

(* A name is resolved only by a resolver that supports the interface, with *)
(* what it holds on the network asked, whatever the owner of the name and  *)
(* the program change in between.                                          *)
THEOREM ResolverIsAsked == EnsSpec => ResolvedByItsResolver
<1> DEFINE Resolved(l) ==
        lookups'[l].at = "done" /\ lookups[l].at # "done" =>
            /\ methodsInInterface[lookups[l].kind] \in interfaces[lookups[l].resolver]
            /\ lookups[l].network \in reached
            /\ lookups'[l].value = record[lookups[l].network][lookups[l].resolver]
<1>1. ASSUME LookupInv, EnsNext, NEW l \in DOMAIN lookups
      PROVE  Resolved(l)
  <2>1. CASE lookups'[l] = lookups[l]
    BY <2>1
  <2>2. CASE ResolverAnswered(l) \/ InterfaceAnswered(l)
    <3>1. lookups \in Seq(Look) /\ lookups[l] \in Look
      BY <1>1 DEF LookupInv, NodeTyped
    <3>2. CASE ResolverAnswered(l)
      <4>1. lookups' = [lookups EXCEPT ![l] = [lookups[l] EXCEPT !.at = "interface",
                !.network = network, !.resolver = resolverOf[lookups[l].network]]]
        BY <3>2 DEF ResolverAnswered
      <4>2. lookups'[l].at = "interface"
        BY ONLY <1>1, <3>1, <4>1 DEF Look
      <4>3. QED
        BY <4>2
    <3>3. ASSUME lookups' = [lookups EXCEPT ![l].at = "value", ![l].network = network]
          PROVE  Resolved(l)
      <4>1. lookups' = [lookups EXCEPT ![l] = [lookups[l] EXCEPT !.at = "value", !.network = network]]
        BY <3>3
      <4>2. lookups'[l].at = "value"
        BY ONLY <1>1, <3>1, <4>1 DEF Look
      <4>3. QED
        BY <4>2
    <3>4. ASSUME NEW at \in {"error", "ResolverMethodMissingError"},
                 lookups' = [lookups EXCEPT ![l].at = at]
          PROVE  Resolved(l)
      <4>1. lookups'[l].at = at
        BY ONLY <1>1, <3>1, <3>4 DEF Look
      <4>2. QED
        BY <4>1
    <3>5. QED
      BY <2>2, <3>2, <3>3, <3>4 DEF InterfaceAnswered
  <2>3. CASE ValueAnswered(l)
    <3> DEFINE resolver == lookups[l].resolver
               value == CallResolver(lookups[l].network, resolver, Called(lookups[l].kind))
    <3>1. lookups[l].at = "value" /\ Answerable(lookups[l]) /\ lookups[l] \in Look
      BY <1>1, <2>3 DEF ValueAnswered, LookupInv, NodeTyped
    <3>2. /\ lookups'[l].value = value
          /\ lookups'[l].at = "done" => value # NoAnswer
      <4>1. lookups' = [lookups EXCEPT ![l].at = IF value = NoAnswer THEN "error" ELSE "done",
                                       ![l].value = value]
        BY <2>3 DEF ValueAnswered
      <4> HIDE DEF value
      <4>2. QED
        BY <1>1, <3>1, <4>1 DEF Look
    <3>3. value # NoAnswer => value = record[lookups[l].network][resolver]
      BY DEF CallResolver
    <3>4. QED
      BY <3>1, <3>2, <3>3 DEF Answerable
  <2>4. CASE \E kind \in Lookups : Lookup(kind)
    BY <1>1, <2>1, <2>4 DEF Lookup, LookupInv, NodeTyped
  <2>5. CASE UNCHANGED lookups
    BY <2>1, <2>5
  <2>6. ASSUME NEW m \in DOMAIN lookups, m # l,
               ResolverAnswered(m) \/ InterfaceAnswered(m) \/ ValueAnswered(m)
        PROVE  Resolved(l)
    <3>1. lookups'[l] = lookups[l]
      BY <1>1, <2>6 DEF ResolverAnswered, InterfaceAnswered, ValueAnswered, LookupInv, NodeTyped
    <3>2. QED
      BY <2>1, <3>1
  <2>7. EnsNext => \/ UNCHANGED lookups
                   \/ \E kind \in Lookups : Lookup(kind)
                   \/ \E m \in DOMAIN lookups :
                          ResolverAnswered(m) \/ InterfaceAnswered(m) \/ ValueAnswered(m)
    BY DEF EnsNext, CheckNetwork, SyncAnswered, IdAnswered, HourPasses, SetNetwork,
           NodeFallsBehind, NodeCatchesUp, OwnerChanges, unchangedLookups
  <2>8. QED
    BY <1>1, <2>2, <2>3, <2>4, <2>5, <2>6, <2>7
<1>2. LookupInv /\ [EnsNext]_ensVars => [\A l \in DOMAIN lookups : Resolved(l)]_ensVars
  BY <1>1
<1>3. LookupInv /\ UNCHANGED ensVars => LookupInv'
  BY DEF ensVars, LookupInv, NodeTyped, Answerable
<1>4. QED
  BY <1>2, <1>3, LookupInitially, StepsKeepLookupInv, PTL DEF EnsSpec, ResolvedByItsResolver
=================================================================================
