---------------------------- MODULE ContractsProofs ----------------------------
(***************************************************************************)
(* Proofs about contract objects, for any interfaces, arguments, options,  *)
(* filters and logs, any number of changes, and any validator.  (Accounts- *)
(* Proofs has the induction over the natural numbers.)                     *)
(***************************************************************************)
EXTENDS Contracts, AccountsProofs

---------------------------------------------------------------------------
(* Sequences *)

(* The elements of a sequence that are in a set are just those.            *)
LEMMA ThoseAre ==
    ASSUME NEW T, NEW s \in Seq(T), NEW S
    PROVE  Those(s, S) \in Seq(T) /\ ToSet(Those(s, S)) = ToSet(s) \cap S
<1> DEFINE m == Len(s)
           Rule(g, n) == IF n = 0 THEN <<>>
                         ELSE IF s[n] \in S THEN Append(g[n - 1], s[n]) ELSE g[n - 1]
           Run(g, n) == g = [j \in 0 .. n |-> Rule(g, j)]
           HasRun == {n \in Nat : \E g : Run(g, n)}
<1>1. \E g : Run(g, m)
  <2>1. 0 \in HasRun
    <3>1. Run([j \in 0 .. 0 |-> <<>>], 0)
      OBVIOUS
    <3>2. QED
      BY <3>1
  <2>2. ASSUME NEW n \in Nat, n \in HasRun
        PROVE  n + 1 \in HasRun
    <3>1. PICK g : Run(g, n)
      BY <2>2
    <3> DEFINE h == [j \in 0 .. n + 1 |-> IF j = n + 1 THEN Rule(g, n + 1) ELSE g[j]]
    <3>2. ASSUME NEW j \in 0 .. n + 1
          PROVE  h[j] = Rule(h, j)
      <4>1. CASE j = 0
        BY <3>1, <4>1
      <4>2. CASE j # 0
        <5>1. j - 1 \in 0 .. n /\ h[j - 1] = g[j - 1]
          BY <4>2
        <5>2. h[j] = Rule(g, j)
          <6>1. CASE j = n + 1
            BY <6>1
          <6>2. CASE j # n + 1
            <7>1. j \in 0 .. n /\ h[j] = g[j]
              BY <6>2
            <7>2. g[j] = Rule(g, j)
              BY <3>1, <7>1
            <7>3. QED
              BY <7>1, <7>2
          <6>3. QED
            BY <6>1, <6>2
        <5>3. QED
          BY <4>2, <5>1, <5>2
      <4>3. QED
        BY <4>1, <4>2
    <3>3. Run(h, n + 1)
      BY <3>2
    <3> HIDE DEF Run, h
    <3>4. QED
      BY <3>3
  <2> HIDE DEF HasRun
  <2>3. Nat \subseteq HasRun
    BY <2>1, <2>2, NatSetInduction
  <2>4. QED
    BY <2>3 DEF HasRun
<1> DEFINE after == CHOOSE g : Run(g, m)
           Right(t, n) == t \in Seq(T) /\ ToSet(t) = {s[i] : i \in 1 .. n} \cap S
           Good == {n \in Nat : n <= m => Right(after[n], n)}
<1>2. Run(after, m)
  <2> HIDE DEF Run
  <2>1. QED
    BY <1>1
<1> HIDE DEF after
<1>3. 0 \in Good
  <2>1. after[0] = <<>>
    BY <1>2
  <2>2. <<>> \in Seq(T) /\ ToSet(<<>>) = {}
    BY DEF ToSet
  <2>3. {s[i] : i \in 1 .. 0} = {}
    OBVIOUS
  <2>4. Right(after[0], 0)
    BY <2>1, <2>2, <2>3
  <2> HIDE DEF Right
  <2>5. QED
    BY <2>4
<1>4. ASSUME NEW n \in Nat, n \in Good
      PROVE  n + 1 \in Good
  <2> SUFFICES ASSUME n + 1 <= m
               PROVE  Right(after[n + 1], n + 1)
    OBVIOUS
  <2>1. Right(after[n], n)
    BY <1>4
  <2>2. n + 1 \in 1 .. m /\ after[n + 1] = Rule(after, n + 1)
    <3>1. m \in Nat /\ n + 1 \in 0 .. m /\ n + 1 \in 1 .. m
      OBVIOUS
    <3> HIDE DEF Rule, m
    <3>2. QED
      BY <1>2, <3>1
  <2>3. {s[i] : i \in 1 .. n + 1} = {s[i] : i \in 1 .. n} \cup {s[n + 1]}
    <3>1. 1 .. n + 1 = (1 .. n) \cup {n + 1}
      OBVIOUS
    <3>2. QED
      BY <3>1
  <2>4. CASE s[n + 1] \in S
    <3> DEFINE t == after[n]
    <3>1. after[n + 1] = Append(t, s[n + 1])
      BY <2>2, <2>4
    <3>2. t \in Seq(T) /\ s[n + 1] \in T
      BY <2>1, <2>2
    <3> HIDE DEF t
    <3>3. Append(t, s[n + 1]) \in Seq(T) /\ ToSet(Append(t, s[n + 1])) = ToSet(t) \cup {s[n + 1]}
      <4>1. /\ Append(t, s[n + 1]) \in Seq(T) /\ Len(Append(t, s[n + 1])) = Len(t) + 1
            /\ Append(t, s[n + 1])[Len(t) + 1] = s[n + 1]
            /\ \A i \in 1 .. Len(t) : Append(t, s[n + 1])[i] = t[i]
        BY <3>2
      <4>2. 1 .. Len(t) + 1 = (1 .. Len(t)) \cup {Len(t) + 1}
        BY <3>2
      <4> DEFINE u == Append(t, s[n + 1])
      <4>3. DOMAIN u = 1 .. Len(t) + 1 /\ DOMAIN t = 1 .. Len(t)
        BY <3>2
      <4> HIDE DEF u
      <4>4. QED
        BY <4>1, <4>2, <4>3 DEF ToSet, u
    <3>4. QED
      BY <2>1, <2>3, <2>4, <3>1, <3>3 DEF t
  <2>5. CASE s[n + 1] \notin S
    BY <2>1, <2>2, <2>3, <2>5
  <2>6. QED
    BY <2>4, <2>5
<1> HIDE DEF Good
<1>5. Nat \subseteq Good
  BY <1>3, <1>4, NatSetInduction
<1>6. Right(after[m], m)
  <2>1. m \in Nat /\ m <= m
    OBVIOUS
  <2> HIDE DEF Right, m
  <2>2. QED
    BY <1>5, <2>1 DEF Good
<1>7. Those(s, S) = after[m]
  BY DEF Those, after
<1>8. ToSet(s) = {s[i] : i \in 1 .. m}
  BY DEF ToSet
<1>9. QED
  BY <1>6, <1>7, <1>8

LEMMA LastIs ==
    ASSUME NEW T, NEW s \in Seq(T), ToSet(s) # {}
    PROVE  Last(s) \in ToSet(s)
  BY DEF Last, ToSet

LEMMA KindsAre ==
    ASSUME NEW T, NEW s \in Seq(T), NEW kinds
    PROVE  /\ OfKinds(s, kinds) \in Seq(T)
           /\ ToSet(OfKinds(s, kinds)) = {f \in ToSet(s) : f.kind \in kinds}
<1>1. ToSet(s) \cap {f \in ToSet(s) : f.kind \in kinds} = {f \in ToSet(s) : f.kind \in kinds}
  OBVIOUS
<1>2. QED
  BY <1>1, ThoseAre DEF OfKinds

LEMMA NamedAre ==
    ASSUME NEW T, NEW s \in Seq(T), NEW name
    PROVE  /\ Named(s, name) \in Seq(T)
           /\ ToSet(Named(s, name)) = {f \in ToSet(s) : f.name = name}
<1>1. ToSet(s) \cap {f \in ToSet(s) : f.name = name} = {f \in ToSet(s) : f.name = name}
  OBVIOUS
<1>2. QED
  BY <1>1, ThoseAre DEF Named

---------------------------------------------------------------------------
(* What an interface is parsed to *)

Functions(fragments) == {f \in fragments : f.kind = "function"}
Events(fragments)    == {f \in fragments : f.kind = "event"}

IsAbi(abi) ==
    /\ abi.interface \in Seq(Fragments)
    /\ abi.errors \in Seq(Fragments)
    /\ \A f \in ToSet(abi.errors) : f.kind = "error"
    /\ \A n \in DOMAIN abi.methods :
          abi.methods[n] \in Functions(ToSet(abi.interface)) /\ abi.methods[n].name = n
    /\ \A n \in DOMAIN abi.events :
          abi.events[n] \in Events(ToSet(abi.interface)) /\ abi.events[n].name = n

(* The overloads of a name are those of some functions that have it.       *)
Overloaded(overloads, fs) ==
    /\ \A n \in DOMAIN overloads :
          overloads[n] \in Seq(Fragments) /\ ToSet(overloads[n]) = {g \in fs : g.name = n}
    /\ \A f \in fs : f.name \in DOMAIN overloads

LEMMA JoinedIs ==
    ASSUME NEW T, NEW s \in Seq(T), NEW e \in Seq(T)
    PROVE  s \o e \in Seq(T) /\ ToSet(s \o e) = ToSet(s) \cup ToSet(e)
<1> DEFINE both == s \o e
<1>2. /\ s \o e \in Seq(T) /\ Len(s \o e) = Len(s) + Len(e)
      /\ \A i \in 1 .. Len(s) : (s \o e)[i] = s[i]
      /\ \A i \in 1 .. Len(e) : (s \o e)[Len(s) + i] = e[i]
  OBVIOUS
<1>3. \A i \in 1 .. Len(s \o e) \ 1 .. Len(s) :
          i - Len(s) \in 1 .. Len(e) /\ i = Len(s) + (i - Len(s))
  BY <1>2
<1>4. \A i \in 1 .. Len(e) : Len(s) + i \in 1 .. Len(s \o e)
  BY <1>2
<1>5. 1 .. Len(s) \subseteq 1 .. Len(s \o e)
  BY <1>2
<1>6. DOMAIN (s \o e) = 1 .. Len(s \o e) /\ DOMAIN s = 1 .. Len(s) /\ DOMAIN e = 1 .. Len(e)
  BY <1>2
<1>7. /\ \A i \in DOMAIN s : i \in DOMAIN both /\ both[i] = s[i]
      /\ \A i \in DOMAIN e : Len(s) + i \in DOMAIN both /\ both[Len(s) + i] = e[i]
      /\ \A i \in DOMAIN both \ DOMAIN s : i - Len(s) \in DOMAIN e /\ both[i] = e[i - Len(s)]
  BY <1>2, <1>3, <1>4, <1>5, <1>6
<1> HIDE DEF both
<1>8. ASSUME NEW f \in ToSet(both)
      PROVE  f \in ToSet(s) \cup ToSet(e)
  BY <1>7 DEF ToSet
<1>9. ASSUME NEW f \in ToSet(s) \cup ToSet(e)
      PROVE  f \in ToSet(both)
  BY <1>7 DEF ToSet
<1>10. both \in Seq(T)
  BY <1>2 DEF both
<1>11. QED
  BY <1>8, <1>9, <1>10 DEF both

LEMMA LastNamed ==
    ASSUME NEW s \in Seq(Fragments), NEW n \in Names(s)
    PROVE  Last(Named(s, n)) \in ToSet(s) /\ Last(Named(s, n)).name = n
<1>1. PICK i \in DOMAIN s : s[i].name = n
  BY DEF Names
<1>2. s[i] \in ToSet(s)
  BY DEF ToSet
<1>3. Named(s, n) \in Seq(Fragments) /\ ToSet(Named(s, n)) = {f \in ToSet(s) : f.name = n}
  BY NamedAre
<1>4. Last(Named(s, n)) \in ToSet(Named(s, n))
  BY <1>1, <1>2, <1>3, LastIs
<1>5. QED
  BY <1>3, <1>4

LEMMA ParsedIs ==
    ASSUME NEW overloads, NEW fs, NEW abis \in Seq(Fragments)
    PROVE  LET abi == ParseAndSetJsonInterface(overloads, abis) IN
           /\ IsAbi(abi)
           /\ ToSet(abi.interface) =
                 {f \in ToSet(abis) : f.kind # "error"}
           /\ Overloaded(overloads, fs) =>
                 Overloaded(abi.overloads, fs \cup Functions(ToSet(abis)))
<1> DEFINE known     == Those(abis, {f \in ToSet(abis) : f.kind # "error"})
           functions == FunctionsOf(known)
           events    == OfKinds(known, {"event"})
           errors    == OfKinds(abis, {"error"})
           abi       == ParseAndSetJsonInterface(overloads, abis)
<1>1. /\ known \in Seq(Fragments)
      /\ ToSet(known) = {f \in ToSet(abis) : f.kind # "error"}
  <2>1. known \in Seq(Fragments) /\ ToSet(known) = ToSet(abis) \cap {f \in ToSet(abis) : f.kind # "error"}
    BY ThoseAre
  <2> HIDE DEF known
  <2>2. QED
    BY <2>1
<1>2. errors \in Seq(Fragments) /\ ToSet(errors) = {f \in ToSet(abis) : f.kind \in {"error"}}
  BY KindsAre
<1> HIDE DEF known, errors
<1>3. functions \in Seq(Fragments) /\ ToSet(functions) = {f \in ToSet(known) : f.kind \in {"function"}}
  BY <1>1, KindsAre DEF FunctionsOf
<1>4. events \in Seq(Fragments) /\ ToSet(events) = {f \in ToSet(known) : f.kind \in {"event"}}
  BY <1>1, KindsAre
<1> HIDE DEF functions, events
<1>5. abi = [interface |-> known, errors |-> errors,
             overloads |-> [n \in DOMAIN overloads \cup Names(functions) |->
                               (IF n \in DOMAIN overloads THEN overloads[n] ELSE <<>>)
                               \o Named(functions, n)],
             methods   |-> [n \in Names(functions) |-> Last(Named(functions, n))],
             events    |-> [n \in Names(events) |-> Last(Named(events, n))]]
  BY DEF ParseAndSetJsonInterface, known, functions, events, errors
<1> HIDE DEF abi
<1>6. abi.interface = known /\ abi.errors = errors
  BY <1>5
<1>7. abi.methods = [n \in Names(functions) |-> Last(Named(functions, n))]
  BY <1>5
<1>8. abi.events = [n \in Names(events) |-> Last(Named(events, n))]
  BY <1>5
<1>9. IsAbi(abi)
  <2>1. ASSUME NEW n \in DOMAIN abi.methods
        PROVE  abi.methods[n] \in Functions(ToSet(known)) /\ abi.methods[n].name = n
    BY <1>3, <1>7, LastNamed DEF Functions
  <2>2. ASSUME NEW n \in DOMAIN abi.events
        PROVE  abi.events[n] \in Events(ToSet(known)) /\ abi.events[n].name = n
    BY <1>4, <1>8, LastNamed DEF Events
  <2>3. \A f \in ToSet(errors) : f.kind = "error"
    BY <1>2
  <2>4. QED
    BY <1>1, <1>2, <1>6, <2>1, <2>2, <2>3 DEF IsAbi
<1>10. ASSUME Overloaded(overloads, fs)
       PROVE  Overloaded(abi.overloads, fs \cup Functions(ToSet(abis)))
  <2> DEFINE all == fs \cup Functions(ToSet(abis))
             before(n) == IF n \in DOMAIN overloads THEN overloads[n] ELSE <<>>
             after == abi.overloads
  <2>1. after = [n \in DOMAIN overloads \cup Names(functions) |-> before(n) \o Named(functions, n)]
    BY <1>5
  <2>2. ToSet(functions) = Functions(ToSet(abis))
    BY <1>1, <1>3 DEF Functions
  <2>3. \A n : before(n) \in Seq(Fragments) /\ ToSet(before(n)) = {g \in fs : g.name = n}
    <3> SUFFICES ASSUME NEW n PROVE before(n) \in Seq(Fragments) /\ ToSet(before(n)) = {g \in fs : g.name = n}
      OBVIOUS
    <3>1. CASE n \in DOMAIN overloads
      BY <1>10, <3>1 DEF Overloaded
    <3>2. CASE n \notin DOMAIN overloads
      <4>1. {g \in fs : g.name = n} = {}
        BY <1>10, <3>2 DEF Overloaded
      <4>2. before(n) = <<>>
        BY <3>2
      <4>3. ToSet(<<>>) = {} /\ <<>> \in Seq(Fragments)
        BY DEF ToSet
      <4> HIDE DEF before
      <4>4. QED
        BY <4>1, <4>2, <4>3
    <3>3. QED
      BY <3>1, <3>2
  <2> HIDE DEF before, after
  <2>4. ASSUME NEW n \in DOMAIN after
        PROVE  after[n] \in Seq(Fragments) /\ ToSet(after[n]) = {g \in all : g.name = n}
    <3>1. /\ Named(functions, n) \in Seq(Fragments)
          /\ ToSet(Named(functions, n)) = {g \in ToSet(functions) : g.name = n}
      BY <1>3, NamedAre
    <3>2. /\ before(n) \o Named(functions, n) \in Seq(Fragments)
          /\ ToSet(before(n) \o Named(functions, n)) = ToSet(before(n)) \cup ToSet(Named(functions, n))
      BY <2>3, <3>1, JoinedIs
    <3>3. after[n] = before(n) \o Named(functions, n)
      BY <2>1
    <3>4. {g \in all : g.name = n} = {g \in fs : g.name = n} \cup {g \in ToSet(functions) : g.name = n}
      BY <2>2
    <3>5. QED
      BY <2>3, <3>1, <3>2, <3>3, <3>4
  <2>5. ASSUME NEW f \in all
        PROVE  f.name \in DOMAIN after
    <3>1. CASE f \in fs
      BY <1>10, <2>1, <3>1 DEF Overloaded
    <3>2. CASE f \in ToSet(functions)
      <4>1. f.name \in Names(functions)
        BY <3>2 DEF Names, ToSet
      <4>2. QED
        BY <2>1, <4>1
    <3>3. QED
      BY <2>2, <3>1, <3>2
  <2>6. Overloaded(after, all)
    BY <2>4, <2>5 DEF Overloaded
  <2>7. QED
    BY <2>6 DEF after
<1>11. QED
  BY <1>1, <1>6, <1>9, <1>10 DEF abi

---------------------------------------------------------------------------
(* The overload that is called *)

LEMMA MethodIs ==
    ASSUME NEW c, IsAbi(c.abi), NEW key, MethodAt(c, key) # Omitted
    PROVE  /\ MethodAt(c, key) \in Functions(ToSet(c.abi.interface))
           /\ MethodAt(c, key).name = key.name
<1> DEFINE interface == c.abi.interface
           functions == FunctionsOf(interface)
           fitting   == Those(functions, {f \in ToSet(functions) : Signature(f) = key})
<1>1. CASE key.types = Omitted
  BY <1>1 DEF MethodAt, IsAbi
<1>2. CASE key.types # Omitted
  <2>1. interface \in Seq(Fragments)
    BY DEF IsAbi
  <2>2. functions \in Seq(Fragments) /\ ToSet(functions) = Functions(ToSet(interface))
    BY <2>1, KindsAre DEF FunctionsOf, Functions
  <2>3. fitting # <<>> /\ MethodAt(c, key) = Last(fitting)
    BY <1>2 DEF MethodAt
  <2> HIDE DEF functions
  <2>4. /\ fitting \in Seq(Fragments)
        /\ ToSet(fitting) = ToSet(functions) \cap {f \in ToSet(functions) : Signature(f) = key}
    BY <2>2, ThoseAre
  <2> HIDE DEF fitting
  <2>5. fitting[1] \in ToSet(fitting)
    BY <2>3, <2>4 DEF ToSet
  <2>6. Last(fitting) \in ToSet(fitting)
    BY <2>4, <2>5, LastIs
  <2>7. Signature(Last(fitting)) = key /\ Last(fitting) \in Functions(ToSet(interface))
    BY <2>2, <2>4, <2>6
  <2>8. Signature(Last(fitting)).name = Last(fitting).name
    BY DEF Signature
  <2>9. QED
    BY <2>3, <2>7, <2>8
<1>3. QED
  BY <1>1, <1>2

(* Arguments that some overloads fit call one of these.                    *)
LEMMA OverloadIs ==
    ASSUME NEW c, NEW fs, Overloaded(c.abi.overloads, fs), NEW params, NEW abi \in fs,
           NEW meant, meant # {},
           meant = {g \in fs : g.name = abi.name /\ Len(g.inputs) = Len(params) /\ Fitting(g, params)},
           CreateContractMethod(c, abi, params) # Error
    PROVE  \E f \in meant :
              CreateContractMethod(c, abi, params) = [fragment |-> f, params |-> Arranged(f, params)]
<1> DEFINE abis     == c.abi.overloads[abi.name]
           named    == {g \in fs : g.name = abi.name}
           sameSize == Those(abis, {g \in ToSet(abis) : Len(g.inputs) = Len(params)})
           matching == Those(sameSize, {g \in ToSet(sameSize) : Fitting(g, params)})
<1>1. abis \in Seq(Fragments) /\ ToSet(abis) = named
  BY DEF Overloaded
<1>2. PICK f \in meant : f \in named /\ Len(f.inputs) = Len(params) /\ Fitting(f, params)
  OBVIOUS
<1>3. \A g \in named : Len(g.inputs) = Len(params) /\ Fitting(g, params) => g \in meant
  OBVIOUS
<1> HIDE DEF abis, named
<1>4. /\ sameSize \in Seq(Fragments)
      /\ ToSet(sameSize) = ToSet(abis) \cap {g \in ToSet(abis) : Len(g.inputs) = Len(params)}
  BY <1>1, ThoseAre
<1> HIDE DEF sameSize
<1>5. /\ matching \in Seq(Fragments)
      /\ ToSet(matching) = ToSet(sameSize) \cap {g \in ToSet(sameSize) : Fitting(g, params)}
  BY <1>4, ThoseAre
<1> HIDE DEF matching
<1>6. f \in ToSet(abis) /\ f \in ToSet(sameSize)
  BY <1>1, <1>2, <1>4
<1>7. sameSize # <<>>
  BY <1>6 DEF ToSet
<1>8. CASE Len(abis) = 1
  <2>1. abis[1] = f
    BY <1>1, <1>6, <1>8 DEF ToSet
  <2>2. CreateContractMethod(c, abi, params) =
           LET arranged == Arranged(abis[1], params) IN
           IF Validates(Types(abi.inputs), arranged) THEN [fragment |-> abis[1], params |-> arranged]
           ELSE Error
    BY <1>8 DEF CreateContractMethod, abis
  <2>3. QED
    BY <2>1, <2>2
<1>9. CASE Len(abis) # 1
  <2>1. CreateContractMethod(c, abi, params) =
           IF matching = <<>> THEN Error
           ELSE [fragment |-> matching[1], params |-> Arranged(matching[1], params)]
    BY <1>7, <1>9 DEF CreateContractMethod, abis, sameSize, matching
  <2>2. matching # <<>>
    BY <2>1
  <2>3. matching[1] \in ToSet(matching)
    BY <1>5, <2>2 DEF ToSet
  <2>4. matching[1] \in meant
    BY <1>1, <1>3, <1>4, <1>5, <2>3
  <2>5. QED
    BY <2>1, <2>2, <2>4
<1>10. QED
  BY <1>8, <1>9

---------------------------------------------------------------------------
(* What is sent *)

LEMMA FunctionEncoded ==
    ASSUME NEW f, f.kind = "function", NEW args, NEW deployData
    PROVE  EncodeMethodABI(f, args, deployData) \in {Error, [selector |-> Signature(f), args |-> args]}
  BY DEF EncodeMethodABI

LEMMA ConstructorEncoded ==
    ASSUME NEW f, f.kind = "constructor", NEW args, NEW code, NEW deployData \in {Omitted, code}
    PROVE  EncodeMethodABI(f, args, deployData) \in {Error, [code |-> code, args |-> args]}
  BY DEF EncodeMethodABI

Gives(fragment, params, code, what) == EncodeMethodABI(fragment, params, code) \in {Error, what}
AllFilled(both, what) ==
    Error \notin {both.data, both.input} => {both.data, both.input} \ {Omitted} = {what}

(* Whichever of data and input are filled, it is with the one encoding.    *)
LEMMA FilledIs ==
    ASSUME NEW tx, NEW fragment, NEW params, NEW fill, NEW what, what # Omitted,
           Gives(fragment, params, Given(tx.data, tx.input), what),
           Gives(fragment, params, Given(tx.input, tx.data), what),
           Gives(fragment, params, Omitted, what)
    PROVE  AllFilled(DataInputEncodeMethodHelper(tx, fragment, params, fill), what)
<1> DEFINE data  == IF tx.data # Omitted \/ fill = "both"
                    THEN EncodeMethodABI(fragment, params, Given(tx.data, tx.input)) ELSE Omitted
           input == IF tx.input # Omitted \/ fill = "both"
                    THEN EncodeMethodABI(fragment, params, Given(tx.input, tx.data)) ELSE Omitted
           alone == EncodeMethodABI(fragment, params, Omitted)
           both  == DataInputEncodeMethodHelper(tx, fragment, params, fill)
<1>1. data \in {Error, what, Omitted} /\ input \in {Error, what, Omitted} /\ alone \in {Error, what}
  BY DEF Gives
<1>2. both = IF data = Omitted /\ input = Omitted
             THEN [data |-> IF fill = "data" THEN alone ELSE Omitted,
                   input |-> IF fill = "data" THEN Omitted ELSE alone]
             ELSE [data |-> data, input |-> input]
  BY DEF DataInputEncodeMethodHelper
<1> HIDE DEF data, input, alone, both
<1>3. AllFilled(both, what)
  BY <1>1, <1>2 DEF AllFilled
<1>4. QED
  BY <1>3 DEF both

Fields == {"to", "from", "gas", "input", "data"}

IsBase(base) == base = [to |-> base.to, from |-> base.from, gas |-> base.gas,
                        input |-> base.input, data |-> base.data]
OneCode(fragment, params, options, base, what) ==
    \A d \in {Given(options.data, base.data), Given(options.input, base.input), Omitted} :
        Gives(fragment, params, d, what)
Sends(r, options, base, needsTo, needsFrom, what) ==
    /\ Filled(r, what)
    /\ r.to = Given(options.to, base.to)
    /\ r.from = Given(options.from, base.from)
    /\ needsTo => r.to # Omitted
    /\ needsFrom => r.from # Omitted

(* The options of a call go before those of the contract, and a call that  *)
(* is sent has what it needs.                                              *)
LEMMA TxParamsAre ==
    ASSUME NEW fragment, NEW params, NEW options \in CallOptions, NEW base, NEW fill,
           NEW needsTo \in BOOLEAN, NEW needsFrom \in BOOLEAN, NEW what, what # Omitted,
           IsBase(base), OneCode(fragment, params, options, base, what),
           NEW r, r # Error,
           r = TxParams(fragment, params, options, base, fill, needsTo, needsFrom)
    PROVE  Sends(r, options, base, needsTo, needsFrom, what)
<1> DEFINE tx   == [k \in DOMAIN base |->
                       IF k \in DOMAIN options THEN Given(options[k], base[k]) ELSE base[k]]
           both == DataInputEncodeMethodHelper(tx, fragment, params, fill)
<1>1. DOMAIN base = Fields /\ DOMAIN options = Fields
  BY OptionsAssumption DEF Fields, IsBase
<1>2. tx.to = Given(options.to, base.to) /\ tx.from = Given(options.from, base.from)
  BY <1>1 DEF Fields
<1>3. tx.data = Given(options.data, base.data) /\ tx.input = Given(options.input, base.input)
  BY <1>1 DEF Fields
<1>4. DOMAIN tx = Fields
  BY <1>1
<1> HIDE DEF tx
<1>5. r = IF \/ needsTo /\ tx.to = Omitted
             \/ needsFrom /\ tx.from = Omitted
             \/ Error \in {both.data, both.input}
          THEN Error ELSE [tx EXCEPT !.data = both.data, !.input = both.input]
  BY DEF TxParams, tx
<1>6. Given(tx.data, tx.input) \in {tx.data, tx.input} /\ Given(tx.input, tx.data) \in {tx.data, tx.input}
  BY DEF Given
<1>7. AllFilled(both, what)
  <2>1. /\ Gives(fragment, params, Given(tx.data, tx.input), what)
        /\ Gives(fragment, params, Given(tx.input, tx.data), what)
        /\ Gives(fragment, params, Omitted, what)
    BY <1>3, <1>6 DEF OneCode
  <2>2. QED
    BY <2>1, FilledIs
<1> HIDE DEF both
<1>8. /\ r = [tx EXCEPT !.data = both.data, !.input = both.input]
      /\ ~ (needsTo /\ tx.to = Omitted) /\ ~ (needsFrom /\ tx.from = Omitted)
      /\ Error \notin {both.data, both.input}
  BY <1>5
<1>9. r.data = both.data /\ r.input = both.input /\ r.to = tx.to /\ r.from = tx.from
  BY <1>4, <1>8 DEF Fields
<1>10. Filled(r, what)
  BY <1>7, <1>8, <1>9 DEF Filled, AllFilled
<1>11. QED
  BY <1>2, <1>8, <1>9, <1>10 DEF Sends

(* Whatever the data, a call has the receiver and the sender of the        *)
(* options, or those of the contract.                                      *)
LEMMA ReceiverIs ==
    ASSUME NEW fragment, NEW params, NEW options \in CallOptions, NEW base, NEW fill,
           NEW needsTo \in BOOLEAN, NEW needsFrom \in BOOLEAN, DOMAIN base = Fields, NEW r, r # Error,
           r = TxParams(fragment, params, options, base, fill, needsTo, needsFrom)
    PROVE  /\ r.to = Given(options.to, base.to)
           /\ r.from = Given(options.from, base.from)
           /\ needsFrom => r.from # Omitted
<1> DEFINE tx   == [k \in DOMAIN base |->
                       IF k \in DOMAIN options THEN Given(options[k], base[k]) ELSE base[k]]
           both == DataInputEncodeMethodHelper(tx, fragment, params, fill)
<1>1. DOMAIN options = Fields
  BY OptionsAssumption DEF Fields
<1>2. tx.to = Given(options.to, base.to) /\ tx.from = Given(options.from, base.from)
  BY <1>1 DEF Fields
<1>3. DOMAIN tx = Fields
  BY <1>1
<1> HIDE DEF tx
<1>4. r = IF \/ needsTo /\ tx.to = Omitted
             \/ needsFrom /\ tx.from = Omitted
             \/ Error \in {both.data, both.input}
          THEN Error ELSE [tx EXCEPT !.data = both.data, !.input = both.input]
  BY DEF TxParams, tx
<1> HIDE DEF both
<1>5. /\ r = [tx EXCEPT !.data = both.data, !.input = both.input]
      /\ ~ (needsFrom /\ tx.from = Omitted)
  BY <1>4
<1>6. r.to = tx.to /\ r.from = tx.from
  BY <1>3, <1>5 DEF Fields
<1>7. QED
  BY <1>2, <1>5, <1>6

---------------------------------------------------------------------------
(* The object *)

IsContract(c) ==
    /\ c = [abi |-> c.abi, address |-> c.address, options |-> c.options, fill |-> c.fill]
    /\ IsAbi(c.abi)
    /\ \E b \in Beginnings :
          /\ c.options.data = b.options.data /\ c.options.input = b.options.input
          /\ c.options.from = b.options.from
          /\ DOMAIN c.options = DOMAIN b.options

LEMMA MadeIs ==
    ASSUME NEW abis \in Seq(Fragments), NEW address, NEW options, NEW config, NEW b \in Beginnings,
           options.data = b.options.data, options.input = b.options.input,
           options.from = b.options.from, DOMAIN options = DOMAIN b.options,
           Make(abis, address, options, config) # Error
    PROVE  LET c == Make(abis, address, options, config) IN
           /\ IsContract(c)
           /\ c.abi = ParseAndSetJsonInterface(NoOverloads, abis)
           /\ Overloaded(c.abi.overloads, Functions(ToSet(abis)))
           /\ c.address = address /\ c.options = options
<1> DEFINE c   == Make(abis, address, options, config)
           abi == ParseAndSetJsonInterface(NoOverloads, abis)
           fill == IF config.contractDataInputFill = "both" THEN "both"
                   ELSE Given(options.dataInputFill, config.contractDataInputFill)
<1>1. c = [abi |-> abi, address |-> address, options |-> options, fill |-> fill]
  BY DEF Make
<1>2. IsAbi(abi) /\ Overloaded(abi.overloads, Functions(ToSet(abis)))
  <2>1. Overloaded(NoOverloads, {})
    BY DEF Overloaded, NoOverloads
  <2>2. IsAbi(abi) /\ Overloaded(abi.overloads, {} \cup Functions(ToSet(abis)))
    BY <2>1, ParsedIs
  <2>3. {} \cup Functions(ToSet(abis)) = Functions(ToSet(abis))
    OBVIOUS
  <2> HIDE DEF abi
  <2>4. QED
    BY <2>2, <2>3
<1> HIDE DEF c, abi, fill
<1>3. c.abi = abi /\ c.address = address /\ c.options = options /\ c.fill = fill
  BY <1>1
<1>4. IsContract(c)
  BY <1>1, <1>2, <1>3 DEF IsContract
<1>5. QED
  BY <1>2, <1>3, <1>4 DEF c, abi

LEMMA SetIs ==
    ASSUME NEW c, NEW address,
           c = [abi |-> c.abi, address |-> c.address, options |-> c.options, fill |-> c.fill],
           NEW d, d = [c EXCEPT !.address = address]
    PROVE  /\ d = [abi |-> d.abi, address |-> d.address, options |-> d.options, fill |-> d.fill]
           /\ d.abi = c.abi /\ d.address = address /\ d.options = c.options
  OBVIOUS

(* The functions an object was given, and those its overloads are of.      *)
IsHad ==
    /\ Overloaded(contract.abi.overloads, had)
    /\ Functions(ToSet(contract.abi.interface)) \subseteq had
    /\ had \subseteq Functions(Fragments)

OverloadsOf(through) ==
    IF through = "itself" THEN had ELSE Functions(ToSet(contract.abi.interface))

LEMMA ObjectIs ==
    ASSUME IsContract(contract), IsHad, NEW through \in {"itself", "clone", "deployed"},
           Object(through) # Error
    PROVE  LET c == Object(through) IN
           /\ IsAbi(c.abi) /\ Overloaded(c.abi.overloads, OverloadsOf(through))
           /\ Functions(ToSet(c.abi.interface)) = Functions(ToSet(contract.abi.interface))
           /\ c.address = IF through = "deployed" THEN "a3" ELSE contract.address
           /\ c.options.from = contract.options.from
<1> DEFINE known == contract.abi.interface
           clone == Clone(contract, settings)
           abis  == known \o contract.abi.errors
<1>1. /\ known \in Seq(Fragments) /\ contract.abi.errors \in Seq(Fragments)
      /\ \A f \in ToSet(contract.abi.errors) : f.kind = "error"
  BY DEF IsContract, IsAbi
<1>2. CASE through = "itself"
  BY <1>2 DEF Object, IsContract, IsHad, OverloadsOf
<1>3. ASSUME clone # Error
      PROVE  /\ IsContract(clone) /\ Overloaded(clone.abi.overloads, Functions(ToSet(known)))
             /\ Functions(ToSet(clone.abi.interface)) = Functions(ToSet(known))
             /\ clone.address = contract.address
             /\ clone.options.from = contract.options.from
  <2> DEFINE options == [contract.options EXCEPT !.dataInputFill = contract.fill]
             abi     == ParseAndSetJsonInterface(NoOverloads, abis)
  <2>1. abis \in Seq(Fragments) /\ ToSet(abis) = ToSet(known) \cup ToSet(contract.abi.errors)
    BY <1>1, JoinedIs
  <2> HIDE DEF abis
  <2>2. clone = Make(abis, contract.address, options, settings)
    BY DEF Clone, abis
  <2>3. PICK b \in Beginnings :
            /\ contract.options.data = b.options.data /\ contract.options.input = b.options.input
            /\ contract.options.from = b.options.from
            /\ DOMAIN contract.options = DOMAIN b.options
    BY DEF IsContract
  <2>4. /\ options.data = b.options.data /\ options.input = b.options.input
        /\ options.from = b.options.from /\ DOMAIN options = DOMAIN b.options
    BY <2>3, OptionsAssumption
  <2> HIDE DEF options, clone
  <2>5. Make(abis, contract.address, options, settings) # Error
    BY <1>3, <2>2
  <2>6. /\ IsContract(clone) /\ clone.abi = abi
        /\ Overloaded(clone.abi.overloads, Functions(ToSet(abis)))
        /\ clone.address = contract.address /\ clone.options = options
    <3> DEFINE made == Make(abis, contract.address, options, settings)
    <3>1. abis \in Seq(Fragments)
      BY <2>1
    <3>2. /\ IsContract(made) /\ made.abi = abi
          /\ Overloaded(made.abi.overloads, Functions(ToSet(abis)))
          /\ made.address = contract.address /\ made.options = options
      BY <3>1, <2>4, <2>5, MadeIs
    <3> HIDE DEF made, abi
    <3>3. QED
      BY <2>2, <3>2 DEF made
  <2>7. ToSet(abi.interface) = {f \in ToSet(abis) : f.kind # "error"}
    BY <2>1, ParsedIs
  <2> HIDE DEF abi
  <2>8. /\ Functions(ToSet(abi.interface)) = Functions(ToSet(known))
        /\ Functions(ToSet(abis)) = Functions(ToSet(known))
    BY <1>1, <2>1, <2>7 DEF Functions
  <2>9. QED
    BY <2>3, <2>4, <2>6, <2>7, <2>8
<1> HIDE DEF clone
<1>4. CASE through = "clone"
  <2>1. Object(through) = clone
    BY <1>4 DEF Object, clone
  <2>2. OverloadsOf(through) = Functions(ToSet(known))
    BY <1>4 DEF OverloadsOf
  <2>3. QED
    BY <1>3, <1>4, <2>1, <2>2 DEF IsContract
<1>5. CASE through = "deployed"
  <2> DEFINE d == Object(through)
  <2>1. clone # Error /\ d = [clone EXCEPT !.address = "a3"]
    BY <1>5 DEF Object, Deployed, clone
  <2> HIDE DEF d
  <2>2. clone = [abi |-> clone.abi, address |-> clone.address, options |-> clone.options,
                 fill |-> clone.fill]
    BY <1>3, <2>1 DEF IsContract
  <2>3. d.abi = clone.abi /\ d.address = "a3" /\ d.options = clone.options
    BY <2>1, <2>2, SetIs
  <2>4. OverloadsOf(through) = Functions(ToSet(known))
    BY <1>5 DEF OverloadsOf
  <2>5. QED
    BY <1>3, <1>5, <2>1, <2>3, <2>4 DEF IsContract, d
<1>6. QED
  BY <1>2, <1>4, <1>5

LEMMA GivenFunctions ==
    ASSUME NEW abis \in Seq(Fragments)
    PROVE  /\ ToSet(FunctionsOf(abis)) = Functions(ToSet(abis))
           /\ Functions(ToSet(abis)) \subseteq Functions(Fragments)
<1>1. ToSet(FunctionsOf(abis)) = Functions(ToSet(abis))
  BY KindsAre DEF FunctionsOf, Functions
<1>2. ToSet(abis) \subseteq Fragments
  BY DEF ToSet
<1>3. QED
  BY <1>1, <1>2 DEF Functions

LEMMA InitiallyContract ==
    ASSUME ConInit
    PROVE  IsContract(contract) /\ IsHad /\ asked = NoQuestion
<1>1. PICK b \in Beginnings : ConStart(b)
  BY DEF ConInit
<1>2. b.abis \in Seq(Fragments)
  BY InterfaceAssumption
<1> DEFINE c == Make(b.abis, b.address, b.options, b.config)
<1>3. /\ IsContract(c) /\ Overloaded(c.abi.overloads, Functions(ToSet(b.abis)))
      /\ c.abi = ParseAndSetJsonInterface(NoOverloads, b.abis)
  <2>1. Make(b.abis, b.address, b.options, b.config) # Error
    BY <1>1 DEF ConStart
  <2>2. QED
    BY <1>2, <2>1, MadeIs
<1>4. contract = c /\ asked = NoQuestion /\ had = ToSet(FunctionsOf(b.abis))
  BY <1>1 DEF ConStart
<1> HIDE DEF c
<1>5. had = Functions(ToSet(b.abis)) /\ had \subseteq Functions(Fragments)
  BY <1>2, <1>4, GivenFunctions
<1>6. Functions(ToSet(c.abi.interface)) \subseteq Functions(ToSet(b.abis))
  BY <1>2, <1>3, ParsedIs DEF Functions
<1>7. QED
  BY <1>3, <1>4, <1>5, <1>6 DEF IsHad

LEMMA ChangedKeeps ==
    ASSUME IsContract(contract), IsHad,
           ReplaceInterface \/ ParseAndSetAddress \/ SetContractDataInputFill
    PROVE  IsContract(contract') /\ IsHad' /\ asked' = NoQuestion
<1>1. CASE ReplaceInterface
  <2>1. PICK abis \in Interfaces :
            Changed([contract EXCEPT !.abi = ParseAndSetJsonInterface(contract.abi.overloads, abis)],
                    settings) /\ had' = had \cup ToSet(FunctionsOf(abis))
    BY <1>1 DEF ReplaceInterface
  <2> DEFINE abi == ParseAndSetJsonInterface(contract.abi.overloads, abis)
  <2>2. /\ IsAbi(abi)
        /\ Overloaded(abi.overloads, had \cup Functions(ToSet(abis)))
        /\ Functions(ToSet(abi.interface)) \subseteq Functions(ToSet(abis))
    <3>1. abis \in Seq(Fragments)
      BY InterfaceAssumption
    <3>2. /\ IsAbi(abi)
          /\ Overloaded(abi.overloads, had \cup Functions(ToSet(abis)))
          /\ ToSet(abi.interface) = {f \in ToSet(abis) : f.kind # "error"}
      BY <3>1, ParsedIs DEF IsHad
    <3> HIDE DEF abi
    <3>3. QED
      BY <3>2 DEF Functions
  <2>3. contract' = [contract EXCEPT !.abi = abi] /\ asked' = NoQuestion
    BY <2>1 DEF Changed
  <2> HIDE DEF abi
  <2>4. contract = [abi |-> contract.abi, address |-> contract.address,
                    options |-> contract.options, fill |-> contract.fill]
    BY DEF IsContract
  <2>5. /\ contract' = [abi |-> contract'.abi, address |-> contract'.address,
                        options |-> contract'.options, fill |-> contract'.fill]
        /\ contract'.abi = abi /\ contract'.options = contract.options
    BY <2>3, <2>4
  <2>6. /\ ToSet(FunctionsOf(abis)) = Functions(ToSet(abis))
        /\ Functions(ToSet(abis)) \subseteq Functions(Fragments)
    BY InterfaceAssumption, GivenFunctions
  <2>7. IsHad'
    BY <2>1, <2>2, <2>5, <2>6 DEF IsHad
  <2>8. IsContract(contract')
    BY <2>2, <2>5 DEF IsContract
  <2>9. QED
    BY <2>3, <2>7, <2>8
<1>2. CASE ParseAndSetAddress
  <2>1. PICK address : /\ contract' = [contract EXCEPT !.address = address] /\ asked' = NoQuestion
                       /\ had' = had
    BY <1>2 DEF ParseAndSetAddress, Changed
  <2>2. contract = [abi |-> contract.abi, address |-> contract.address,
                    options |-> contract.options, fill |-> contract.fill]
    BY DEF IsContract
  <2>3. /\ contract' = [abi |-> contract'.abi, address |-> contract'.address,
                        options |-> contract'.options, fill |-> contract'.fill]
        /\ contract'.abi = contract.abi /\ contract'.options = contract.options
    BY <2>1, <2>2, SetIs
  <2>4. IsContract(contract')
    BY <2>3 DEF IsContract
  <2>5. QED
    BY <2>1, <2>3, <2>4 DEF IsHad
<1>3. CASE SetContractDataInputFill
  BY <1>3 DEF SetContractDataInputFill, Changed, IsHad
<1>4. QED
  BY <1>1, <1>2, <1>3

---------------------------------------------------------------------------
(* A method is called *)

Encoding(f, params) == [selector |-> Signature(f), args |-> Arranged(f, params)]

Answer(purpose, c, m, options) ==
    CASE purpose = "call"             -> ContractMethodCall(c, m, options)
      [] purpose = "send"             -> ContractMethodSend(c, m, options)
      [] purpose = "estimateGas"      -> ContractMethodEstimateGas(c, m, options)
      [] purpose = "createAccessList" -> ContractMethodCreateAccessList(c, m, options)
      [] purpose = "encodeABI"        -> EncodeMethodABI(m.fragment, m.params, Omitted)

AsAsked(r, purpose, c, f, params, options) ==
    /\ Filled(r, Encoding(f, params))
    /\ r.to = Given(options.to, c.address)
    /\ purpose # "estimateGas" =>
          r.from = Given(options.from, Given(c.options.from, settings.defaultAccount))
    /\ purpose \in {"send", "createAccessList"} => r.from # Omitted
    /\ purpose \in {"call", "createAccessList"} => r.to # Omitted

(* Each way to call a method sends the encoding with what it needs.        *)
LEMMA SentIs ==
    ASSUME NEW c, NEW m, NEW f \in Fragments, f.kind = "function",
           NEW params \in Arguments, m = [fragment |-> f, params |-> Arranged(f, params)],
           NEW options \in CallOptions, NEW purpose \in Purposes, purpose # "encodeABI",
           NEW r, r # Error, r = Answer(purpose, c, m, options)
    PROVE  AsAsked(r, purpose, c, f, params, options)
<1> DEFINE what == Encoding(f, params)
<1>1. what # Omitted
  BY OmittedAssumption DEF Encoding
<1>2. \A d : Gives(f, Arranged(f, params), d, what)
  BY FunctionEncoded DEF Gives, Encoding
<1> HIDE DEF what
<1>3. m.fragment = f /\ m.params = Arranged(f, params)
  OBVIOUS
<1> DEFINE args == Arranged(f, params)
<1> HIDE DEF args
<1>4. CASE purpose = "call"
  <2> DEFINE base == Base(c, settings.defaultAccount)
  <2>1. r = TxParams(f, args, options, base, c.fill, TRUE, FALSE)
    BY <1>3, <1>4 DEF Answer, ContractMethodCall, GetEthTxCallParams, args
  <2>2. /\ IsBase(base)
        /\ base.to = c.address /\ base.from = Given(c.options.from, settings.defaultAccount)
    BY DEF Base, IsBase
  <2> HIDE DEF base
  <2>3. OneCode(f, args, options, base, what)
    BY <1>2 DEF OneCode, args
  <2>4. Sends(r, options, base, TRUE, FALSE, what)
    BY <1>1, <2>1, <2>2, <2>3, TxParamsAre
  <2>5. QED
    BY <1>4, <2>2, <2>4 DEF Sends, AsAsked, what
<1>5. CASE purpose = "send"
  <2> DEFINE base == [Base(c, settings.defaultAccount) EXCEPT !.input = Omitted]
             code == {base.input, base.data, options.input, options.data} \ {Omitted}
             none == code = {}
             fill == settings.contractDataInputFill
  <2>1. r = TxParams(f, args, options, base, fill, none, TRUE)
    BY <1>3, <1>5 DEF Answer, ContractMethodSend, GetSendTxParams, args
  <2>2. /\ IsBase(base)
        /\ base.to = c.address /\ base.from = Given(c.options.from, settings.defaultAccount)
    BY DEF Base, IsBase
  <2> HIDE DEF base, fill
  <2>3. none \in BOOLEAN
    OBVIOUS
  <2> HIDE DEF none
  <2>4. OneCode(f, args, options, base, what)
    BY <1>2 DEF OneCode, args
  <2>5. Sends(r, options, base, none, TRUE, what)
    BY <1>1, <2>1, <2>2, <2>3, <2>4, TxParamsAre
  <2>6. QED
    BY <1>5, <2>2, <2>5 DEF Sends, AsAsked, what
<1>6. CASE purpose = "estimateGas"
  <2> DEFINE base == Base(c, Omitted)
             fill == settings.contractDataInputFill
  <2>1. r = TxParams(f, args, options, base, fill, FALSE, FALSE)
    BY <1>3, <1>6 DEF Answer, ContractMethodEstimateGas, GetEstimateGasParams, args
  <2>2. /\ IsBase(base)
        /\ base.to = c.address
    BY DEF Base, IsBase
  <2> HIDE DEF base, fill
  <2>3. OneCode(f, args, options, base, what)
    BY <1>2 DEF OneCode, args
  <2>4. Sends(r, options, base, FALSE, FALSE, what)
    BY <1>1, <2>1, <2>2, <2>3, TxParamsAre
  <2>5. QED
    BY <1>6, <2>2, <2>4 DEF Sends, AsAsked, what
<1>7. CASE purpose = "createAccessList"
  <2> DEFINE base == Base(c, settings.defaultAccount)
             fill == settings.contractDataInputFill
  <2>1. r = TxParams(f, args, options, base, fill, TRUE, TRUE)
    BY <1>3, <1>7 DEF Answer, ContractMethodCreateAccessList, GetCreateAccessListParams, args
  <2>2. /\ IsBase(base)
        /\ base.to = c.address /\ base.from = Given(c.options.from, settings.defaultAccount)
    BY DEF Base, IsBase
  <2> HIDE DEF base, fill
  <2>3. OneCode(f, args, options, base, what)
    BY <1>2 DEF OneCode, args
  <2>4. Sends(r, options, base, TRUE, TRUE, what)
    BY <1>1, <2>1, <2>2, <2>3, TxParamsAre
  <2>5. QED
    BY <1>7, <2>2, <2>4 DEF Sends, AsAsked, what
<1>8. QED
  BY <1>4, <1>5, <1>6, <1>7 DEF Purposes

LEMMA MethodAnswered ==
    ASSUME IsContract(contract), IsHad, AskMethod
    PROVE  CallsWhatWasAsked' /\ contract' = contract /\ had' = had
<1> DEFINE functions == ToSet(FunctionsOf(contract.abi.interface))
           keys == {Signature(f) : f \in functions} \cup {[name |-> f.name, types |-> Omitted] : f \in functions}
<1>1. PICK through \in {"itself", "clone", "deployed"}, purpose \in Purposes, params \in Arguments,
           options \in CallOptions, key \in keys :
              Ask([topic |-> "method", through |-> through, purpose |-> purpose, key |-> key,
                   params |-> params, options |-> options],
                  IF Object(through) = Error THEN Error
                  ELSE Method(Object(through), purpose, key, params, options))
  BY DEF AskMethod
<1> DEFINE c == Object(through)
<1>2. /\ asked'.topic = "method" /\ asked'.through = through /\ asked'.purpose = purpose
      /\ asked'.key = key /\ asked'.params = params /\ asked'.options = options
  BY <1>1 DEF Ask
<1>3. sent' = IF c = Error THEN Error ELSE Method(c, purpose, key, params, options)
  BY <1>1 DEF Ask
<1>4. contract' = contract /\ settings' = settings /\ had' = had
  BY <1>1 DEF Ask
<1>5. functions = Functions(ToSet(contract.abi.interface)) /\ functions \subseteq Fragments
  <2>1. contract.abi.interface \in Seq(Fragments)
    BY DEF IsContract, IsAbi
  <2>2. functions = Functions(ToSet(contract.abi.interface))
    BY <2>1, KindsAre DEF FunctionsOf, Functions
  <2>3. ToSet(contract.abi.interface) \subseteq Fragments
    BY <2>1 DEF ToSet
  <2>4. QED
    BY <2>2, <2>3 DEF Functions
<1> DEFINE fs    == OverloadsOf(through)
           meant == {f \in fs : f.name = key.name /\ Len(f.inputs) = Len(params) /\ Fitting(f, params)}
<1>6. Meant' = meant
  BY <1>2, <1>4, <1>5 DEF Meant, OverloadsOf
<1>7. functions \subseteq fs /\ fs \subseteq Functions(Fragments)
  BY <1>5 DEF OverloadsOf, IsHad, Functions
<1> HIDE DEF functions, c, fs
<1> DEFINE to == IF through = "deployed" THEN "a3" ELSE contract.address
           Sent(f) ==
              IF purpose = "encodeABI" THEN sent' = Encoding(f, params)
              ELSE /\ Filled(sent', Encoding(f, params))
                   /\ sent'.to = Given(options.to, to)
                   /\ purpose # "estimateGas" =>
                         sent'.from = Given(options.from, Given(contract.options.from, settings.defaultAccount))
                   /\ purpose \in {"send", "createAccessList"} => sent'.from # Omitted
                   /\ purpose \in {"call", "createAccessList"} => sent'.to # Omitted
<1>8. ASSUME meant # {}, sent' # Error
      PROVE  \E f \in meant : Sent(f)
  <2> DEFINE abi == MethodAt(c, key)
             m   == CreateContractMethod(c, abi, params)
  <2>1. /\ IsAbi(c.abi) /\ Overloaded(c.abi.overloads, fs)
        /\ Functions(ToSet(c.abi.interface)) = functions
        /\ c.address = to
        /\ c.options.from = contract.options.from
    <3>1. Object(through) # Error
      BY <1>3, <1>8 DEF c
    <3>2. QED
      BY <1>5, <3>1, ObjectIs DEF c, fs
  <2>2. /\ abi # Omitted /\ m # Error
        /\ sent' = Answer(purpose, c, m, options)
    BY <1>3, <1>8 DEF Method, Answer
  <2>3. abi \in functions /\ abi.name = key.name
    BY <2>1, <2>2, MethodIs
  <2> HIDE DEF abi
  <2>4. meant = {g \in fs : g.name = abi.name /\ Len(g.inputs) = Len(params) /\ Fitting(g, params)}
    BY <2>3
  <2>5. PICK f \in meant : m = [fragment |-> f, params |-> Arranged(f, params)]
    <3> HIDE DEF meant
    <3>1. QED
      BY <1>7, <1>8, <2>1, <2>2, <2>3, <2>4, OverloadIs
  <2>6. f \in Fragments /\ f.kind = "function"
    BY <1>7 DEF Functions
  <2> HIDE DEF m
  <2>7. CASE purpose = "encodeABI"
    <3>1. sent' = EncodeMethodABI(f, Arranged(f, params), Omitted)
      BY <2>2, <2>5, <2>7 DEF Answer
    <3>2. Sent(f)
      BY <1>8, <2>6, <2>7, <3>1, FunctionEncoded DEF Encoding
    <3> HIDE DEF Sent, meant
    <3>3. QED
      BY <3>2
  <2>8. CASE purpose # "encodeABI"
    <3> DEFINE r == sent'
    <3>1. r # Error
      BY <1>8
    <3>2. r = Answer(purpose, c, m, options)
      BY <2>2
    <3> HIDE DEF r
    <3>3. AsAsked(r, purpose, c, f, params, options)
      BY <2>5, <2>6, <2>8, <3>1, <3>2, SentIs
    <3>4. Sent(f)
      BY <2>1, <2>8, <3>3 DEF AsAsked, r
    <3> HIDE DEF Sent, meant
    <3>5. QED
      BY <3>4
  <2>9. QED
    BY <2>7, <2>8
<1> HIDE DEF to, meant
<1>9. CallsWhatWasAsked'
  <2>1. From' = Given(options.from, Given(contract.options.from, settings.defaultAccount))
    BY <1>2, <1>4 DEF From
  <2>2. contract'.address = contract.address
    BY <1>4
  <2>3. ASSUME NEW f \in meant, Sent(f)
        PROVE  SentFor(f)'
    BY <1>2, <2>1, <2>2, <2>3 DEF SentFor, Encoding, to
  <2> HIDE DEF Sent
  <2>4. (sent' # Error /\ meant # {}) => \E f \in meant : SentFor(f)'
    BY <1>8, <2>3
  <2>5. QED
    BY <1>2, <1>6, <2>4 DEF CallsWhatWasAsked
<1>10. QED
  BY <1>4, <1>9

---------------------------------------------------------------------------
(* A contract is deployed *)

LEMMA ConstructorIs ==
    ASSUME NEW c, c.abi.interface \in Seq(Fragments)
    PROVE  Constructor(c).kind = "constructor"
<1> DEFINE all == OfKinds(c.abi.interface, {"constructor"})
<1>1. all \in Seq(Fragments) /\ ToSet(all) = {f \in ToSet(c.abi.interface) : f.kind \in {"constructor"}}
  BY KindsAre
<1>2. Constructor(c) = IF all = <<>>
                       THEN [kind |-> "constructor", name |-> Omitted, inputs |-> <<>>, anonymous |-> FALSE]
                       ELSE all[1]
  BY DEF Constructor
<1> HIDE DEF all
<1>3. CASE all = <<>>
  BY <1>2, <1>3
<1>4. CASE all # <<>>
  <2>1. all[1] \in ToSet(all)
    BY <1>1, <1>4 DEF ToSet
  <2>2. QED
    BY <1>1, <1>2, <1>4, <2>1
<1>5. QED
  BY <1>3, <1>4

LEMMA DeployAnswered ==
    ASSUME IsContract(contract), AskDeploy
    PROVE  CallsWhatWasAsked' /\ contract' = contract /\ had' = had
<1>1. PICK purpose \in {"send", "estimateGas", "encodeABI"}, given \in DeployOptions, options \in CallOptions :
          Ask([topic |-> "deploy", purpose |-> purpose, given |-> given, options |-> options],
              Deploy(contract, purpose, given, options))
  BY DEF AskDeploy
<1>2. /\ asked'.topic = "deploy" /\ asked'.purpose = purpose
      /\ asked'.given = given /\ asked'.options = options
  BY <1>1 DEF Ask
<1>3. /\ sent' = Deploy(contract, purpose, given, options)
      /\ contract' = contract /\ settings' = settings /\ had' = had
  BY <1>1 DEF Ask
<1> DEFINE codes == {given.data, given.input, contract.options.data, contract.options.input,
                     options.data, options.input} \ {Omitted}
<1>4. ASSUME NEW code \in codes, codes = {code}, sent' # Error
      PROVE  IF purpose = "encodeABI" THEN sent' = [code |-> code, args |-> given.arguments]
             ELSE Filled(sent', [code |-> code, args |-> given.arguments])
  <2> DEFINE what  == [code |-> code, args |-> given.arguments]
             input == Given(given.input, contract.options.input)
             data  == Given(given.data, contract.options.data)
             from  == IF purpose = "send" THEN settings.defaultAccount ELSE Omitted
             base  == [Base(contract, from) EXCEPT !.input = input, !.data = data]
             args  == given.arguments
             f     == Constructor(contract)
             r     == sent'
  <2>1. code \in Codes /\ code # Omitted
    <3>1. contract.options.data \in Codes /\ contract.options.input \in Codes
      BY DEF IsContract, Codes
    <3>2. {given.data, given.input, options.data, options.input} \subseteq Codes
      BY DEF Codes
    <3>3. QED
      BY <1>4, <3>1, <3>2
  <2>2. what # Omitted
    BY <2>1, OmittedAssumption
  <2>3. {given.data, given.input, contract.options.data, contract.options.input,
         options.data, options.input} \subseteq {Omitted, code}
    BY <1>4
  <2>4. input \in {Omitted, code} /\ data \in {Omitted, code}
    BY <2>3 DEF Given
  <2>5. ~ ({input, data} \subseteq {Omitted, Empty})
    BY <1>3, <1>4 DEF Deploy
  <2>6. f.kind = "constructor"
    BY ConstructorIs DEF IsContract, IsAbi
  <2> HIDE DEF f, what, input, data, from
  <2>7. IsBase(base) /\ base.input = input /\ base.data = data
    <3> DEFINE b0 == Base(contract, from)
               b1 == [b0 EXCEPT !.input = input]
    <3>1. IsBase(b0)
      BY DEF Base, IsBase
    <3> HIDE DEF b0
    <3>2. IsBase(b1) /\ b1.input = input
      BY <3>1 DEF IsBase
    <3>3. base = [b1 EXCEPT !.data = data]
      BY DEF b0
    <3> HIDE DEF b1, base
    <3>4. QED
      BY <3>2, <3>3 DEF IsBase
  <2>8. ASSUME NEW d \in {Omitted, code}
        PROVE  Gives(f, args, d, what)
    BY <2>6, ConstructorEncoded DEF Gives, what
  <2>9. OneCode(f, args, options, base, what)
    <3>1. /\ Given(options.data, base.data) \in {Omitted, code}
          /\ Given(options.input, base.input) \in {Omitted, code}
      BY <2>3, <2>4, <2>7 DEF Given
    <3> HIDE DEF base
    <3>2. QED
      BY <2>8, <3>1 DEF OneCode
  <2>10. sent' = CASE purpose = "send" -> ContractMethodDeploySend(contract, args, options, base)
                   [] purpose = "estimateGas" ->
                        GetEstimateGasParams(f, args, options, base, settings.contractDataInputFill)
                   [] purpose = "encodeABI" -> EncodeMethodABI(f, args, Given(input, data))
    BY <1>3, <2>5 DEF Deploy, f, input, data, from
  <2> HIDE DEF base, args
  <2>11. CASE purpose = "encodeABI"
    <3>1. Given(input, data) \in {Omitted, code}
      BY <2>4 DEF Given
    <3>2. sent' = EncodeMethodABI(f, args, Given(input, data))
      BY <2>10, <2>11
    <3>3. sent' = what
      BY <1>4, <2>8, <3>1, <3>2 DEF Gives
    <3>4. QED
      BY <2>11, <3>3 DEF what, args
  <2>12. CASE purpose = "send"
    <3> DEFINE none == {base.input, base.data, options.input, options.data} \ {Omitted} = {}
               fill == settings.contractDataInputFill
    <3>1. r = TxParams(f, args, options, base, fill, none, TRUE)
      BY <2>10, <2>12 DEF ContractMethodDeploySend, GetSendTxParams, f
    <3>2. none \in BOOLEAN /\ r # Error
      BY <1>4
    <3> HIDE DEF none, fill, r
    <3>3. Sends(r, options, base, none, TRUE, what)
      BY <2>2, <2>7, <2>9, <3>1, <3>2, TxParamsAre
    <3>4. QED
      BY <2>12, <3>3 DEF Sends, what, args, r
  <2>13. CASE purpose = "estimateGas"
    <3> DEFINE fill == settings.contractDataInputFill
    <3>1. r = TxParams(f, args, options, base, fill, FALSE, FALSE)
      BY <2>10, <2>13 DEF GetEstimateGasParams
    <3>2. r # Error
      BY <1>4
    <3> HIDE DEF fill, r
    <3>3. Sends(r, options, base, FALSE, FALSE, what)
      BY <2>2, <2>7, <2>9, <3>1, <3>2, TxParamsAre
    <3>4. QED
      BY <2>13, <3>3 DEF Sends, what, args, r
  <2>14. QED
    BY <2>11, <2>12, <2>13
<1> HIDE DEF codes
<1>5. ASSUME sent' # Error, purpose # "encodeABI"
      PROVE  /\ sent'.to = Given(options.to, contract.address)
             /\ purpose = "send" =>
                   /\ sent'.from = Given(options.from, Given(contract.options.from, settings.defaultAccount))
                   /\ sent'.from # Omitted
  <2> DEFINE input == Given(given.input, contract.options.input)
             data  == Given(given.data, contract.options.data)
             from  == IF purpose = "send" THEN settings.defaultAccount ELSE Omitted
             base  == [Base(contract, from) EXCEPT !.input = input, !.data = data]
             args  == given.arguments
             f     == Constructor(contract)
             fill  == settings.contractDataInputFill
             none  == {base.input, base.data, options.input, options.data} \ {Omitted} = {}
             sends == purpose = "send"
             needs == sends /\ none
             r     == sent'
  <2>1. ~ ({input, data} \subseteq {Omitted, Empty})
    BY <1>3, <1>5 DEF Deploy
  <2>2. /\ DOMAIN base = Fields
        /\ base.to = contract.address /\ base.from = Given(contract.options.from, from)
    BY DEF Base, Fields
  <2>3. r = TxParams(f, args, options, base, fill, needs, sends)
    <3>1. CASE purpose = "send"
      BY <1>3, <2>1, <3>1 DEF Deploy, ContractMethodDeploySend, GetSendTxParams
    <3>2. CASE purpose = "estimateGas"
      BY <1>3, <2>1, <3>2 DEF Deploy, GetEstimateGasParams
    <3>3. QED
      BY <1>5, <3>1, <3>2
  <2>4. r # Error /\ needs \in BOOLEAN /\ sends \in BOOLEAN
    BY <1>5
  <2> HIDE DEF input, data, base, args, f, fill, none, needs, sends, r
  <2>5. /\ r.to = Given(options.to, base.to) /\ r.from = Given(options.from, base.from)
        /\ sends => r.from # Omitted
    BY <2>2, <2>3, <2>4, ReceiverIs
  <2>6. QED
    BY <2>2, <2>5 DEF r, sends
<1>6. CallsWhatWasAsked'
  <2>1. From' = Given(options.from, Given(contract.options.from, settings.defaultAccount))
    BY <1>2, <1>3 DEF From
  <2>2. \A code \in codes : (codes = {code} /\ sent' # Error) =>
           IF purpose = "encodeABI" THEN sent' = [code |-> code, args |-> given.arguments]
           ELSE Filled(sent', [code |-> code, args |-> given.arguments])
    BY <1>4
  <2>3. QED
    BY <1>2, <1>3, <1>5, <2>1, <2>2 DEF CallsWhatWasAsked, codes
<1>7. QED
  BY <1>3, <1>6

LEMMA EventsAnswered ==
    ASSUME AskPastEvents \/ AskEvents
    PROVE  asked'.topic \in {"past", "events"} /\ contract' = contract /\ had' = had
  BY DEF AskPastEvents, AskEvents, Ask

LEMMA AskingMethod ==
    ASSUME AskMethod
    PROVE  asked'.topic = "method" /\ contract' = contract /\ had' = had
<1>1. PICK q, a : Ask(q, a) /\ q.topic = "method"
  BY DEF AskMethod
<1>2. QED
  BY <1>1 DEF Ask

LEMMA StepsKeepCalls ==
    ASSUME IsContract(contract), IsHad, CallsWhatWasAsked, [ConNext]_contractVars
    PROVE  IsContract(contract') /\ IsHad' /\ CallsWhatWasAsked'
<1>1. ASSUME contract' = contract, had' = had
      PROVE  IsContract(contract') /\ IsHad'
  BY <1>1 DEF IsHad
<1>2. CASE ReplaceInterface \/ ParseAndSetAddress \/ SetContractDataInputFill
  <2>1. IsContract(contract') /\ IsHad' /\ asked' = NoQuestion
    BY <1>2, ChangedKeeps
  <2>2. asked'.topic = "none"
    BY <2>1 DEF NoQuestion
  <2>3. QED
    BY <2>1, <2>2 DEF CallsWhatWasAsked
<1>3. CASE AskMethod
  BY <1>1, <1>3, MethodAnswered
<1>4. CASE AskDeploy
  BY <1>1, <1>4, DeployAnswered
<1>5. CASE AskPastEvents \/ AskEvents
  <2>1. asked'.topic \in {"past", "events"} /\ contract' = contract /\ had' = had
    BY <1>5, EventsAnswered
  <2>2. CallsWhatWasAsked'
    BY <2>1 DEF CallsWhatWasAsked
  <2>3. QED
    BY <1>1, <2>1, <2>2
<1>6. CASE UNCHANGED contractVars
  <2>1. contract' = contract /\ had' = had /\ settings' = settings /\ asked' = asked /\ sent' = sent
    BY <1>6 DEF contractVars
  <2>2. CallsWhatWasAsked'
    BY <2>1 DEF CallsWhatWasAsked, Meant, SentFor, From
  <2>3. QED
    BY <1>1, <2>1, <2>2
<1>7. QED
  BY <1>2, <1>3, <1>4, <1>5, <1>6 DEF ConNext

(* What a method call sends is the call of an overload the arguments fit,  *)
(* among those of every interface the object was given, be it asked of the *)
(* object after any number of changes, of a clone or of what it deployed;  *)
(* a deployment sends the code that was given, to the address the object   *)
(* or the call has, if one does                                            *)
(* (web3-eth-contract/src/contract.ts, utils.ts).                          *)
THEOREM MethodsCallWhatWasAsked == ConSpec => []CallsWhatWasAsked
<1> DEFINE Inv == IsContract(contract) /\ IsHad /\ CallsWhatWasAsked
<1>1. ConInit => Inv
  <2> SUFFICES ASSUME ConInit PROVE Inv
    OBVIOUS
  <2>1. IsContract(contract) /\ IsHad /\ asked.topic = "none"
    BY InitiallyContract DEF NoQuestion
  <2>2. QED
    BY <2>1 DEF CallsWhatWasAsked
<1>2. Inv /\ [ConNext]_contractVars => Inv'
  BY StepsKeepCalls
<1>3. Inv => CallsWhatWasAsked
  OBVIOUS
<1>4. QED
  BY <1>1, <1>2, <1>3, PTL DEF ConSpec

---------------------------------------------------------------------------
(* Events *)

(* A log with a signature of the interface was written by that fragment:   *)
(* two events of one signature do not differ in what they index.           *)
LogsToldApart ==
    \A log \in Logs, f \in Fragments :
        ~ log.fragment.anonymous /\ Id(log.fragment) = Id(f) => log.fragment = f

(* The topics of one input.                                                *)
OneTopic(p, filter) ==
    IF p.name \notin DOMAIN filter THEN {}
    ELSE LET v == filter[p.name] IN
         IF v \in Falsy THEN {}
         ELSE IF v.form = "array" THEN {EncodeParameter(p.type, w) : w \in ToSet(v.items)}
         ELSE IF IsString(p.type) THEN {Keccak256(v)}
         ELSE {EncodeParameter(p.type, v)}

(* Topics no log has, and those a log may have.                            *)
IsLong(t)  == \E w : t = [parameter |-> w]
Plain(t)   == \E w : t = Topic(w) \/ t = Hash(w)
Hopeless(topic) == Error \in topic \/ (topic # {} /\ \A t \in topic : IsLong(t))

LEMMA HeadedIs ==
    ASSUME NEW x, NEW n \in Nat, NEW g, DOMAIN g = 1 .. n, g = [i \in 1 .. n |-> g[i]]
    PROVE  /\ Len(<<x>> \o g) = n + 1 /\ (<<x>> \o g)[1] = x
           /\ DOMAIN (<<x>> \o g) = 1 .. n + 1
           /\ \A i \in 1 .. n : (<<x>> \o g)[i + 1] = g[i]
           /\ <<>> \o g = g
<1> DEFINE T == {g[i] : i \in 1 .. n} \cup {x}
<1>1. \A i \in 1 .. n : g[i] \in T
  OBVIOUS
<1>2. x \in T
  OBVIOUS
<1> HIDE DEF T
<1>3. g \in [1 .. n -> T]
  BY <1>1
<1>4. g \in Seq(T) /\ Len(g) = n
  BY <1>3
<1>5. <<x>> \in Seq(T) /\ Len(<<x>>) = 1 /\ <<x>>[1] = x
  BY <1>2
<1>6. /\ <<x>> \o g \in Seq(T) /\ Len(<<x>> \o g) = 1 + n
      /\ \A i \in 1 .. 1 + n : (<<x>> \o g)[i] = IF i <= 1 THEN <<x>>[i] ELSE g[i - 1]
  BY <1>4, <1>5
<1>7. <<>> \o g = g
  BY <1>4
<1>8. \A i \in 1 .. n : (<<x>> \o g)[i + 1] = g[i]
  BY <1>6
<1>9. (<<x>> \o g)[1] = x
  BY <1>5, <1>6
<1>10. DOMAIN (<<x>> \o g) = 1 .. n + 1
  BY <1>6
<1>11. QED
  BY <1>6, <1>7, <1>8, <1>9, <1>10

LEMMA IndexedAre ==
    ASSUME NEW f, f.inputs \in Seq(ToSet(f.inputs))
    PROVE  /\ Len(Indexed(f)) \in Nat /\ DOMAIN Indexed(f) = 1 .. Len(Indexed(f))
           /\ ToSet(Indexed(f)) = {p \in ToSet(f.inputs) : p.indexed}
<1> DEFINE T == ToSet(f.inputs)
<1> HIDE DEF T
<1>1. f.inputs \in Seq(T)
  BY DEF T
<1>2. /\ Indexed(f) \in Seq(T)
      /\ ToSet(Indexed(f)) = ToSet(f.inputs) \cap {p \in ToSet(f.inputs) : p.indexed}
  BY <1>1, ThoseAre DEF Indexed
<1>3. QED
  BY <1>2

LEMMA FormsAre ==
    ASSUME NEW o \in Filters, NEW n \in DOMAIN o.filter
    PROVE  /\ "form" \in DOMAIN o.filter[n]
           /\ \A w \in Alternatives(o.filter[n]) : "form" \in DOMAIN w
  BY ValuesAssumption DEF Alternatives

LEMMA EncodedIs ==
    ASSUME NEW type, NEW v
    PROVE  /\ Hashed(type) => EncodeParameter(type, v) = Error \/ IsLong(EncodeParameter(type, v))
           /\ ~ Hashed(type) /\ v.form = "array" => EncodeParameter(type, v) = Error
           /\ ~ Hashed(type) /\ v.form # "array" => EncodeParameter(type, v) = Topic(Means(v))
<1>1. ASSUME Hashed(type)
      PROVE  EncodeParameter(type, v) \in {Error, [parameter |-> v]}
  BY <1>1 DEF EncodeParameter
<1>2. ASSUME ~ Hashed(type)
      PROVE  type.arrays = <<>> /\ type.base # "tuple"
  BY <1>2 DEF Hashed
<1>3. ASSUME ~ Hashed(type), v.form = "array"
      PROVE  EncodeParameter(type, v) = Error
  BY <1>2, <1>3 DEF EncodeParameter
<1>4. ASSUME ~ Hashed(type), v.form # "array"
      PROVE  EncodeParameter(type, v) = Topic(Means(v))
  BY <1>2, <1>4 DEF EncodeParameter
<1>5. QED
  BY <1>1, <1>3, <1>4 DEF IsLong

(* Values without a topic leave none that a log can have.                  *)
LEMMA OneTopicRefused ==
    ASSUME NEW p, NEW filter, p.name \in DOMAIN filter, NoTopicFor(p, filter[p.name])
    PROVE  Hopeless(OneTopic(p, filter))
<1> DEFINE v     == filter[p.name]
           topic == OneTopic(p, filter)
<1>1. v \notin Falsy
  BY DEF NoTopicFor
<1>2. PICK w \in Alternatives(v) :
          w.form = "array" \/ (Hashed(p.type) /\ ~ (IsString(p.type) /\ v.form # "array"))
  BY DEF NoTopicFor
<1>3. CASE v.form = "array"
  <2>1. topic = {EncodeParameter(p.type, u) : u \in ToSet(v.items)} /\ w \in ToSet(v.items)
    BY <1>1, <1>2, <1>3 DEF OneTopic, Alternatives
  <2> HIDE DEF topic, v
  <2>2. Hopeless(topic)
    <3>1. ASSUME Hashed(p.type)
          PROVE  Hopeless(topic)
      BY <2>1, <3>1, EncodedIs DEF Hopeless
    <3>2. ASSUME ~ Hashed(p.type)
          PROVE  Hopeless(topic)
      <4>1. EncodeParameter(p.type, w) = Error
        BY <1>2, <3>2, EncodedIs
      <4>2. QED
        BY <2>1, <4>1 DEF Hopeless
    <3>3. QED
      BY <3>1, <3>2
  <2>3. QED
    BY <2>2 DEF topic
<1>4. CASE v.form # "array"
  <2>1. w = v
    BY <1>2, <1>4 DEF Alternatives
  <2>2. Hashed(p.type) /\ ~ IsString(p.type)
    BY <1>2, <1>4, <2>1
  <2>3. topic = {EncodeParameter(p.type, v)}
    BY <1>1, <1>4, <2>2 DEF OneTopic
  <2> HIDE DEF topic, v
  <2>4. QED
    BY <2>2, <2>3, EncodedIs DEF Hopeless, topic
<1>5. QED
  BY <1>3, <1>4

(* A value of a log, as it is decoded.                                     *)
IsValue(p, value) ==
    /\ "form" \in DOMAIN value
    /\ Means(value) = value
    /\ value.form = "word" => Hashed(p.type)

LEMMA HashOfString ==
    ASSUME NEW v, v.form # "array", NEW value, "form" \in DOMAIN value
    PROVE  Keccak256(v) = Hash(value) <=> SameString(v, value)
<1>1. \A x, y : Hash(x) = Hash(y) <=> x = y
  BY DEF Hash
<1>2. [octets |-> v] # value
  OBVIOUS
<1>3. CASE v.form \in {"hex", "address"}
  BY <1>1, <1>2, <1>3 DEF Keccak256, SameString
<1>4. CASE v.form \notin {"hex", "address"}
  BY <1>1, <1>4 DEF Keccak256, SameString
<1>5. QED
  BY <1>3, <1>4

(* One topic is met just by the values the filter names.                   *)
LEMMA OneTopicSays ==
    ASSUME NEW o \in Filters, NEW p, p.indexed, NEW value, IsValue(p, value),
           p.name \in DOMAIN o.filter => ~ NoTopicFor(p, o.filter[p.name])
    PROVE  /\ OneTopic(p, o.filter) = {} \/ Stored(p, value) \in OneTopic(p, o.filter)
                 <=> (p.name \in DOMAIN o.filter => NamedByTopic(p, o.filter[p.name], value))
           /\ \A t \in OneTopic(p, o.filter) : Plain(t)
<1> DEFINE v     == o.filter[p.name]
           topic == OneTopic(p, o.filter)
           Wanted == p.name \in DOMAIN o.filter /\ v \notin Falsy
<1>1. CASE ~ Wanted
  <2>1. topic = {}
    BY <1>1 DEF OneTopic
  <2>2. p.name \in DOMAIN o.filter => NamedByTopic(p, v, value)
    BY <1>1 DEF NamedByTopic
  <2> HIDE DEF topic, v
  <2>3. QED
    BY <2>1, <2>2 DEF topic, v
<1>2. CASE Wanted
  <2>1. \A w \in Alternatives(v) :
           w.form # "array" /\ (Hashed(p.type) => IsString(p.type) /\ v.form # "array")
    BY <1>2 DEF NoTopicFor
  <2>2. IsString(p.type) => Hashed(p.type)
    BY DEF IsString, Hashed
  <2>3. CASE v.form = "array"
    <3>1. topic = {EncodeParameter(p.type, w) : w \in ToSet(v.items)} /\ Alternatives(v) = ToSet(v.items)
      BY <1>2, <2>3 DEF OneTopic, Alternatives
    <3>2. CASE ToSet(v.items) = {}
      <4>1. topic = {} /\ NamedByTopic(p, v, value)
        BY <3>1, <3>2 DEF NamedByTopic
      <4> HIDE DEF topic, v
      <4>2. QED
        BY <4>1 DEF topic, v
    <3>3. CASE ToSet(v.items) # {}
      <4>1. ~ Hashed(p.type)
        BY <2>1, <2>3, <3>1, <3>3
      <4>2. \A w \in ToSet(v.items) : EncodeParameter(p.type, w) = Topic(Means(w))
        BY <2>1, <3>1, <4>1, EncodedIs
      <4>3. topic = {Topic(Means(w)) : w \in ToSet(v.items)}
        BY <3>1, <4>2
      <4>4. Stored(p, value) = Topic(value)
        BY <4>1 DEF Stored
      <4>5. \A x, y : Topic(x) = Topic(y) <=> x = y
        BY DEF Topic
      <4>6. NamedByTopic(p, v, value) <=> \E w \in ToSet(v.items) : Means(w) = value
        BY <1>2, <2>2, <3>1, <3>3, <4>1 DEF NamedByTopic
      <4> HIDE DEF topic, v
      <4>7. Stored(p, value) \in topic <=> NamedByTopic(p, v, value)
        BY <4>3, <4>4, <4>5, <4>6
      <4>8. topic # {} /\ \A t \in topic : Plain(t)
        BY <3>3, <4>3 DEF Plain
      <4>9. QED
        BY <1>2, <4>7, <4>8 DEF topic, v
    <3>4. QED
      BY <3>2, <3>3
  <2>4. CASE v.form # "array"
    <3>1. Alternatives(v) = {v}
      BY <2>4 DEF Alternatives
    <3>2. CASE IsString(p.type)
      <4>1. topic = {Keccak256(v)}
        BY <1>2, <2>4, <3>2 DEF OneTopic
      <4>2. Stored(p, value) = Hash(value)
        BY <2>2, <3>2 DEF Stored
      <4>3. NamedByTopic(p, v, value) <=> SameString(v, value)
        BY <1>2, <3>1, <3>2 DEF NamedByTopic
      <4>4. Keccak256(v) = Hash(value) <=> SameString(v, value)
        BY <2>4, HashOfString DEF IsValue
      <4>5. Plain(Keccak256(v))
        BY DEF Plain, Keccak256
      <4> HIDE DEF topic, v
      <4>6. QED
        BY <1>2, <4>1, <4>2, <4>3, <4>4, <4>5 DEF topic, v
    <3>3. CASE ~ IsString(p.type)
      <4>1. ~ Hashed(p.type)
        BY <2>1, <3>1, <3>3
      <4>2. topic = {Topic(Means(v))}
        BY <1>2, <2>4, <3>3, <4>1, EncodedIs DEF OneTopic
      <4>3. Stored(p, value) = Topic(value)
        BY <4>1 DEF Stored
      <4>4. NamedByTopic(p, v, value) <=> Means(v) = value
        BY <1>2, <3>1, <3>3 DEF NamedByTopic
      <4>5. Topic(Means(v)) = Topic(value) <=> Means(v) = value
        BY DEF Topic
      <4>6. Plain(Topic(Means(v)))
        BY DEF Plain
      <4> HIDE DEF topic, v
      <4>7. QED
        BY <1>2, <4>2, <4>3, <4>4, <4>5, <4>6 DEF topic, v
    <3>4. QED
      BY <3>2, <3>3
  <2>5. QED
    BY <2>3, <2>4
<1>3. QED
  BY <1>1, <1>2

(* An event whose logs can be told: named once, and not anonymous.         *)
IsEvent(event) ==
    event \in Fragments /\ event.kind = "event" /\ ~ event.anonymous

LEMMA TopicsAre ==
    ASSUME NEW event, IsEvent(event), NEW o \in Filters, o.topics = Omitted
    PROVE  LET topics == EncodeEventABI(event, o) IN
           /\ DOMAIN topics = 1 .. Len(Indexed(event)) + 1
           /\ Len(topics) = Len(Indexed(event)) + 1
           /\ topics[1] = {Id(event)}
           /\ \A i \in 1 .. Len(Indexed(event)) : topics[i + 1] = OneTopic(Indexed(event)[i], o.filter)
<1> DEFINE indexed == Indexed(event)
           g       == [i \in DOMAIN indexed |-> OneTopic(indexed[i], o.filter)]
<1>1. ~ IsAll(event) /\ event.inputs \in Seq(ToSet(event.inputs))
  BY InterfaceAssumption DEF IsEvent
<1>2. Len(indexed) \in Nat /\ DOMAIN indexed = 1 .. Len(indexed)
  BY <1>1, IndexedAre
<1>3. EncodeEventABI(event, o) = << {Id(event)} >> \o g
  BY <1>1 DEF EncodeEventABI, OneTopic, IsEvent
<1> HIDE DEF indexed
<1>4. DOMAIN g = 1 .. Len(indexed) /\ g = [i \in 1 .. Len(indexed) |-> g[i]]
  BY <1>2
<1>5. \A i \in 1 .. Len(indexed) : g[i] = OneTopic(indexed[i], o.filter)
  BY <1>2
<1> HIDE DEF g
<1> DEFINE n == Len(indexed)
           x == {Id(event)}
<1> HIDE DEF n, x
<1>6. /\ Len(<<x>> \o g) = n + 1 /\ (<<x>> \o g)[1] = x
      /\ DOMAIN (<<x>> \o g) = 1 .. n + 1
      /\ \A i \in 1 .. n : (<<x>> \o g)[i + 1] = g[i]
  BY <1>2, <1>4, HeadedIs DEF n
<1>7. QED
  BY <1>3, <1>5, <1>6 DEF n, x, indexed

LEMMA LogTopicsAre ==
    ASSUME NEW log \in Logs
    PROVE  LET f == log.fragment
               topics == TopicsOf(log)
               k == IF f.anonymous THEN 0 ELSE 1
           IN /\ Len(topics) = Len(Indexed(f)) + k
              /\ ~ f.anonymous => topics[1] = Id(f)
              /\ \A i \in 1 .. Len(Indexed(f)) :
                    topics[i + k] = Stored(Indexed(f)[i], log.values[Indexed(f)[i].name])
<1> DEFINE f       == log.fragment
           indexed == Indexed(f)
           g       == [i \in DOMAIN indexed |-> Stored(indexed[i], log.values[indexed[i].name])]
           n       == Len(indexed)
           x       == Id(f)
<1>1. f.inputs \in Seq(ToSet(f.inputs))
  BY InterfaceAssumption
<1>2. n \in Nat /\ DOMAIN indexed = 1 .. n
  BY <1>1, IndexedAre
<1>3. TopicsOf(log) = (IF f.anonymous THEN <<>> ELSE <<x>>) \o g
  BY DEF TopicsOf
<1> HIDE DEF indexed
<1>4. DOMAIN g = 1 .. n /\ g = [i \in 1 .. n |-> g[i]]
  BY <1>2
<1>5. \A i \in 1 .. n : g[i] = Stored(indexed[i], log.values[indexed[i].name])
  BY <1>2
<1> HIDE DEF g, n, x
<1>6. /\ Len(<<x>> \o g) = n + 1 /\ (<<x>> \o g)[1] = x
      /\ \A i \in 1 .. n : (<<x>> \o g)[i + 1] = g[i]
      /\ <<>> \o g = g
  BY <1>2, <1>4, HeadedIs
<1>7. Len(g) = n
  BY <1>2, <1>4
<1> HIDE DEF f
<1>8. CASE f.anonymous
  <2>1. TopicsOf(log) = g
    BY <1>3, <1>6, <1>8
  <2>2. \A i \in 1 .. n : i + 0 = i
    BY <1>2
  <2>3. QED
    BY <1>2, <1>5, <1>7, <1>8, <2>1, <2>2 DEF n, f, indexed
<1>9. CASE ~ f.anonymous
  <2>1. TopicsOf(log) = <<x>> \o g
    BY <1>3, <1>9
  <2>2. QED
    BY <1>5, <1>6, <1>9, <2>1 DEF n, f, x, indexed
<1>10. QED
  BY <1>8, <1>9

(* No topic of a log is longer than a word.                                *)
LEMMA LogTopicsShort ==
    ASSUME NEW log \in Logs, NEW j \in 1 .. Len(TopicsOf(log))
    PROVE  ~ IsLong(TopicsOf(log)[j])
<1> DEFINE f == log.fragment
           n == Len(Indexed(f))
           k == IF f.anonymous THEN 0 ELSE 1
<1>1. /\ Len(TopicsOf(log)) = n + k
      /\ ~ f.anonymous => TopicsOf(log)[1] = Id(f)
      /\ \A i \in 1 .. n :
            TopicsOf(log)[i + k] = Stored(Indexed(f)[i], log.values[Indexed(f)[i].name])
  BY LogTopicsAre
<1>2. n \in Nat
  BY IndexedAre, InterfaceAssumption
<1>3. \A q, value : ~ IsLong(Stored(q, value))
  BY DEF Stored, Hash, Topic, IsLong
<1>4. ~ IsLong(Id(f))
  BY DEF Id, IsLong
<1> HIDE DEF f, n
<1>5. CASE j <= k
  <2>1. j = 1 /\ k = 1
    BY <1>1, <1>2, <1>5
  <2>2. QED
    BY <1>1, <1>4, <2>1
<1>6. CASE ~ (j <= k)
  <2>1. j - k \in 1 .. n /\ j = (j - k) + k
    BY <1>1, <1>2, <1>6
  <2>2. PICK i \in 1 .. n : j = i + k
    BY <2>1
  <2>3. QED
    BY <1>1, <1>3, <2>2
<1>7. QED
  BY <1>5, <1>6

(* The node's logs for the topics are those the event wrote.               *)
LEMMA FragmentIs ==
    ASSUME NEW event, IsEvent(event), NEW o \in Filters, o.topics = Omitted, LogsToldApart,
           NEW address, NEW log \in NodeLogs(address, EncodeEventABI(event, o))
    PROVE  log.fragment = event
<1> DEFINE topics == EncodeEventABI(event, o)
           n      == Len(Indexed(event))
           f      == log.fragment
<1>1. log \in Logs /\ event \in Fragments
  BY DEF NodeLogs, IsEvent
<1>2. n \in Nat
  BY <1>1, IndexedAre, InterfaceAssumption
<1>3. DOMAIN topics = 1 .. n + 1 /\ Len(topics) = n + 1 /\ topics[1] = {Id(event)}
  BY TopicsAre
<1>4. /\ Len(topics) <= Len(TopicsOf(log))
      /\ \A i \in DOMAIN topics : topics[i] = {} \/ TopicsOf(log)[i] \in topics[i]
  BY DEF NodeLogs
<1> HIDE DEF topics, n
<1>5. TopicsOf(log)[1] = Id(event) /\ Len(TopicsOf(log)) >= 1
  <2>1. 1 \in DOMAIN topics
    BY <1>2, <1>3
  <2>2. TopicsOf(log)[1] = Id(event)
    BY <1>3, <1>4, <2>1
  <2>3. Len(TopicsOf(log)) \in Nat
    <3>1. Len(TopicsOf(log)) = Len(Indexed(f)) + IF f.anonymous THEN 0 ELSE 1
      BY <1>1, LogTopicsAre
    <3>2. Len(Indexed(f)) \in Nat
      BY <1>1, IndexedAre, InterfaceAssumption
    <3>3. QED
      BY <3>1, <3>2
  <2>4. QED
    BY <1>2, <1>3, <1>4, <2>2, <2>3
<1>6. ~ f.anonymous
  <2> SUFFICES ASSUME f.anonymous PROVE FALSE
    OBVIOUS
  <2> DEFINE k == Len(Indexed(f))
  <2>1. /\ Len(TopicsOf(log)) = k + 0
        /\ \A i \in 1 .. k : TopicsOf(log)[i + 0] =
              Stored(Indexed(f)[i], log.values[Indexed(f)[i].name])
    BY <1>1, LogTopicsAre
  <2>2. k \in Nat
    BY <1>1, IndexedAre, InterfaceAssumption
  <2>3. k >= 1
    BY <1>5, <2>1, <2>2
  <2>4. TopicsOf(log)[1] = Stored(Indexed(f)[1], log.values[Indexed(f)[1].name])
    BY <2>1, <2>2, <2>3
  <2> DEFINE p == Indexed(f)[1]
  <2> HIDE DEF p
  <2>5. \A value : Stored(p, value) # Id(event)
    <3>1. \A value : "kind" \notin DOMAIN Stored(p, value)
      BY DEF Stored, Hash, Topic
    <3>2. "kind" \in DOMAIN Id(event)
      BY DEF Id
    <3>3. QED
      BY <3>1, <3>2
  <2>6. QED
    BY <1>5, <2>4, <2>5 DEF p
<1>7. TopicsOf(log)[1] = Id(f)
  BY <1>1, <1>6, LogTopicsAre
<1>8. QED
  BY <1>1, <1>5, <1>6, <1>7 DEF LogsToldApart

Asked(event, filter) == {p \in ToSet(event.inputs) : p.name \in DOMAIN filter}
Refused(event, filter) == \E p \in Asked(event, filter) : p.indexed /\ NoTopicFor(p, filter[p.name])
Unreadable(event) == \E p \in ToSet(event.inputs) : ~ Readable(p)

(* A filter without a topic is refused, or no log meets it.                *)
LEMMA RefusedLoses ==
    ASSUME NEW event, IsEvent(event), NEW o \in Filters, o.topics = Omitted,
           Refused(event, o.filter), NEW address
    PROVE  LET topics == EncodeEventABI(event, o) IN
           Unencodable(topics) \/ (~ ValidTopics(topics) /\ NodeLogs(address, topics) = {})
<1> DEFINE topics  == EncodeEventABI(event, o)
           indexed == Indexed(event)
           n       == Len(indexed)
<1>1. PICK p \in ToSet(event.inputs) :
          p.name \in DOMAIN o.filter /\ p.indexed /\ NoTopicFor(p, o.filter[p.name])
  BY DEF Refused, Asked
<1>2. /\ n \in Nat /\ DOMAIN indexed = 1 .. n
      /\ ToSet(indexed) = {q \in ToSet(event.inputs) : q.indexed}
  BY IndexedAre, InterfaceAssumption DEF IsEvent
<1>3. PICK i \in 1 .. n : p = indexed[i]
  BY <1>1, <1>2 DEF ToSet
<1>4. /\ DOMAIN topics = 1 .. n + 1 /\ Len(topics) = n + 1
      /\ topics[i + 1] = OneTopic(p, o.filter)
  BY <1>3, TopicsAre
<1>5. Hopeless(topics[i + 1])
  BY <1>1, <1>4, OneTopicRefused
<1>6. i + 1 \in DOMAIN topics
  BY <1>2, <1>4
<1> HIDE DEF topics, indexed, n
<1>7. CASE Error \in topics[i + 1]
  BY <1>6, <1>7 DEF Unencodable, topics
<1>8. CASE topics[i + 1] # {} /\ \A t \in topics[i + 1] : IsLong(t)
  <2>1. \A t : IsLong(t) => ~ IsTopic(t)
    BY DEF IsLong, IsTopic
  <2>2. ~ ValidTopics(topics)
    BY <1>6, <1>8, <2>1 DEF ValidTopics
  <2>3. ASSUME NEW log \in NodeLogs(address, topics)
        PROVE  FALSE
    <3>1. log \in Logs /\ Len(topics) <= Len(TopicsOf(log)) /\ TopicsOf(log)[i + 1] \in topics[i + 1]
      BY <1>6, <1>8 DEF NodeLogs
    <3>2. Len(TopicsOf(log)) \in Nat
      <4> DEFINE f == log.fragment
      <4>1. Len(TopicsOf(log)) = Len(Indexed(f)) + IF f.anonymous THEN 0 ELSE 1
        BY <3>1, LogTopicsAre
      <4>2. Len(Indexed(f)) \in Nat
        BY <3>1, IndexedAre, InterfaceAssumption
      <4>3. QED
        BY <4>1, <4>2
    <3>3. i + 1 \in 1 .. Len(TopicsOf(log))
      BY <1>2, <1>4, <3>1, <3>2
    <3>4. ~ IsLong(TopicsOf(log)[i + 1])
      BY <3>1, <3>3, LogTopicsShort
    <3>5. QED
      BY <1>8, <3>1, <3>4
  <2>4. NodeLogs(address, topics) = {}
    BY <2>3
  <2>5. QED
    BY <2>2, <2>4 DEF topics
<1>9. QED
  BY <1>5, <1>7, <1>8 DEF Hopeless

(* The topics of another are all valid ones.                               *)
LEMMA TopicsAreValid ==
    ASSUME NEW event, IsEvent(event), NEW o \in Filters, o.topics = Omitted,
           ~ Refused(event, o.filter)
    PROVE  LET topics == EncodeEventABI(event, o) IN ~ Unencodable(topics) /\ ValidTopics(topics)
<1> DEFINE topics  == EncodeEventABI(event, o)
           indexed == Indexed(event)
           n       == Len(indexed)
<1>1. /\ n \in Nat /\ DOMAIN indexed = 1 .. n
      /\ ToSet(indexed) = {q \in ToSet(event.inputs) : q.indexed}
  BY IndexedAre, InterfaceAssumption DEF IsEvent
<1>2. /\ DOMAIN topics = 1 .. n + 1 /\ topics[1] = {Id(event)}
      /\ \A i \in 1 .. n : topics[i + 1] = OneTopic(indexed[i], o.filter)
  BY TopicsAre
<1>3. ASSUME NEW i \in 1 .. n, NEW t \in OneTopic(indexed[i], o.filter)
      PROVE  Plain(t)
  <2> DEFINE p     == indexed[i]
             value == [form |-> "empty"]
  <2>1. p \in ToSet(event.inputs) /\ p.indexed
    BY <1>1 DEF ToSet
  <2>2. IsValue(p, value)
    BY DEF IsValue, Means
  <2> HIDE DEF p, value
  <2>3. p.name \in DOMAIN o.filter => ~ NoTopicFor(p, o.filter[p.name])
    BY <2>1 DEF Refused, Asked
  <2>4. \A u \in OneTopic(p, o.filter) : Plain(u)
    BY <2>1, <2>2, <2>3, OneTopicSays
  <2>5. QED
    BY <2>4 DEF p
<1> HIDE DEF topics, indexed, n
<1>4. \A i \in DOMAIN topics : i = 1 \/ (i - 1 \in 1 .. n /\ i = (i - 1) + 1)
  BY <1>1, <1>2
<1>5. ASSUME NEW i \in DOMAIN topics, NEW t \in topics[i]
      PROVE  t # Error /\ IsTopic(t)
  <2>1. CASE i = 1
    <3>1. t = Id(event) /\ Id(event).kind = "event"
      BY <1>2, <2>1 DEF Id, IsEvent
    <3>2. QED
      BY <3>1 DEF Id, IsTopic, Error
  <2>2. CASE i # 1
    <3>1. Plain(t)
      BY <1>2, <1>3, <1>4, <2>2
    <3>2. QED
      BY <3>1 DEF Plain, Topic, Hash, IsTopic, Error
  <2>3. QED
    BY <2>1, <2>2
<1>6. QED
  BY <1>5 DEF Unencodable, ValidTopics, topics

(* The node's logs for the topics are those the event wrote with the       *)
(* indexed values that the filter names.                                   *)
MetByTopics(event, filter, log) ==
    \A p \in Asked(event, filter) : NamedByTopic(p, filter[p.name], log.values[p.name])

LEMMA ValuesAre ==
    ASSUME NEW log \in Logs, NEW p \in ToSet(log.fragment.inputs)
    PROVE  IsValue(p, log.values[p.name]) /\ p.name \in DOMAIN log.values
  BY ValuesAssumption DEF IsValue

LEMMA NodeLogsAre ==
    ASSUME NEW event, IsEvent(event), NEW o \in Filters, o.topics = Omitted, LogsToldApart,
           ~ Refused(event, o.filter), NEW address, NEW log \in Logs
    PROVE  log \in NodeLogs(address, EncodeEventABI(event, o)) <=>
           address \in {Omitted, log.address} /\ log.fragment = event
               /\ MetByTopics(event, o.filter, log)
<1> DEFINE topics  == EncodeEventABI(event, o)
           indexed == Indexed(event)
           n       == Len(indexed)
           f       == log.fragment
           Met(i)  == topics[i] = {} \/ TopicsOf(log)[i] \in topics[i]
           Asks(p) == p.name \in DOMAIN o.filter =>
                          NamedByTopic(p, o.filter[p.name], log.values[p.name])
<1>1. event.inputs \in Seq(ToSet(event.inputs)) /\ event \in Fragments
  BY InterfaceAssumption DEF IsEvent
<1>2. /\ n \in Nat /\ DOMAIN indexed = 1 .. n
      /\ ToSet(indexed) = {p \in ToSet(event.inputs) : p.indexed}
  BY <1>1, IndexedAre
<1>3. /\ DOMAIN topics = 1 .. n + 1 /\ Len(topics) = n + 1
      /\ topics[1] = {Id(event)}
      /\ \A i \in 1 .. n : topics[i + 1] = OneTopic(indexed[i], o.filter)
  BY TopicsAre
<1>4. log \in NodeLogs(address, topics) <=>
          /\ address \in {Omitted, log.address} /\ Len(topics) <= Len(TopicsOf(log))
          /\ \A i \in DOMAIN topics : Met(i)
  BY DEF NodeLogs
<1>5. MetByTopics(event, o.filter, log) <=> \A i \in 1 .. n : Asks(indexed[i])
  <2>1. \A i \in 1 .. n : indexed[i] \in ToSet(indexed)
    BY <1>2 DEF ToSet
  <2>2. \A p \in ToSet(indexed) : \E i \in 1 .. n : p = indexed[i]
    BY <1>2 DEF ToSet
  <2>3. \A p \in ToSet(event.inputs) : ~ p.indexed => Asks(p)
    BY DEF NamedByTopic
  <2>4. MetByTopics(event, o.filter, log) <=> \A p \in ToSet(event.inputs) : Asks(p)
    BY DEF MetByTopics, Asked
  <2> HIDE DEF indexed, n, Asks
  <2>5. MetByTopics(event, o.filter, log) <=> \A p \in ToSet(indexed) : Asks(p)
    BY <1>2, <2>3, <2>4
  <2>6. QED
    BY <2>1, <2>2, <2>5
<1> HIDE DEF topics
<1>6. ASSUME f = event
      PROVE  /\ Len(TopicsOf(log)) = n + 1 /\ Met(1)
             /\ \A i \in 1 .. n : Met(i + 1) <=> Asks(indexed[i])
  <2>1. /\ Len(TopicsOf(log)) = n + 1 /\ TopicsOf(log)[1] = Id(event)
        /\ \A i \in 1 .. n : TopicsOf(log)[i + 1] = Stored(indexed[i], log.values[indexed[i].name])
    BY <1>6, LogTopicsAre DEF IsEvent
  <2>2. ASSUME NEW i \in 1 .. n
        PROVE  Met(i + 1) <=> Asks(indexed[i])
    <3> DEFINE p == indexed[i]
    <3>1. p \in ToSet(event.inputs) /\ p.indexed
      BY <1>2 DEF ToSet
    <3>2. TopicsOf(log)[i + 1] = Stored(p, log.values[p.name]) /\ topics[i + 1] = OneTopic(p, o.filter)
      BY <1>3, <2>1
    <3> HIDE DEF p
    <3>3. p.name \in DOMAIN o.filter => ~ NoTopicFor(p, o.filter[p.name])
      BY <3>1 DEF Refused, Asked
    <3>4. IsValue(p, log.values[p.name])
      BY <1>6, <3>1, ValuesAre
    <3> DEFINE value == log.values[p.name]
    <3> HIDE DEF value
    <3>5. OneTopic(p, o.filter) = {} \/ Stored(p, value) \in OneTopic(p, o.filter)
              <=> (p.name \in DOMAIN o.filter => NamedByTopic(p, o.filter[p.name], value))
      BY <3>1, <3>3, <3>4, OneTopicSays DEF value
    <3>6. Met(i + 1) <=> Asks(p)
      BY <3>2, <3>5 DEF value
    <3>7. QED
      BY <3>6 DEF p
  <2>3. QED
    BY <1>3, <2>1, <2>2
<1>7. ASSUME log \in NodeLogs(address, topics)
      PROVE  f = event
  BY <1>7, FragmentIs DEF topics
<1>8. ASSUME f = event
      PROVE  (\A i \in DOMAIN topics : Met(i)) <=> \A i \in 1 .. n : Asks(indexed[i])
  <2>1. DOMAIN topics = {1} \cup {i + 1 : i \in 1 .. n}
    <3>1. 1 .. n + 1 = {1} \cup {i + 1 : i \in 1 .. n}
      <4>1. \A j \in 1 .. n + 1 : j = 1 \/ (j - 1 \in 1 .. n /\ j = (j - 1) + 1)
        BY <1>2
      <4> HIDE DEF n
      <4>2. QED
        BY <1>2, <4>1
    <3>2. QED
      BY <1>3, <3>1
  <2> HIDE DEF Met, Asks, n, indexed
  <2>2. QED
    BY <1>6, <1>8, <2>1
<1> HIDE DEF Met, Asks, n, indexed
<1>9. log \in NodeLogs(address, topics) <=>
          address \in {Omitted, log.address} /\ f = event /\ MetByTopics(event, o.filter, log)
  <2>1. CASE f = event
    <3>1. Len(topics) <= Len(TopicsOf(log))
      BY <1>2, <1>3, <1>6, <2>1
    <3>2. QED
      BY <1>4, <1>5, <1>8, <2>1, <3>1
  <2>2. CASE f # event
    BY <1>7, <2>2
  <2>3. QED
    BY <2>1, <2>2
<1>10. QED
  BY <1>9 DEF topics

InputNames(event) == {p.name : p \in ToSet(event.inputs)}

(* A log the event wrote is decoded to its values, as they are read.       *)
LEMMA DecodedIs ==
    ASSUME NEW c, NEW event, IsEvent(event), NEW log \in Logs, log.fragment = event
    PROVE  LET d == DecodeEventABI(c, event, log) IN
           /\ Unreadable(event) => d = Error
           /\ ~ Unreadable(event) =>
                 /\ d # Error /\ d.log = log
                 /\ DOMAIN d.values = InputNames(event)
                 /\ \A p \in ToSet(event.inputs) : d.values[p.name] = Read(p, log.values[p.name])
<1> DEFINE known  == c.abi.interface
           same   == Those(known, {f \in ToSet(known) : Id(f) = TopicsOf(log)[1]})
           by     == IF ~ IsAll(event) THEN event ELSE IF same = <<>> THEN Unnamed ELSE same[1]
           right  == by.anonymous \/ Indexed(by) = <<>> \/ Len(TopicsOf(log)) = Len(Indexed(by)) + 1
           inputs == IF right THEN by.inputs ELSE <<>>
           value(p) == IF p.name \notin DOMAIN log.values THEN Omitted ELSE Read(p, log.values[p.name])
           values == [n \in {inputs[i].name : i \in DOMAIN inputs} |->
                         value(inputs[CHOOSE i \in DOMAIN inputs : inputs[i].name = n])]
           d == DecodeEventABI(c, event, log)
<1>1. d = IF \E i \in DOMAIN inputs : ~ Readable(inputs[i]) THEN Error
          ELSE [name |-> by.name, log |-> log, values |-> values]
  BY DEF DecodeEventABI
<1>2. by = event
  BY InterfaceAssumption DEF IsEvent
<1> HIDE DEF by
<1>3. right
  BY <1>2, LogTopicsAre DEF IsEvent
<1>4. inputs = event.inputs
  BY <1>2, <1>3
<1> HIDE DEF inputs, d
<1>5. (\E i \in DOMAIN inputs : ~ Readable(inputs[i])) <=> Unreadable(event)
  BY <1>4 DEF Unreadable, ToSet
<1>6. DOMAIN values = InputNames(event)
  <2> DEFINE names == {inputs[i].name : i \in DOMAIN inputs}
             f(n)  == value(inputs[CHOOSE i \in DOMAIN inputs : inputs[i].name = n])
  <2>1. names = InputNames(event)
    BY <1>4 DEF InputNames, ToSet
  <2>2. values = [n \in names |-> f(n)]
    OBVIOUS
  <2> HIDE DEF names, f, values
  <2>3. QED
    BY <2>1, <2>2
<1>7. ASSUME NEW q \in ToSet(event.inputs)
      PROVE  values[q.name] = Read(q, log.values[q.name])
  <2> DEFINE n == q.name
             i == CHOOSE j \in DOMAIN inputs : inputs[j].name = n
             p == inputs[i]
  <2>1. \E j \in DOMAIN inputs : inputs[j].name = n
    BY <1>4 DEF ToSet
  <2>2. i \in DOMAIN inputs /\ p.name = n
    BY <2>1
  <2>3. p \in ToSet(event.inputs)
    BY <1>4, <2>2 DEF ToSet
  <2>4. p = q
    BY <2>2, <2>3, InterfaceAssumption DEF IsEvent
  <2>5. n \in {inputs[j].name : j \in DOMAIN inputs}
    BY <2>2
  <2>6. values[n] = value(p)
    BY <2>5
  <2> HIDE DEF i, values
  <2>7. q.name \in DOMAIN log.values
    BY ValuesAre
  <2>8. QED
    BY <2>4, <2>6, <2>7
<1> HIDE DEF values
<1>8. QED
  BY <1>1, <1>5, <1>6, <1>7 DEF d, Error

---------------------------------------------------------------------------
(* What is kept of the decoded logs *)

(* How a value is shown, and compared with what a filter says.             *)
Shown(p, v, value) ==
    LET is == Read(p, value) IN
    IF v.form = "array" THEN \E w \in ToSet(v.items) : Text(is) = Text(w)
    ELSE Text(is) = Text(v) \/ (p.indexed /\ IsString(p.type) /\ is = Keccak256(v))

LEMMA TextMeans ==
    ASSUME NEW value, "form" \in DOMAIN value, Means(value) = value, value.form # "word",
           NEW w, "form" \in DOMAIN w, Text(value) = Text(w)
    PROVE  Means(w) = value
<1>1. value.form \notin {"decimal", "bigint", "hex"}
  <2>1. [form |-> "number", n |-> value.n].form = "number"
    OBVIOUS
  <2>2. QED
    BY <2>1 DEF Means
<1>2. Text(value) = value
  <2>1. CASE value.form = "address"
    BY <1>1, <2>1 DEF Text, Means
  <2>2. CASE value.form # "address"
    BY <1>1, <2>2 DEF Text
  <2>3. QED
    BY <2>1, <2>2
<1>3. CASE w.form \in {"decimal", "bigint"}
  BY <1>2, <1>3 DEF Text, Means
<1>4. CASE w.form = "address"
  BY <1>2, <1>4 DEF Text, Means
<1>5. CASE w.form = "word"
  <2>1. Text(w) = [w EXCEPT !.case = "upper"]
    BY <1>5 DEF Text
  <2>2. [w EXCEPT !.case = "upper"].form = "word"
    BY <1>5
  <2>3. QED
    BY <1>2, <2>1, <2>2
<1>6. CASE w.form \notin {"decimal", "bigint", "address", "word"}
  <2>1. Text(w) = w
    BY <1>6 DEF Text
  <2>2. w.form # "hex"
    BY <1>1, <1>2, <2>1
  <2>3. QED
    BY <1>2, <1>6, <2>1, <2>2 DEF Means
<1>7. QED
  BY <1>3, <1>4, <1>5, <1>6

LEMMA TextKeepsForm ==
    ASSUME NEW w, "form" \in DOMAIN w
    PROVE  "form" \in DOMAIN Text(w)
<1>1. DOMAIN [w EXCEPT !.case = "upper"] = DOMAIN w
  OBVIOUS
<1>2. "form" \in DOMAIN [form |-> "number", n |-> w.n]
  OBVIOUS
<1>3. QED
  BY <1>1, <1>2 DEF Text

(* A value is met by its topic and shown as the filter says if and only if *)
(* the filter names it by its text.                                        *)
LEMMA ShownIs ==
    ASSUME NEW p, NEW v, "form" \in DOMAIN v, \A w \in Alternatives(v) : "form" \in DOMAIN w,
           NEW value, IsValue(p, value), p.indexed => ~ NoTopicFor(p, v)
    PROVE  NamedByTopic(p, v, value) /\ Shown(p, v, value) <=> NamedAsText(p, v, value)
<1>1. "form" \in DOMAIN value
  BY DEF IsValue
<1>2. \A w \in Alternatives(v) : "form" \in DOMAIN Text(w)
  BY TextKeepsForm
<1>3. Alternatives(v) = IF v.form = "array" THEN ToSet(v.items) ELSE {v}
  BY DEF Alternatives
<1>4. Shown(p, v, value) <=>
          \/ \E w \in Alternatives(v) : Text(Read(p, value)) = Text(w)
          \/ /\ v.form # "array" /\ p.indexed /\ IsString(p.type)
             /\ Read(p, value) = Keccak256(v)
  BY <1>3 DEF Shown
<1>5. IsString(p.type) => Hashed(p.type)
  BY DEF IsString, Hashed
<1>6. ASSUME NEW x, "form" \notin DOMAIN x
      PROVE  \A w \in Alternatives(v) : Text(x) # Text(w)
  <2>1. Text(x) = x
    BY <1>6 DEF Text
  <2>2. QED
    BY <1>2, <1>6, <2>1
<1>7. "form" \notin DOMAIN Hash(value) /\ "form" \notin DOMAIN [word |-> value]
  BY DEF Hash
<1>8. CASE p.indexed /\ IsString(p.type)
  <2>1. Read(p, value) = Hash(value)
    BY <1>5, <1>8 DEF Read
  <2>2. NamedAsText(p, v, value) <=> SameString(v, value)
    BY <1>8 DEF NamedAsText
  <2>3. Shown(p, v, value) <=> SameString(v, value)
    <3>1. CASE v.form = "array"
      <4>1. ~ SameString(v, value)
        BY <3>1 DEF SameString
      <4>2. QED
        BY <1>4, <1>6, <1>7, <2>1, <3>1, <4>1
    <3>2. CASE v.form # "array"
      <4>1. Keccak256(v) = Hash(value) <=> SameString(v, value)
        BY <1>1, <3>2, HashOfString
      <4>2. QED
        BY <1>4, <1>6, <1>7, <1>8, <2>1, <3>2, <4>1
    <3>3. QED
      BY <3>1, <3>2
  <2>4. SameString(v, value) => NamedByTopic(p, v, value)
    BY <1>8 DEF NamedByTopic
  <2>5. QED
    BY <2>2, <2>3, <2>4
<1>9. CASE p.indexed /\ ~ IsString(p.type)
  <2>1. CASE Hashed(p.type) \/ (p.type.base = "bytes" /\ p.type.size # 32)
    <3>1. Read(p, value) \in {Hash(value), [word |-> value]}
      BY <1>9, <2>1 DEF Read
    <3>2. ~ Shown(p, v, value)
      BY <1>4, <1>6, <1>7, <1>9, <3>1
    <3>3. ~ NamedAsText(p, v, value)
      BY <1>9, <2>1 DEF NamedAsText
    <3>4. QED
      BY <3>2, <3>3
  <2>2. CASE ~ Hashed(p.type) /\ (p.type.base = "bytes" => p.type.size = 32)
    <3>1. Read(p, value) = value
      BY <1>9, <2>2 DEF Read
    <3>2. Shown(p, v, value) <=> \E w \in Alternatives(v) : Text(value) = Text(w)
      BY <1>4, <1>9, <3>1
    <3>3. NamedAsText(p, v, value) <=> \E w \in Alternatives(v) : Text(w) = Text(value)
      BY <1>9, <2>2 DEF NamedAsText
    <3>4. ASSUME NEW w \in Alternatives(v), Text(value) = Text(w)
          PROVE  NamedByTopic(p, v, value)
      <4>1. Means(w) = value
        BY <1>1, <2>2, <3>4, TextMeans DEF IsValue
      <4>2. QED
        BY <1>9, <4>1 DEF NamedByTopic
    <3>5. QED
      BY <3>2, <3>3, <3>4
  <2>3. QED
    BY <2>1, <2>2
<1>10. CASE ~ p.indexed
  <2>1. Read(p, value) = value /\ NamedByTopic(p, v, value)
    BY <1>10 DEF Read, NamedByTopic
  <2>2. Shown(p, v, value) <=> \E w \in Alternatives(v) : Text(value) = Text(w)
    BY <1>4, <1>10, <2>1
  <2>3. NamedAsText(p, v, value) <=> \E w \in Alternatives(v) : Text(w) = Text(value)
    BY <1>10 DEF NamedAsText
  <2>4. QED
    BY <2>1, <2>2, <2>3
<1>11. QED
  BY <1>8, <1>9, <1>10

LEMMA KeptIs ==
    ASSUME NEW c, NEW event, IsEvent(event), ~ Unreadable(event), NEW log \in Logs,
           log.fragment = event, NEW o \in Filters, DOMAIN o.filter \subseteq InputNames(event)
    PROVE  Kept(event, o.filter, DecodeEventABI(c, event, log)) <=>
           \A p \in Asked(event, o.filter) : Shown(p, o.filter[p.name], log.values[p.name])
<1> DEFINE d      == DecodeEventABI(c, event, log)
           filter == o.filter
           is(n)  == IF n \in DOMAIN d.values THEN d.values[n] ELSE Omitted
           strings(n) == {p \in ToSet(event.inputs) : p.name = n /\ p.indexed /\ IsString(p.type)}
           Passes(n) ==
              /\ is(n) # Omitted
              /\ IF filter[n].form = "array"
                 THEN \E w \in ToSet(filter[n].items) : Text(is(n)) = Text(w)
                 ELSE Text(is(n)) = Text(filter[n]) \/ (strings(n) # {} /\ is(n) = Keccak256(filter[n]))
           Says(p) == Shown(p, filter[p.name], log.values[p.name])
<1>1. Kept(event, filter, d) <=> \A n \in DOMAIN filter : Passes(n)
  BY DEF Kept
<1>2. /\ DOMAIN d.values = InputNames(event)
      /\ \A p \in ToSet(event.inputs) : d.values[p.name] = Read(p, log.values[p.name])
  BY DecodedIs
<1> HIDE DEF d
<1>3. ASSUME NEW p \in Asked(event, filter)
      PROVE  Passes(p.name) <=> Says(p)
  <2> DEFINE n == p.name
  <2>1. p \in ToSet(event.inputs) /\ n \in InputNames(event)
    BY DEF Asked, InputNames
  <2>2. is(n) = Read(p, log.values[n])
    BY <1>2, <2>1
  <2>3. is(n) # Omitted
    BY <2>1, <2>2, ValuesAssumption
  <2>4. strings(n) # {} <=> p.indexed /\ IsString(p.type)
    <3>1. \A q \in ToSet(event.inputs) : q.name = n => q = p
      BY <2>1, InterfaceAssumption DEF IsEvent
    <3>2. QED
      BY <2>1, <3>1
  <2> HIDE DEF is, strings, n
  <2>5. Passes(n) <=>
            IF filter[n].form = "array"
            THEN \E w \in ToSet(filter[n].items) : Text(Read(p, log.values[n])) = Text(w)
            ELSE \/ Text(Read(p, log.values[n])) = Text(filter[n])
                 \/ p.indexed /\ IsString(p.type) /\ Read(p, log.values[n]) = Keccak256(filter[n])
    BY <2>2, <2>3, <2>4
  <2>6. QED
    BY <2>5 DEF Shown, n
<1>4. \A n \in DOMAIN filter : \E p \in Asked(event, filter) : p.name = n
  BY DEF Asked, InputNames
<1>5. \A p \in Asked(event, filter) : p.name \in DOMAIN filter
  BY DEF Asked
<1> HIDE DEF Passes, Says, filter
<1>6. Kept(event, filter, d) <=> \A p \in Asked(event, filter) : Says(p)
  BY <1>1, <1>3, <1>4, <1>5
<1>7. QED
  BY <1>6 DEF d, Says, filter

WantedLogs(address, event, filter, topic) ==
    {log \in Logs : /\ address \in {Omitted, log.address}
                    /\ log.fragment = event
                    /\ \A p \in Asked(event, filter) :
                          IF topic = "past" THEN NamedAsText(p, filter[p.name], log.values[p.name])
                          ELSE NamedByTopic(p, filter[p.name], log.values[p.name])}

Decodings(c, event, topics) == {DecodeEventABI(c, event, log) : log \in NodeLogs(c.address, topics)}
LogsOf(decoded) == {d.log : d \in decoded}
KeptOf(event, filter, decoded) == {d \in decoded : Kept(event, filter, d)}

(* The property, of one contract, question and answer.                     *)
EventNamed(c, name) ==
    LET found == Named(c.abi.interface, name) IN
    IF Len(found) = 1 /\ ~ found[1].anonymous THEN found[1] ELSE Omitted

Lost(event, filter) == Unreadable(event) \/ Refused(event, filter)

AsFiltered(c, event, q, a) ==
    LET filter == q.options.filter IN
    IF Lost(event, filter)
    THEN a # Error => a.logs = {} /\ (q.topic = "events" => a.past = {})
    ELSE /\ a # Error
         /\ LogsOf(a.logs) = WantedLogs(c.address, event, filter, q.topic)
         /\ (q.topic = "events" /\ q.options.fromBlock # Omitted) => a.past = a.logs

Filtered(c, q, a) ==
    (q.topic \in {"past", "events"} /\ q.name # "allEvents" /\ EventNamed(c, q.name) # Omitted) =>
    LET event == EventNamed(c, q.name) IN
    (DOMAIN q.options.filter \subseteq InputNames(event) /\ q.options.topics = Omitted) =>
        AsFiltered(c, event, q, a)

LEMMA FilteredIs ==
    /\ EventsAsFiltered <=> Filtered(contract, asked, sent)
    /\ EventsAsFiltered' <=> Filtered(contract', asked', sent')
<1>1. EventsAsFiltered <=> Filtered(contract, asked, sent)
  BY DEF EventsAsFiltered, Filtered, AsFiltered, EventOf, EventNamed, InputNames, Lost, Refused,
         Unreadable, Asked, LogsOf, WantedLogs
<1>2. EventsAsFiltered' <=> Filtered(contract', asked', sent')
  BY DEF EventsAsFiltered, Filtered, AsFiltered, EventOf, EventNamed, InputNames, Lost, Refused,
         Unreadable, Asked, LogsOf, WantedLogs
<1>3. QED
  BY <1>1, <1>2

(* The name of one fragment leads to it, in the interface and in events.   *)
LEMMA EventIs ==
    ASSUME NEW c, IsContract(c), NEW name \in DOMAIN c.abi.events,
           EventNamed(c, name) # Omitted
    PROVE  LET event == EventNamed(c, name)
               found == Named(c.abi.interface, name)
           IN /\ IsEvent(event) /\ event.name = name
              /\ name \notin {"ALLEVENTS", "allEvents"}
              /\ found # <<>> /\ found[1] = event /\ c.abi.events[name] = event
<1> DEFINE found == Named(c.abi.interface, name)
           event == c.abi.events[name]
<1>1. c.abi.interface \in Seq(Fragments)
  BY DEF IsContract, IsAbi
<1>2. event \in Events(ToSet(c.abi.interface)) /\ event.name = name
  BY DEF IsContract, IsAbi
<1>3. found \in Seq(Fragments) /\ ToSet(found) = {f \in ToSet(c.abi.interface) : f.name = name}
  BY <1>1, NamedAre
<1>4. Len(found) = 1 /\ ~ found[1].anonymous /\ EventNamed(c, name) = found[1]
  BY DEF EventNamed
<1> HIDE DEF found, event
<1>5. event \in ToSet(found) /\ event.kind = "event"
  BY <1>2, <1>3 DEF Events
<1>6. event = found[1] /\ found # <<>> /\ event \in Fragments
  <2>1. DOMAIN found = {1} /\ found[1] \in Fragments
    <3>1. DOMAIN found = 1 .. Len(found) /\ \A i \in 1 .. Len(found) : found[i] \in Fragments
      BY <1>3
    <3>2. QED
      BY <1>4, <3>1
  <2>2. ToSet(found) = {found[1]}
    BY <2>1 DEF ToSet
  <2>3. found # <<>>
    BY <1>4
  <2>4. QED
    BY <1>5, <2>1, <2>2, <2>3
<1>7. IsEvent(event)
  BY <1>4, <1>5, <1>6 DEF IsEvent
<1>8. name \notin {"ALLEVENTS", "allEvents"}
  BY <1>2, <1>7, InterfaceAssumption DEF IsEvent, IsAll
<1>9. QED
  BY <1>2, <1>4, <1>6, <1>7, <1>8 DEF found, event

LEMMA PastIs ==
    ASSUME NEW c, NEW name, name \notin {"ALLEVENTS", "allEvents"}, NEW options, NEW event,
           Named(c.abi.interface, name) # <<>>, Named(c.abi.interface, name)[1] = event
    PROVE  LET topics == EncodeEventABI(event, options)
               all    == Decodings(c, event, topics)
           IN GetPastEvents(c, name, options) =
              IF Unencodable(topics) \/ ~ ValidTopics(topics) \/ Error \in all THEN Error
              ELSE [logs |-> KeptOf(event, options.filter, all)]
  BY DEF GetPastEvents, Decodings, KeptOf

(* What is lost is refused, or cannot be decoded.                          *)
LEMMA LostDecodings ==
    ASSUME NEW c, NEW event, IsEvent(event), NEW o \in Filters, o.topics = Omitted, LogsToldApart,
           Lost(event, o.filter)
    PROVE  LET topics == EncodeEventABI(event, o) IN
           Unencodable(topics) \/ Decodings(c, event, topics) \subseteq {Error}
<1> DEFINE topics == EncodeEventABI(event, o)
<1>1. CASE Refused(event, o.filter)
  BY <1>1, RefusedLoses DEF Decodings
<1>2. CASE Unreadable(event)
  <2>1. ASSUME NEW log \in NodeLogs(c.address, topics)
        PROVE  DecodeEventABI(c, event, log) = Error
    <3>1. log \in Logs /\ log.fragment = event
      BY FragmentIs DEF NodeLogs
    <3>2. QED
      BY <1>2, <3>1, DecodedIs
  <2> HIDE DEF topics
  <2>2. Decodings(c, event, topics) \subseteq {Error}
    BY <2>1 DEF Decodings
  <2>3. QED
    BY <2>2 DEF topics
<1>3. QED
  BY <1>1, <1>2 DEF Lost

(* The rest is decoded, each log for itself.                               *)
LEMMA TheRestDecoded ==
    ASSUME NEW c, NEW event, IsEvent(event), NEW o \in Filters, o.topics = Omitted, LogsToldApart,
           ~ Lost(event, o.filter)
    PROVE  LET topics == EncodeEventABI(event, o) IN
           /\ ~ Unencodable(topics) /\ ValidTopics(topics)
           /\ Error \notin Decodings(c, event, topics)
           /\ \A log \in NodeLogs(c.address, topics) :
                 log \in Logs /\ log.fragment = event /\ DecodeEventABI(c, event, log).log = log
<1> DEFINE topics == EncodeEventABI(event, o)
<1>1. ~ Unencodable(topics) /\ ValidTopics(topics)
  BY TopicsAreValid DEF Lost
<1>2. ASSUME NEW log \in NodeLogs(c.address, topics)
      PROVE  /\ log \in Logs /\ log.fragment = event
             /\ DecodeEventABI(c, event, log) # Error /\ DecodeEventABI(c, event, log).log = log
  <2>1. log \in Logs /\ log.fragment = event
    BY FragmentIs DEF NodeLogs
  <2>2. ~ Unreadable(event)
    BY DEF Lost
  <2>3. QED
    BY <2>1, <2>2, DecodedIs
<1> HIDE DEF topics
<1>3. Error \notin Decodings(c, event, topics)
  BY <1>2 DEF Decodings
<1>4. QED
  BY <1>1, <1>2, <1>3 DEF topics

LEMMA SubscribedLogs ==
    ASSUME NEW c, NEW event, IsEvent(event), NEW o \in Filters, o.topics = Omitted, LogsToldApart,
           ~ Lost(event, o.filter)
    PROVE  LogsOf(Decodings(c, event, EncodeEventABI(event, o))) =
           WantedLogs(c.address, event, o.filter, "events")
<1> DEFINE topics == EncodeEventABI(event, o)
           node   == NodeLogs(c.address, topics)
           wanted == WantedLogs(c.address, event, o.filter, "events")
           dec(log) == DecodeEventABI(c, event, log)
<1>1. \A log \in node : log \in Logs /\ dec(log).log = log
  BY TheRestDecoded
<1>2. \A log \in Logs : log \in node <=> log \in wanted
  <2> SUFFICES ASSUME NEW log \in Logs PROVE log \in node <=> log \in wanted
    OBVIOUS
  <2>1. ~ Refused(event, o.filter)
    BY DEF Lost
  <2>2. log \in node <=> c.address \in {Omitted, log.address} /\ log.fragment = event
                            /\ MetByTopics(event, o.filter, log)
    BY <2>1, NodeLogsAre
  <2>3. log \in wanted <=> c.address \in {Omitted, log.address} /\ log.fragment = event
                              /\ MetByTopics(event, o.filter, log)
    BY DEF WantedLogs, MetByTopics
  <2>4. QED
    BY <2>2, <2>3
<1>3. wanted \subseteq Logs
  BY DEF WantedLogs
<1>4. Decodings(c, event, topics) = {dec(log) : log \in node}
  BY DEF Decodings
<1> HIDE DEF topics, node, wanted, dec
<1>5. LogsOf(Decodings(c, event, topics)) = node
  BY <1>1, <1>4 DEF LogsOf
<1>6. node = wanted
  BY <1>1, <1>2, <1>3
<1>7. QED
  BY <1>5, <1>6 DEF topics, wanted

LEMMA PastLogs ==
    ASSUME NEW c, NEW event, IsEvent(event), NEW o \in Filters, o.topics = Omitted, LogsToldApart,
           ~ Lost(event, o.filter), DOMAIN o.filter \subseteq InputNames(event)
    PROVE  LogsOf(KeptOf(event, o.filter, Decodings(c, event, EncodeEventABI(event, o)))) =
           WantedLogs(c.address, event, o.filter, "past")
<1> DEFINE topics == EncodeEventABI(event, o)
           node   == NodeLogs(c.address, topics)
           wanted == WantedLogs(c.address, event, o.filter, "past")
           dec(log)   == DecodeEventABI(c, event, log)
           keeps(log) == Kept(event, o.filter, dec(log))
           kept       == KeptOf(event, o.filter, Decodings(c, event, topics))
<1>1. \A log \in node : log \in Logs /\ log.fragment = event /\ dec(log).log = log
  BY TheRestDecoded
<1>2. ~ Refused(event, o.filter) /\ ~ Unreadable(event)
  BY DEF Lost
<1>3. ASSUME NEW log \in Logs
      PROVE  (log \in node /\ keeps(log)) <=> log \in wanted
  <2> DEFINE Shows(p) == Shown(p, o.filter[p.name], log.values[p.name])
             Says(p)  == NamedAsText(p, o.filter[p.name], log.values[p.name])
             Meets(p) == NamedByTopic(p, o.filter[p.name], log.values[p.name])
             asks     == Asked(event, o.filter)
  <2>1. log \in node <=> c.address \in {Omitted, log.address} /\ log.fragment = event
                            /\ MetByTopics(event, o.filter, log)
    BY <1>2, NodeLogsAre
  <2>2. MetByTopics(event, o.filter, log) <=> \A p \in asks : Meets(p)
    BY DEF MetByTopics
  <2>3. log \in wanted <=> c.address \in {Omitted, log.address} /\ log.fragment = event
                              /\ \A p \in asks : Says(p)
    BY DEF WantedLogs
  <2>4. log.fragment = event => (keeps(log) <=> \A p \in asks : Shows(p))
    BY <1>2, KeptIs
  <2>5. ASSUME log.fragment = event, NEW p \in asks
        PROVE  Meets(p) /\ Shows(p) <=> Says(p)
    <3>1. p \in ToSet(log.fragment.inputs) /\ p.name \in DOMAIN o.filter
      BY <2>5 DEF Asked
    <3>2. IsValue(p, log.values[p.name])
      BY <3>1, ValuesAre
    <3>3. /\ "form" \in DOMAIN o.filter[p.name]
          /\ \A w \in Alternatives(o.filter[p.name]) : "form" \in DOMAIN w
      BY <3>1, FormsAre
    <3>4. p.indexed => ~ NoTopicFor(p, o.filter[p.name])
      BY <1>2 DEF Refused
    <3>5. QED
      BY <3>2, <3>3, <3>4, ShownIs
  <2> HIDE DEF node, keeps, wanted, asks, Meets, Shows, Says
  <2>6. QED
    BY <2>1, <2>2, <2>3, <2>4, <2>5
<1>4. wanted \subseteq Logs
  BY DEF WantedLogs
<1>5. Decodings(c, event, topics) = {dec(log) : log \in node}
  BY DEF Decodings
<1> HIDE DEF topics, node, wanted, dec
<1>6. kept = {dec(log) : log \in {l \in node : keeps(l)}}
  BY <1>5 DEF KeptOf
<1> HIDE DEF kept, keeps
<1>7. LogsOf(kept) = {log \in node : keeps(log)}
  BY <1>1, <1>6 DEF LogsOf
<1>8. LogsOf(kept) = wanted
  BY <1>1, <1>3, <1>4, <1>7
<1>9. QED
  BY <1>8 DEF kept, topics, wanted

LEMMA PastAnswered ==
    ASSUME IsContract(contract), LogsToldApart, AskPastEvents
    PROVE  Filtered(contract', asked', sent')
<1>1. PICK name \in DOMAIN contract.abi.events \cup {"allEvents"}, options \in Filters :
          Ask([topic |-> "past", name |-> name, options |-> options],
              GetPastEvents(contract, name, options))
  BY DEF AskPastEvents
<1> DEFINE event  == EventNamed(contract, name)
           filter == options.filter
           topics == EncodeEventABI(event, options)
           all    == Decodings(contract, event, topics)
           past   == KeptOf(event, filter, all)
           a      == GetPastEvents(contract, name, options)
<1>2. /\ asked'.topic = "past" /\ asked'.name = name /\ asked'.options = options
      /\ sent' = a /\ contract' = contract
  BY <1>1 DEF Ask
<1>3. ASSUME name # "allEvents", event # Omitted, DOMAIN filter \subseteq InputNames(event),
             options.topics = Omitted
      PROVE  IF Lost(event, filter) THEN a # Error => a.logs = {}
             ELSE a # Error /\ LogsOf(a.logs) = WantedLogs(contract.address, event, filter, "past")
  <2>1. /\ IsEvent(event) /\ event.name = name
        /\ name \notin {"ALLEVENTS", "allEvents"}
        /\ Named(contract.abi.interface, name) # <<>>
        /\ Named(contract.abi.interface, name)[1] = event
    BY <1>1, <1>3, EventIs
  <2> HIDE DEF event
  <2>2. a = IF Unencodable(topics) \/ ~ ValidTopics(topics) \/ Error \in all THEN Error
            ELSE [logs |-> past]
    BY <2>1, PastIs
  <2>3. Lost(event, filter) => Unencodable(topics) \/ all \subseteq {Error}
    BY <1>3, <2>1, LostDecodings
  <2>4. past \subseteq all
    BY DEF KeptOf
  <2>5. ~ Lost(event, filter) => ~ Unencodable(topics) /\ ValidTopics(topics) /\ Error \notin all
    BY <1>3, <2>1, TheRestDecoded
  <2>6. ~ Lost(event, filter) =>
            LogsOf(past) = WantedLogs(contract.address, event, filter, "past")
    BY <1>3, <2>1, PastLogs
  <2> HIDE DEF a, topics, all, past, filter
  <2>7. CASE Lost(event, filter)
    BY <2>2, <2>3, <2>4, <2>7
  <2>8. CASE ~ Lost(event, filter)
    <3>1. a = [logs |-> past]
      BY <2>2, <2>5, <2>8
    <3>2. a # Error /\ a.logs = past
      BY <3>1 DEF Error
    <3>3. QED
      BY <2>6, <2>8, <3>2
  <2>9. QED
    BY <2>7, <2>8
<1> HIDE DEF a
<1>4. Filtered(contract', asked', sent')
  BY <1>2, <1>3 DEF Filtered, AsFiltered
<1>5. QED
  BY <1>4

Subscribed(c, event, o) ==
    LET topics == EncodeEventABI(event, o)
        none   == [n \in {} |-> Omitted]
        p      == GetPastEvents(c, event.name, [o EXCEPT !.topics = topics, !.filter = none])
    IN IF Unencodable(topics) THEN Error
       ELSE [address |-> c.address, topics |-> topics,
             logs |-> Decodings(c, event, topics) \ {Error},
             past |-> IF o.fromBlock = Omitted THEN {} ELSE IF p = Error THEN {} ELSE p.logs]

LEMMA SubscriptionIs ==
    ASSUME NEW c, NEW name, name # "allEvents", NEW o, NEW event, c.abi.events[name] = event
    PROVE  ContractEvent(c, name, o) = Subscribed(c, event, o)
<1> DEFINE e == IF name = "allEvents" THEN ALL_EVENTS_ABI ELSE c.abi.events[name]
<1>1. ContractEvent(c, name, o) = Subscribed(c, e, o)
  BY DEF ContractEvent, Subscribed, Decodings
<1>2. e = event
  OBVIOUS
<1> HIDE DEF e
<1>3. QED
  BY <1>1, <1>2

LEMMA SubscriptionAnswered ==
    ASSUME IsContract(contract), LogsToldApart, AskEvents
    PROVE  Filtered(contract', asked', sent')
<1>1. PICK name \in DOMAIN contract.abi.events \cup {"allEvents"}, options \in Filters :
          Ask([topic |-> "events", name |-> name, options |-> options],
              ContractEvent(contract, name, options))
  BY DEF AskEvents
<1> DEFINE event  == EventNamed(contract, name)
           filter == options.filter
           topics == EncodeEventABI(event, options)
           none   == [n \in {} |-> Omitted]
           since  == [options EXCEPT !.topics = topics, !.filter = none]
           all    == Decodings(contract, event, topics)
           a      == ContractEvent(contract, name, options)
<1>2. /\ asked'.topic = "events" /\ asked'.name = name /\ asked'.options = options
      /\ sent' = a /\ contract' = contract
  BY <1>1 DEF Ask
<1>3. ASSUME name # "allEvents", event # Omitted, options.topics = Omitted
      PROVE  IF Lost(event, filter) THEN a # Error => a.logs = {} /\ a.past = {}
             ELSE /\ a # Error
                  /\ LogsOf(a.logs) = WantedLogs(contract.address, event, filter, "events")
                  /\ options.fromBlock # Omitted => a.past = a.logs
  <2>1. /\ IsEvent(event) /\ event.name = name
        /\ name \notin {"ALLEVENTS", "allEvents"}
        /\ Named(contract.abi.interface, name) # <<>>
        /\ Named(contract.abi.interface, name)[1] = event
        /\ contract.abi.events[name] = event
    BY <1>1, <1>3, EventIs
  <2> HIDE DEF event
  <2> DEFINE p == GetPastEvents(contract, event.name, since)
  <2>2. a = IF Unencodable(topics) THEN Error
            ELSE [address |-> contract.address, topics |-> topics, logs |-> all \ {Error},
                  past |-> IF options.fromBlock = Omitted THEN {}
                           ELSE IF p = Error THEN {} ELSE p.logs]
    <3>1. a = Subscribed(contract, event, options)
      BY <1>3, <2>1, SubscriptionIs
    <3> HIDE DEF a
    <3>2. QED
      BY <3>1 DEF Subscribed
  <2>3. EncodeEventABI(event, since) = topics
    <3>1. topics # Omitted
      BY <2>1, OmittedAssumption DEF IsEvent
    <3>2. since.topics = topics
      BY OptionsAssumption
    <3> HIDE DEF topics, since
    <3>3. QED
      BY <3>1, <3>2 DEF EncodeEventABI
  <2>4. since.filter = none
    BY OptionsAssumption
  <2> HIDE DEF since
  <2>5. p = IF Unencodable(topics) \/ ~ ValidTopics(topics) \/ Error \in all THEN Error
            ELSE [logs |-> all]
    <3>1. LET t == EncodeEventABI(event, since)
              d == Decodings(contract, event, t)
          IN p = IF Unencodable(t) \/ ~ ValidTopics(t) \/ Error \in d THEN Error
                 ELSE [logs |-> KeptOf(event, since.filter, d)]
      BY <2>1, PastIs
    <3> HIDE DEF topics, p
    <3>2. \A d : Kept(event, none, d)
      BY DEF Kept
    <3> HIDE DEF none
    <3>3. KeptOf(event, none, all) = all
      BY <3>2 DEF KeptOf
    <3>4. QED
      BY <2>3, <2>4, <3>1, <3>3
  <2>6. Lost(event, filter) => Unencodable(topics) \/ all \subseteq {Error}
    BY <1>3, <2>1, LostDecodings
  <2>7. ~ Lost(event, filter) => ~ Unencodable(topics) /\ ValidTopics(topics) /\ Error \notin all
    BY <1>3, <2>1, TheRestDecoded
  <2>8. ~ Lost(event, filter) =>
            LogsOf(all) = WantedLogs(contract.address, event, filter, "events")
    BY <1>3, <2>1, SubscribedLogs
  <2> HIDE DEF a, topics, all, filter, p
  <2>9. CASE Lost(event, filter)
    <3>1. p # Error => p.logs = {}
      BY <2>5, <2>6, <2>9
    <3>2. a # Error => a.logs = {} /\ a.past = {}
      BY <2>2, <2>6, <2>9, <3>1
    <3>3. QED
      BY <2>9, <3>2
  <2>10. CASE ~ Lost(event, filter)
    <3>1. p = [logs |-> all]
      BY <2>5, <2>7, <2>10
    <3>2. p # Error /\ p.logs = all
      BY <3>1 DEF Error
    <3>3. a = [address |-> contract.address, topics |-> topics, logs |-> all,
               past |-> IF options.fromBlock = Omitted THEN {} ELSE all]
      BY <2>2, <2>7, <2>10, <3>2
    <3>4. /\ a # Error /\ a.logs = all
          /\ a.past = IF options.fromBlock = Omitted THEN {} ELSE all
      BY <3>3 DEF Error
    <3>5. QED
      BY <2>8, <2>10, <3>4
  <2>11. QED
    BY <2>9, <2>10
<1> HIDE DEF a
<1>4. Filtered(contract', asked', sent')
  BY <1>2, <1>3 DEF Filtered, AsFiltered
<1>5. QED
  BY <1>4

(* No step leaves the interface it has to itself.                          *)
LEMMA StepsKeepObject ==
    ASSUME IsContract(contract), IsHad, [ConNext]_contractVars
    PROVE  IsContract(contract') /\ IsHad'
<1>1. ASSUME contract' = contract, had' = had
      PROVE  IsContract(contract') /\ IsHad'
  BY <1>1 DEF IsHad
<1>2. CASE ReplaceInterface \/ ParseAndSetAddress \/ SetContractDataInputFill
  BY <1>2, ChangedKeeps
<1>3. CASE AskMethod
  BY <1>1, <1>3, AskingMethod
<1>4. CASE AskDeploy
  BY <1>1, <1>4 DEF AskDeploy, Ask
<1>5. CASE AskPastEvents \/ AskEvents
  BY <1>1, <1>5, EventsAnswered
<1>6. CASE UNCHANGED contractVars
  BY <1>1, <1>6 DEF contractVars
<1>7. QED
  BY <1>2, <1>3, <1>4, <1>5, <1>6 DEF ConNext

LEMMA StepsKeepEvents ==
    ASSUME IsContract(contract), IsHad, EventsAsFiltered, LogsToldApart,
           [ConNext]_contractVars
    PROVE  EventsAsFiltered'
<1>1. ASSUME asked'.topic \notin {"past", "events"}
      PROVE  EventsAsFiltered'
  BY <1>1 DEF EventsAsFiltered
<1>2. CASE ReplaceInterface \/ ParseAndSetAddress \/ SetContractDataInputFill
  <2>1. asked' = NoQuestion
    BY <1>2, ChangedKeeps
  <2>2. asked'.topic = "none"
    BY <2>1 DEF NoQuestion
  <2>3. QED
    BY <1>1, <2>2
<1>3. CASE AskMethod
  BY <1>1, <1>3, AskingMethod
<1>4. CASE AskDeploy
  <2>1. asked'.topic = "deploy"
    BY <1>4 DEF AskDeploy, Ask
  <2>2. QED
    BY <1>1, <2>1
<1>5. CASE AskPastEvents
  BY <1>5, PastAnswered, FilteredIs
<1>6. CASE AskEvents
  BY <1>6, SubscriptionAnswered, FilteredIs
<1>7. CASE UNCHANGED contractVars
  <2>1. contract' = contract /\ asked' = asked /\ sent' = sent
    BY <1>7 DEF contractVars
  <2>2. QED
    BY <2>1, FilteredIs
<1>8. QED
  BY <1>2, <1>3, <1>4, <1>5, <1>6, <1>7 DEF ConNext

(* Past events are the logs the event wrote with the values the filter     *)
(* names as text, and a subscription has those with the indexed values it  *)
(* names in any form, for any interface, filters and logs, after any       *)
(* number of changes, as long as logs of one signature are of one fragment *)
(* (LogsToldApart).  A filter of an indexed value that a node hashes and   *)
(* the code does not, or of several strings, has none of them or is        *)
(* refused, and so has an event with an indexed list of plain values      *)
(* (contract.ts:724-806, 1163-1208, encoding.ts:48-115, logs_api.ts).      *)
THEOREM EventsAreFiltered ==
    ASSUME LogsToldApart
    PROVE  ConSpec => []EventsAsFiltered
<1> DEFINE Inv == IsContract(contract) /\ IsHad /\ EventsAsFiltered
<1>1. ConInit => Inv
  <2> SUFFICES ASSUME ConInit PROVE Inv
    OBVIOUS
  <2>1. IsContract(contract) /\ IsHad /\ asked.topic = "none"
    BY InitiallyContract DEF NoQuestion
  <2>2. QED
    BY <2>1 DEF EventsAsFiltered
<1>2. Inv /\ [ConNext]_contractVars => Inv'
  BY StepsKeepObject, StepsKeepEvents
<1>3. Inv => EventsAsFiltered
  OBVIOUS
<1>4. QED
  BY <1>1, <1>2, <1>3, PTL DEF ConSpec
==============================================================================
