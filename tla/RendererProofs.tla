---------------------------- MODULE RendererProofs ----------------------------
(***************************************************************************)
(* The renderer for any number of clients, any registrations they agree on,  *)
(* any setup of the fields and any limits that hold what is registered.       *)
(*                                                                            *)
(* The invariant has two halves.  RegistryInv is about the tables: what is in *)
(* them, what the clients hold, and the reference counts.  Registration and   *)
(* release keep it where no passes are active.  SessionInv is about the       *)
(* activation: it follows from ActState, which holds of the state that        *)
(* activation works on from the first object to the last pass.                *)
(***************************************************************************)
EXTENDS Renderer, FiniteSetTheorems, WellFoundedInduction, TLAPS

------------------------------------------------------------------------------
(* What clients register                                                     *)

\* What the proofs use of SceneAssumption, for the registrations of one scene.
Rules(R) ==
  /\ \A r \in R : WellFormed(r) /\ None \notin Keys(UsesIn(R, r)) \cup {KeyIn(R, r)}
  /\ Agreed(R)

\* What an item uses; nothing, if it is a shader of the device.
Uses(R, k) ==
  IF \E r \in R : KeyIn(R, r) = k
  THEN UsesIn(R, CHOOSE r \in R : KeyIn(R, r) = k) ELSE <<>>

Registered(R, k) == \E r \in R : KeyIn(R, r) = k

\* The tables of what an item of a table may use.
Below(t) ==
  CASE t = "object"             -> {"viewport", "type", "data", "farg", "targ"}
    [] t = "shader"             -> {"decl", "fparam", "tparam", "vs", "ps"}
    [] t \in {"gfarg", "gtarg"} -> {"farg", "targ"}
    [] t \in {"farg", "targ"}   -> {"fparam", "tparam"}
    [] t = "passes"             -> {"pass"}
    [] t = "pass"               -> {"target"}
    [] OTHER                    -> {}

\* The tables of what is used in a role.
TablesOf(role) ==
  CASE role \in {"vparam", "pparam", "param"} -> {"fparam", "tparam"}
    [] role = "arg" -> {"farg", "targ"}
    [] OTHER -> {role}

(* Functions over an interval are sequences.                                 *)
LEMMA FunctionIsSequence ==
  ASSUME NEW A, NEW n \in Nat, NEW f \in [1 .. n -> A]
  PROVE  f \in Seq(A) /\ Len(f) = n
OBVIOUS

\* Two sequences one after the other.
LEMMA Joined ==
  ASSUME NEW A, NEW s \in Seq(A), NEW t \in Seq(A)
  PROVE  /\ s \o t \in Seq(A) /\ Len(s \o t) = Len(s) + Len(t)
         /\ DOMAIN (s \o t) = 1 .. Len(s) + Len(t)
         /\ \A i \in 1 .. Len(s) + Len(t) :
              (s \o t)[i] = IF i <= Len(s) THEN s[i] ELSE t[i - Len(s)]
OBVIOUS

(* The uses of a registration: its own, and a shader's two at the device.    *)
LEMMA UsesInIs ==
  ASSUME NEW R, Rules(R), NEW r \in R
  PROVE  LET ds == UsesIn(R, r) IN
         /\ \E n \in Nat : DOMAIN ds = 1 .. n
         /\ ds \in Seq(Range(ds))
         /\ r.t # "shader" => DOMAIN ds = DOMAIN r.uses
         /\ DOMAIN r.uses \subseteq DOMAIN ds
         /\ \A i \in DOMAIN r.uses :
              ds[i] = <<r.uses[i][1], Denotes(R, r.uses[i][2], r.uses[i][3])>>
         /\ \A i \in DOMAIN ds \ DOMAIN r.uses :
              r.t = "shader" /\ ds[i] \in {<<"vs", <<"vs", r.vs>>>>, <<"ps", <<"ps", r.ps>>>>}
<1> DEFINE own1 == [i \in DOMAIN r.uses |->
                      <<r.uses[i][1], Denotes(R, r.uses[i][2], r.uses[i][3])>>]
           two == <<<<"vs", <<"vs", r.vs>>>>, <<"ps", <<"ps", r.ps>>>>>>
           ds == UsesIn(R, r)
<1>1. r.uses \in Seq(Range(r.uses))
  BY DEF Rules, WellFormed
<1>2. PICK n \in Nat : DOMAIN r.uses = 1 .. n /\ n = Len(r.uses)
  BY <1>1
<1>3. own1 \in Seq(Range(own1)) /\ Len(own1) = n /\ DOMAIN own1 = 1 .. n
  <2>1. DOMAIN own1 = 1 .. n
    BY <1>2
  <2> HIDE DEF own1
  <2>2. own1 \in [1 .. n -> Range(own1)]
    <3>1. own1 = [i \in 1 .. n |-> own1[i]]
      <4>1. own1 = [i \in DOMAIN own1 |-> own1[i]]
        BY DEF own1
      <4> QED
        BY <2>1, <4>1
    <3> QED
      BY <2>1, <3>1 DEF Range
  <2> QED
    BY <2>1, <2>2, FunctionIsSequence
<1>4. CASE r.t = "shader"
  <2>1. ds = own1 \o two
    BY <1>4 DEF UsesIn
  <2>2. two \in Seq(Range(two)) /\ Len(two) = 2
    BY DEF Range
  <2> HIDE DEF own1, two
  <2>3. own1 \in Seq(Range(own1) \cup Range(two)) /\ two \in Seq(Range(own1) \cup Range(two))
    BY <1>3, <2>2
  <2>4. /\ ds \in Seq(Range(own1) \cup Range(two)) /\ Len(ds) = n + 2
        /\ \A i \in 1 .. n + 2 : ds[i] = IF i <= n THEN own1[i] ELSE two[i - n]
    <3>1. n + 2 = Len(own1) + Len(two)
      BY <1>3, <2>2
    <3> QED
      BY <1>3, <2>1, <2>3, <3>1, Joined
  <2>5. DOMAIN ds = 1 .. n + 2 /\ n + 2 \in Nat
    BY <2>4
  <2>6. \A i \in DOMAIN ds \ (1 .. n) : ds[i] = two[1] \/ ds[i] = two[2]
    BY <2>4, <2>5
  <2>7. two[1] = <<"vs", <<"vs", r.vs>>>> /\ two[2] = <<"ps", <<"ps", r.ps>>>>
    BY DEF two
  <2>8. \A i \in 1 .. n : ds[i] = own1[i] /\ i \in DOMAIN ds
    BY <2>4, <2>5
  <2>9. ds \in Seq(Range(ds))
    BY <2>4, <2>5 DEF Range
  <2> QED
    BY <1>2, <1>4, <2>5, <2>6, <2>7, <2>8, <2>9 DEF own1
<1>5. CASE r.t # "shader"
  <2>1. ds = own1 \o <<>>
    BY <1>5 DEF UsesIn
  <2>2. ds = own1
    <3> HIDE DEF own1
    <3> QED
      BY <1>3, <2>1
  <2> QED
    BY <1>2, <1>3, <1>5, <2>2
<1> QED
  BY <1>4, <1>5

(* Clients that register items of the same key mean the same uses.           *)
LEMMA UsesOf ==
  ASSUME NEW R, Rules(R), NEW r \in R
  PROVE  Uses(R, KeyIn(R, r)) = UsesIn(R, r)
<1> DEFINE q == CHOOSE q \in R : KeyIn(R, q) = KeyIn(R, r)
<1>1. q \in R /\ KeyIn(R, q) = KeyIn(R, r)
  OBVIOUS
<1> HIDE DEF q
<1>2. UsesIn(R, q) = UsesIn(R, r)
  BY <1>1 DEF Rules, Agreed
<1> QED
  BY <1>1, <1>2 DEF Uses, q

\* What no client registers uses nothing.
LEMMA UsesUnregistered ==
  ASSUME NEW R, NEW k, ~Registered(R, k)
  PROVE  Uses(R, k) = <<>>
BY DEF Uses, Registered

(* The table of a registration's key.                                        *)
LEMMA TableOfKey ==
  ASSUME NEW R, Rules(R), NEW r \in R
  PROVE  LET t == KeyIn(R, r)[1] IN
         /\ r.t = "arg"    => t \in {"farg", "targ"} /\ (t = "farg" <=> r.n \in FloatArgs(R))
         /\ r.t = "global" => t \in {"gfarg", "gtarg"}
                              /\ (t = "gfarg" <=> r.n \in FloatGlobals(R))
         /\ r.t \notin {"arg", "global"} => t = r.t
         /\ t \notin {"vs", "ps"}
         /\ r.t # "shader" => KeyIn(R, r) = <<t, r.n>>
<1>1. r.t \in DOMAIN Roles
  BY DEF Rules, WellFormed
<1>2. DOMAIN Roles = {"viewport", "target", "back", "pass", "decl", "fparam", "tparam",
                      "shader", "passes", "type", "data", "arg", "global", "object"}
  BY DEF Roles
<1> QED
  BY <1>1, <1>2 DEF KeyIn, Denotes

\* A name that is used in a role denotes an item of a table of that role.
LEMMA TableOfUse ==
  ASSUME NEW R, Rules(R), NEW r \in R, NEW i \in DOMAIN r.uses
  PROVE  LET role == r.uses[i][1] IN
         /\ role \in Roles[r.t]
         /\ Denotes(R, r.uses[i][2], r.uses[i][3])[1] \in TablesOf(role)
<1> DEFINE role == r.uses[i][1]
<1>1. r.t \in DOMAIN Roles /\ role \in Roles[r.t] /\ r.uses[i][2] = ClassOf(role)
  BY DEF Rules, WellFormed
<1>2. DOMAIN Roles = {"viewport", "target", "back", "pass", "decl", "fparam", "tparam",
                      "shader", "passes", "type", "data", "arg", "global", "object"}
  BY DEF Roles
<1>3. role \in {"viewport", "target", "pass", "decl", "vparam", "pparam",
                "type", "data", "arg", "param"}
  BY <1>1, <1>2 DEF Roles
<1> HIDE DEF role
<1>4. Denotes(R, ClassOf(role), r.uses[i][3])[1] \in TablesOf(role)
  BY <1>3 DEF Denotes, ClassOf, TablesOf
<1> QED
  BY <1>1, <1>4 DEF role

(* What an item uses, by its table: the roles and the tables of the uses.    *)
LEMMA UsesShape ==
  ASSUME NEW R, Rules(R), NEW k
  PROVE  LET ds == Uses(R, k) IN
         /\ \E n \in Nat : DOMAIN ds = 1 .. n
         /\ ds \in Seq(Range(ds))
         /\ \A i \in DOMAIN ds :
              /\ ds[i][2][1] \in TablesOf(ds[i][1])
              /\ ds[i][2][1] \in Below(k[1])
              /\ ds[i][1] \in {"vs", "ps"} => k[1] = "shader"
         /\ Registered(R, k) =>
              /\ k[1] \notin {"vs", "ps"}
              /\ k[1] = "object" =>
                   \A role \in {"viewport", "type", "data"} :
                     \E i \in DOMAIN ds : ds[i][1] = role
              /\ k[1] = "shader" => \E i \in DOMAIN ds : ds[i][1] = "decl"
              /\ k[1] \in {"farg", "targ", "gfarg", "gtarg"} =>
                   1 \in DOMAIN ds
<1>1. CASE ~Registered(R, k)
  <2>1. Uses(R, k) = <<>>
    BY <1>1, UsesUnregistered
  <2>2. DOMAIN Uses(R, k) = {} /\ Uses(R, k) \in Seq(Range(Uses(R, k))) /\ 1 .. 0 = {}
    BY <2>1
  <2> QED
    BY <1>1, <2>2
<1>2. CASE Registered(R, k)
  <2>1. PICK r \in R : KeyIn(R, r) = k
    BY <1>2 DEF Registered
  <2> DEFINE ds == UsesIn(R, r)
  <2>2. Uses(R, k) = ds
    BY <2>1, UsesOf
  <2> HIDE DEF ds
  <2>3. /\ \E n \in Nat : DOMAIN ds = 1 .. n
        /\ ds \in Seq(Range(ds))
        /\ r.t # "shader" => DOMAIN ds = DOMAIN r.uses
        /\ DOMAIN r.uses \subseteq DOMAIN ds
        /\ \A i \in DOMAIN r.uses :
             ds[i] = <<r.uses[i][1], Denotes(R, r.uses[i][2], r.uses[i][3])>>
        /\ \A i \in DOMAIN ds \ DOMAIN r.uses :
             r.t = "shader" /\ ds[i] \in {<<"vs", <<"vs", r.vs>>>>, <<"ps", <<"ps", r.ps>>>>}
    BY UsesInIs DEF ds
  <2>4. /\ r.t = "arg"    => k[1] \in {"farg", "targ"}
        /\ r.t = "global" => k[1] \in {"gfarg", "gtarg"}
        /\ r.t \notin {"arg", "global"} => k[1] = r.t
        /\ k[1] \notin {"vs", "ps"}
    BY <2>1, TableOfKey
  <2>5. r.t \in {"viewport", "target", "back", "pass", "decl", "fparam", "tparam",
                 "shader", "passes", "type", "data", "arg", "global", "object"}
    BY DEF Rules, WellFormed, Roles
  <2>6. ASSUME NEW i \in DOMAIN ds
        PROVE  /\ ds[i][2][1] \in TablesOf(ds[i][1])
               /\ ds[i][2][1] \in Below(k[1])
               /\ ds[i][1] \in {"vs", "ps"} => k[1] = "shader"
    <3>1. CASE i \in DOMAIN r.uses
      <4> DEFINE role == ds[i][1]
                 t == ds[i][2][1]
      <4>1. role \in Roles[r.t] /\ t \in TablesOf(role)
        BY <2>3, <3>1, TableOfUse
      <4> HIDE DEF role, t
      <4>2. t \in Below(k[1])
        <5>1. CASE r.t = "object"
          BY <4>1, <2>4, <5>1 DEF Roles, TablesOf, Below
        <5>2. CASE r.t = "shader"
          BY <4>1, <2>4, <5>2 DEF Roles, TablesOf, Below
        <5>3. CASE r.t = "arg"
          BY <4>1, <2>4, <5>3 DEF Roles, TablesOf, Below
        <5>4. CASE r.t = "global"
          BY <4>1, <2>4, <5>4 DEF Roles, TablesOf, Below
        <5>5. CASE r.t \in {"passes", "pass"}
          BY <4>1, <2>4, <5>5 DEF Roles, TablesOf, Below
        <5>6. CASE r.t \in {"viewport", "target", "back", "decl", "fparam", "tparam", "type", "data"}
          BY <4>1, <5>6 DEF Roles
        <5> QED
          BY <2>5, <5>1, <5>2, <5>3, <5>4, <5>5, <5>6
      <4>3. role \notin {"vs", "ps"}
        BY <4>1, <2>5 DEF Roles
      <4> QED
        BY <4>1, <4>2, <4>3 DEF role, t
    <3>2. CASE i \notin DOMAIN r.uses
      <4>1. r.t = "shader" /\ k[1] = "shader"
        BY <2>3, <2>4, <3>2
      <4>2. ds[i] = <<"vs", <<"vs", r.vs>>>> \/ ds[i] = <<"ps", <<"ps", r.ps>>>>
        BY <2>3, <3>2
      <4>3. ds[i][1] \in {"vs", "ps"} /\ ds[i][2][1] = ds[i][1]
        BY <4>2
      <4> QED
        BY <4>1, <4>3 DEF TablesOf, Below
    <3> QED
      BY <3>1, <3>2
  <2>7. \A role \in Needs(r.t) : \E i \in DOMAIN ds : ds[i][1] = role
    <3>1. \A role \in Needs(r.t) : \E i \in DOMAIN r.uses : r.uses[i][1] = role
      BY DEF Rules, WellFormed
    <3>2. \A i \in DOMAIN r.uses : i \in DOMAIN ds /\ ds[i][1] = r.uses[i][1]
      BY <2>3
    <3> QED
      BY <3>1, <3>2
  <2>8. k[1] = "object" => \A role \in {"viewport", "type", "data"} :
                              \E i \in DOMAIN ds : ds[i][1] = role
    <3>1. k[1] = "object" => Needs(r.t) = {"viewport", "type", "data"}
      BY <2>4, <2>5 DEF Needs
    <3> QED
      BY <2>7, <3>1
  <2>9. k[1] = "shader" => \E i \in DOMAIN ds : ds[i][1] = "decl"
    <3>1. k[1] = "shader" => "decl" \in Needs(r.t)
      BY <2>4, <2>5 DEF Needs
    <3> QED
      BY <2>7, <3>1
  <2>10. ASSUME k[1] \in {"farg", "targ", "gfarg", "gtarg"} PROVE 1 \in DOMAIN ds
    <3>1. r.t \in {"arg", "global"}
      BY <2>4, <2>5, <2>10
    <3>2. Needs(r.t) # {}
      BY <3>1 DEF Needs, Roles
    <3>3. PICK i \in DOMAIN ds : TRUE
      BY <2>7, <3>2
    <3> QED
      BY <2>3, <3>3
  <2> QED
    BY <2>2, <2>3, <2>4, <2>6, <2>8, <2>9, <2>10
<1> QED
  BY <1>1, <1>2

(* A registration that provides what another one uses is of the key that is used. *)
LEMMA ProvidedKey ==
  ASSUME NEW R, Rules(R), NEW q \in R, NEW r \in R, NEW i \in DOMAIN r.uses,
         Provides(q, r.uses[i])
  PROVE  KeyIn(R, q) = Denotes(R, r.uses[i][2], r.uses[i][3])
<1> DEFINE class == r.uses[i][2]
           n == r.uses[i][3]
<1>1. q.n = n /\ class = IF q.t \in {"fparam", "tparam"} THEN "param" ELSE q.t
  BY DEF Provides
<1>2. r.t \in DOMAIN Roles /\ r.uses[i][1] \in Roles[r.t] /\ class = ClassOf(r.uses[i][1])
  BY DEF Rules, WellFormed
<1>3. class \notin {"shader", "fparam", "tparam"}
  BY <1>2 DEF Roles, ClassOf
<1>4. NamesOf(R, "fparam") \cap NamesOf(R, "tparam") = {}
  BY DEF Rules, Agreed
<1>5. q.n \in NamesOf(R, q.t)
  BY DEF NamesOf
<1> SUFFICES KeyIn(R, q) = Denotes(R, class, n)
  OBVIOUS
<1> HIDE DEF class, n
<1>6. CASE q.t = "fparam"
  BY <1>1, <1>5, <1>6 DEF KeyIn, Denotes, FloatParams
<1>7. CASE q.t = "tparam"
  BY <1>1, <1>4, <1>5, <1>7 DEF KeyIn, Denotes, FloatParams
<1>8. CASE q.t \notin {"fparam", "tparam"}
  BY <1>1, <1>3, <1>8 DEF KeyIn
<1> QED
  BY <1>6, <1>7, <1>8

(* The kind of an argument is that of its parameter, of a global argument that
   of its argument.                                                         *)
LEMMA KindOfArgument ==
  ASSUME NEW R, Rules(R), NEW r \in R, r.t \in {"arg", "global"}
  PROVE  /\ 1 \in DOMAIN r.uses
         /\ r.t = "arg" =>
              /\ r.uses[1][2] = "param"
              /\ r.n \in FloatArgs(R) <=> r.uses[1][3] \in FloatParams(R)
         /\ r.t = "global" =>
              /\ r.uses[1][2] = "arg"
              /\ r.n \in FloatGlobals(R) <=> r.uses[1][3] \in FloatArgs(R)
<1>1. ASSUME NEW q \in R, q.t \in {"arg", "global"}
      PROVE  /\ 1 \in DOMAIN q.uses
             /\ q.t = "arg" => q.uses[1][2] = "param"
             /\ q.t = "global" => q.uses[1][2] = "arg"
             /\ UsesIn(R, q)[1] = <<q.uses[1][1], Denotes(R, q.uses[1][2], q.uses[1][3])>>
  <2>1. /\ q.uses \in Seq(Range(q.uses))
        /\ \A i \in DOMAIN q.uses : q.uses[i][1] \in Roles[q.t] /\ q.uses[i][2] = ClassOf(q.uses[i][1])
        /\ \A role \in Needs(q.t) : \E i \in DOMAIN q.uses : q.uses[i][1] = role
    BY DEF Rules, WellFormed
  <2>2. Needs(q.t) = Roles[q.t] /\ Roles[q.t] # {}
    BY <1>1 DEF Needs, Roles
  <2>3. DOMAIN q.uses # {} /\ DOMAIN q.uses = 1 .. Len(q.uses) /\ Len(q.uses) \in Nat
    BY <2>1, <2>2
  <2>4. 1 \in DOMAIN q.uses
    BY <2>3
  <2>5. /\ q.t = "arg" => q.uses[1][2] = "param"
        /\ q.t = "global" => q.uses[1][2] = "arg"
    BY <1>1, <2>1, <2>4 DEF Roles, ClassOf
  <2> QED
    BY <2>4, <2>5, UsesInIs
<1>2. ASSUME NEW q \in R, q.t = r.t, q.n = r.n PROVE UsesIn(R, q) = UsesIn(R, r)
  <2>1. KeyIn(R, q) = KeyIn(R, r)
    BY <1>2 DEF KeyIn
  <2> QED
    BY <2>1 DEF Rules, Agreed
<1>3. ASSUME r.t = "arg" PROVE r.n \in FloatArgs(R) <=> r.uses[1][3] \in FloatParams(R)
  <2>1. r.uses[1][3] \in FloatParams(R) => r.n \in FloatArgs(R)
    BY <1>3 DEF FloatArgs
  <2>2. ASSUME r.n \in FloatArgs(R) PROVE r.uses[1][3] \in FloatParams(R)
    <3>1. PICK q \in R : q.t = "arg" /\ q.uses[1][3] \in FloatParams(R) /\ q.n = r.n
      BY <2>2 DEF FloatArgs
    <3>2. Denotes(R, "param", q.uses[1][3]) = Denotes(R, "param", r.uses[1][3])
      <4>1. UsesIn(R, q)[1][2] = UsesIn(R, r)[1][2]
        BY <1>2, <1>3, <3>1
      <4> QED
        BY <1>1, <1>3, <3>1, <4>1
    <3> QED
      BY <3>1, <3>2 DEF Denotes
  <2> QED
    BY <2>1, <2>2
<1>4. ASSUME r.t = "global" PROVE r.n \in FloatGlobals(R) <=> r.uses[1][3] \in FloatArgs(R)
  <2>1. r.uses[1][3] \in FloatArgs(R) => r.n \in FloatGlobals(R)
    BY <1>4 DEF FloatGlobals
  <2>2. ASSUME r.n \in FloatGlobals(R) PROVE r.uses[1][3] \in FloatArgs(R)
    <3>1. PICK q \in R : q.t = "global" /\ q.uses[1][3] \in FloatArgs(R) /\ q.n = r.n
      BY <2>2 DEF FloatGlobals
    <3>2. Denotes(R, "arg", q.uses[1][3]) = Denotes(R, "arg", r.uses[1][3])
      <4>1. UsesIn(R, q)[1][2] = UsesIn(R, r)[1][2]
        BY <1>2, <1>4, <3>1
      <4> QED
        BY <1>1, <1>4, <3>1, <4>1
    <3> QED
      BY <3>1, <3>2 DEF Denotes
  <2> QED
    BY <2>1, <2>2
<1> QED
  BY <1>1, <1>3, <1>4

------------------------------------------------------------------------------
(* Sequences                                                                 *)

IsSeq(s) == s \in Seq(Range(s))

\* The indexes of a sequence.
LEMMA SequenceDomain ==
  ASSUME NEW s, IsSeq(s)
  PROVE  Len(s) \in Nat /\ DOMAIN s = 1 .. Len(s)
BY DEF IsSeq

\* A sequence and one more.
LEMMA InsertedLast ==
  ASSUME NEW s, IsSeq(s), NEW x
  PROVE  /\ IsSeq(Append(s, x)) /\ Len(Append(s, x)) = Len(s) + 1
         /\ DOMAIN Append(s, x) = 1 .. Len(s) + 1
         /\ \A i \in DOMAIN s : Append(s, x)[i] = s[i]
         /\ Append(s, x)[Len(s) + 1] = x
         /\ Range(Append(s, x)) = Range(s) \cup {x}
<1> DEFINE t == Append(s, x)
<1>1. s \in Seq(Range(s) \cup {x}) /\ Len(s) \in Nat /\ DOMAIN s = 1 .. Len(s)
  BY DEF IsSeq
<1>2. /\ t \in Seq(Range(s) \cup {x}) /\ Len(t) = Len(s) + 1 /\ DOMAIN t = 1 .. Len(s) + 1
      /\ \A i \in 1 .. Len(s) : t[i] = s[i]
      /\ t[Len(s) + 1] = x
  BY <1>1
<1> HIDE DEF t
<1>3. Range(t) = Range(s) \cup {x}
  BY <1>1, <1>2 DEF Range
<1> QED
  BY <1>1, <1>2, <1>3 DEF IsSeq, t

\* The empty sequence.
LEMMA EmptySequence == IsSeq(<<>>) /\ DOMAIN <<>> = {} /\ Range(<<>>) = {} /\ Len(<<>>) = 0
<1>1. DOMAIN <<>> = {} /\ Range(<<>>) = {} /\ Len(<<>>) = 0
  BY DEF Range
<1>2. <<>> \in Seq({})
  OBVIOUS
<1> QED
  BY <1>1, <1>2 DEF IsSeq

------------------------------------------------------------------------------
(* Counting                                                                  *)

\* The registrations that clients hold, and those of the key k.
Held(o) == UNION {{c} \X o[c] : c \in Clients}
HeldOf(R, o, k) == {h \in Held(o) : KeyIn(R, h[2]) = k}

\* The uses that the items of L make, and those of k.
UsesBy(R, L) == UNION {{y} \X DOMAIN Uses(R, y) : y \in L}
UsesTo(R, L, k) == {x \in UsesBy(R, L) : Uses(R, x[1])[x[2]][2] = k}

\* A registration that some client holds.
LEMMA InHeld == \A o, h : h \in Held(o) <=> \E c \in Clients : \E r \in o[c] : h = <<c, r>>
BY DEF Held

\* A use that some item makes.
LEMMA InUsesBy ==
  \A R, L, x : x \in UsesBy(R, L) <=> \E y \in L : \E i \in DOMAIN Uses(R, y) : x = <<y, i>>
BY DEF UsesBy

\* c takes or leaves r.
Takes(o, n, c, r) == DOMAIN o = Clients /\ r \notin o[c] /\ n = [o EXCEPT ![c] = @ \cup {r}]
Leaves(o, n, c, r) == DOMAIN o = Clients /\ r \in o[c] /\ n = [o EXCEPT ![c] = @ \ {r}]

\* A registration adds one to the registrations of its item and none to another's.
LEMMA HeldAdded ==
  ASSUME NEW R, NEW o, NEW n, NEW c \in Clients, NEW r, Takes(o, n, c, r),
         IsFiniteSet(Held(o)), NEW k
  PROVE  /\ IsFiniteSet(Held(n))
         /\ Cardinality(HeldOf(R, n, k)) =
              Cardinality(HeldOf(R, o, k)) + IF KeyIn(R, r) = k THEN 1 ELSE 0
         /\ Cardinality(HeldOf(R, o, k)) \in Nat
<1>1. \A d \in Clients : n[d] = IF d = c THEN o[c] \cup {r} ELSE o[d]
  BY DEF Takes
<1>2. Held(n) = Held(o) \cup {<<c, r>>}
  <2>1. ASSUME NEW h PROVE h \in Held(n) <=> h \in Held(o) \cup {<<c, r>>}
    BY <1>1, InHeld
  <2> QED
    BY <2>1
<1>3. <<c, r>> \notin Held(o)
  BY InHeld DEF Takes
<1>4. HeldOf(R, n, k) = IF KeyIn(R, r) = k THEN HeldOf(R, o, k) \cup {<<c, r>>}
                        ELSE HeldOf(R, o, k)
  BY <1>2 DEF HeldOf
<1>5. IsFiniteSet(HeldOf(R, o, k)) /\ <<c, r>> \notin HeldOf(R, o, k)
  <2>1. HeldOf(R, o, k) \in SUBSET Held(o)
    BY DEF HeldOf
  <2> QED
    BY <1>3, <2>1, FS_Subset
<1>6. Cardinality(HeldOf(R, o, k)) \in Nat
  BY <1>5, FS_CardinalityType
<1>7. IsFiniteSet(Held(n))
  BY <1>2, FS_AddElement
<1>8. KeyIn(R, r) = k => Cardinality(HeldOf(R, n, k)) = Cardinality(HeldOf(R, o, k)) + 1
  BY <1>4, <1>5, FS_AddElement
<1> QED
  BY <1>4, <1>6, <1>7, <1>8

\* A release takes one from the registrations of its item and none from another's.
LEMMA HeldRemoved ==
  ASSUME NEW R, NEW o, NEW n, NEW c \in Clients, NEW r, Leaves(o, n, c, r),
         IsFiniteSet(Held(o)), NEW k
  PROVE  /\ IsFiniteSet(Held(n))
         /\ Cardinality(HeldOf(R, n, k)) =
              Cardinality(HeldOf(R, o, k)) - IF KeyIn(R, r) = k THEN 1 ELSE 0
         /\ Cardinality(HeldOf(R, n, k)) \in Nat
<1>1. \A d \in Clients : n[d] = IF d = c THEN o[c] \ {r} ELSE o[d]
  BY DEF Leaves
<1>2. Held(n) = Held(o) \ {<<c, r>>}
  <2>1. ASSUME NEW h PROVE h \in Held(n) <=> h \in Held(o) \ {<<c, r>>}
    BY <1>1, InHeld
  <2> QED
    BY <2>1
<1>3. <<c, r>> \in Held(o)
  BY InHeld DEF Leaves
<1>4. HeldOf(R, n, k) = IF KeyIn(R, r) = k THEN HeldOf(R, o, k) \ {<<c, r>>}
                        ELSE HeldOf(R, o, k)
  BY <1>2 DEF HeldOf
<1>5. IsFiniteSet(HeldOf(R, o, k)) /\ (KeyIn(R, r) = k => <<c, r>> \in HeldOf(R, o, k))
  <2>1. HeldOf(R, o, k) \in SUBSET Held(o)
    BY DEF HeldOf
  <2> QED
    BY <1>3, <2>1, FS_Subset DEF HeldOf
<1>6. IsFiniteSet(Held(n)) /\ IsFiniteSet(HeldOf(R, n, k))
  <2>1. HeldOf(R, n, k) \in SUBSET Held(o)
    BY <1>2 DEF HeldOf
  <2> QED
    BY <1>2, <2>1, FS_Subset, FS_RemoveElement
<1>7. Cardinality(HeldOf(R, n, k)) \in Nat
  BY <1>6, FS_CardinalityType
<1>8. KeyIn(R, r) = k => Cardinality(HeldOf(R, n, k)) = Cardinality(HeldOf(R, o, k)) - 1
  BY <1>4, <1>5, FS_RemoveElement
<1> QED
  BY <1>4, <1>5, <1>6, <1>7, <1>8, FS_CardinalityType

(* The references of one item to k.                                          *)
UsesFrom(R, y, k) == {x \in {y} \X DOMAIN Uses(R, y) : Uses(R, x[1])[x[2]][2] = k}

\* The pairs of one thing with the members of a set are as many as these.
LEMMA Paired ==
  ASSUME NEW A, IsFiniteSet(A), NEW y
  PROVE  IsFiniteSet({y} \X A) /\ Cardinality({y} \X A) = Cardinality(A)
<1> DEFINE f == [a \in A |-> <<y, a>>]
<1>1. f \in [A -> {y} \X A]
  OBVIOUS
<1>2. \A a, b \in A : f[a] = f[b] => a = b
  OBVIOUS
<1>3. \A p \in {y} \X A : \E a \in A : f[a] = p
  OBVIOUS
<1> HIDE DEF f
<1>4. f \in Injection(A, {y} \X A)
  BY <1>1, <1>2 DEF Injection, IsInjective
<1>5. f \in Surjection(A, {y} \X A)
  BY <1>1, <1>3 DEF Surjection
<1>6. ExistsBijection(A, {y} \X A)
  BY <1>4, <1>5 DEF Bijection, ExistsBijection
<1> QED
  BY <1>6, FS_Bijection

\* The uses that one item makes of another.
LEMMA UsesOfOne ==
  ASSUME NEW R, Rules(R), NEW y, NEW k
  PROVE  /\ IsFiniteSet({y} \X DOMAIN Uses(R, y)) /\ IsFiniteSet(UsesFrom(R, y, k))
         /\ Cardinality(UsesFrom(R, y, k)) = Times(Uses(R, y), DOMAIN Uses(R, y), k)
         /\ Times(Uses(R, y), DOMAIN Uses(R, y), k) \in Nat
<1> DEFINE is == DOMAIN Uses(R, y)
           I == {i \in is : Uses(R, y)[i][2] = k}
<1>1. PICK n \in Nat : is = 1 .. n
  BY UsesShape
<1>2. IsFiniteSet(is) /\ IsFiniteSet(I)
  <2>1. IsFiniteSet(1 .. n)
    BY FS_Interval
  <2> QED
    BY <1>1, <2>1, FS_Subset
<1>3. UsesFrom(R, y, k) = {y} \X I
  BY DEF UsesFrom
<1>4. Times(Uses(R, y), is, k) = Cardinality(I)
  BY DEF Times
<1> HIDE DEF I
<1>5. Cardinality(I) \in Nat
  BY <1>2, FS_CardinalityType
<1> QED
  BY <1>2, <1>3, <1>4, <1>5, Paired

\* Finite sets apart from each other.
LEMMA DisjointUnion ==
  ASSUME NEW S, IsFiniteSet(S), NEW T, IsFiniteSet(T), S \cap T = {}
  PROVE  /\ IsFiniteSet(S \cup T)
         /\ Cardinality(S \cup T) = Cardinality(S) + Cardinality(T)
         /\ Cardinality(S) \in Nat /\ Cardinality(T) \in Nat
<1>1. Cardinality(S) \in Nat /\ Cardinality(T) \in Nat
  BY FS_CardinalityType
<1>2. Cardinality(S \cap T) = 0
  BY FS_EmptySet
<1>3. /\ IsFiniteSet(S \cup T)
      /\ Cardinality(S \cup T) = Cardinality(S) + Cardinality(T) - Cardinality(S \cap T)
  BY FS_Union, Zenon
<1> QED
  BY <1>1, <1>2, <1>3

\* Shaders of the device and the like, which use nothing.
Simple(R, N) == \A x \in N : Uses(R, x) = <<>>

(* A new item, and shaders at the device, which use nothing.                 *)
LEMMA UsesAdded ==
  ASSUME NEW R, Rules(R), NEW L, IsFiniteSet(UsesBy(R, L)), NEW y, y \notin L,
         NEW N, Simple(R, N), NEW k, NEW M, M = L \cup N \cup {y}
  PROVE  /\ IsFiniteSet(UsesBy(R, M))
         /\ Cardinality(UsesTo(R, M, k)) =
              Cardinality(UsesTo(R, L, k)) + Times(Uses(R, y), DOMAIN Uses(R, y), k)
         /\ Cardinality(UsesTo(R, L, k)) \in Nat
         /\ Times(Uses(R, y), DOMAIN Uses(R, y), k) \in Nat
<1>1. UsesBy(R, M) = UsesBy(R, L) \cup ({y} \X DOMAIN Uses(R, y))
  <2>1. \A x \in N : DOMAIN Uses(R, x) = {}
    BY DEF Simple
  <2>2. ASSUME NEW x
        PROVE  x \in UsesBy(R, M) <=> x \in UsesBy(R, L) \cup ({y} \X DOMAIN Uses(R, y))
    BY <2>1, InUsesBy
  <2> QED
    BY <2>2
<1>2. UsesTo(R, M, k) = UsesTo(R, L, k) \cup UsesFrom(R, y, k)
  BY <1>1 DEF UsesTo, UsesFrom
<1>3. UsesTo(R, L, k) \cap UsesFrom(R, y, k) = {}
  <2>1. ASSUME NEW x \in UsesTo(R, L, k) PROVE x \notin UsesFrom(R, y, k)
    <3>1. PICK z \in L : \E i \in DOMAIN Uses(R, z) : x = <<z, i>>
      BY InUsesBy DEF UsesTo
    <3> QED
      BY <3>1 DEF UsesFrom
  <2> QED
    BY <2>1
<1>4. /\ IsFiniteSet({y} \X DOMAIN Uses(R, y)) /\ IsFiniteSet(UsesFrom(R, y, k))
      /\ Cardinality(UsesFrom(R, y, k)) = Times(Uses(R, y), DOMAIN Uses(R, y), k)
      /\ Times(Uses(R, y), DOMAIN Uses(R, y), k) \in Nat
  BY UsesOfOne
<1>5. IsFiniteSet(UsesTo(R, L, k))
  <2>1. UsesTo(R, L, k) \in SUBSET UsesBy(R, L)
    BY DEF UsesTo
  <2> QED
    BY <2>1, FS_Subset
<1>6. IsFiniteSet(UsesBy(R, M))
  <2>1. IsFiniteSet(UsesBy(R, L) \cup ({y} \X DOMAIN Uses(R, y)))
    BY <1>4, FS_Union
  <2> QED
    BY <1>1, <2>1, Zenon
<1>7. Cardinality(UsesTo(R, M, k)) = Cardinality(UsesTo(R, L, k)) + Cardinality(UsesFrom(R, y, k))
  <2>1. Cardinality(UsesTo(R, L, k) \cup UsesFrom(R, y, k)) =
          Cardinality(UsesTo(R, L, k)) + Cardinality(UsesFrom(R, y, k))
    BY <1>3, <1>4, <1>5, DisjointUnion, Zenon
  <2> QED
    BY <1>2, <2>1, Zenon
<1>8. Cardinality(UsesTo(R, L, k)) \in Nat
  BY <1>5, FS_CardinalityType
<1> QED
  BY <1>4, <1>6, <1>7, <1>8

\* An item that goes takes its uses with it.
LEMMA UsesRemoved ==
  ASSUME NEW R, Rules(R), NEW L, IsFiniteSet(UsesBy(R, L)), NEW y \in L,
         NEW N, Simple(R, N), NEW k, NEW M, M = L \ (N \cup {y})
  PROVE  /\ IsFiniteSet(UsesBy(R, M))
         /\ Cardinality(UsesTo(R, L, k)) =
              Cardinality(UsesTo(R, M, k)) + Times(Uses(R, y), DOMAIN Uses(R, y), k)
         /\ Cardinality(UsesTo(R, M, k)) \in Nat
         /\ Times(Uses(R, y), DOMAIN Uses(R, y), k) \in Nat
<1>1. IsFiniteSet(UsesBy(R, M))
  <2>1. UsesBy(R, M) \in SUBSET UsesBy(R, L)
    BY InUsesBy
  <2> QED
    BY <2>1, FS_Subset
<1> DEFINE P == L \cap N
<1>2. y \notin M
  OBVIOUS
<1>3. L = M \cup P \cup {y}
  OBVIOUS
<1>4. Simple(R, P)
  BY DEF Simple
<1> HIDE DEF P
<1>5. ASSUME NEW X, X = M \cup P \cup {y}
      PROVE  /\ Cardinality(UsesTo(R, X, k)) =
                  Cardinality(UsesTo(R, M, k)) + Times(Uses(R, y), DOMAIN Uses(R, y), k)
             /\ Cardinality(UsesTo(R, M, k)) \in Nat
             /\ Times(Uses(R, y), DOMAIN Uses(R, y), k) \in Nat
  BY <1>1, <1>2, <1>4, <1>5, UsesAdded, SMTT(60)
<1> QED
  BY <1>1, <1>3, <1>5

\* The uses of an item are finitely many, and none if no item uses it.
LEMMA NoUses ==
  ASSUME NEW R, NEW L, IsFiniteSet(UsesBy(R, L)), NEW k
  PROVE  /\ Cardinality(UsesTo(R, L, k)) \in Nat
         /\ Cardinality(UsesTo(R, L, k)) # 0 <=>
              \E y \in L : \E i \in DOMAIN Uses(R, y) : Uses(R, y)[i][2] = k
<1>1. IsFiniteSet(UsesTo(R, L, k))
  <2>1. UsesTo(R, L, k) \in SUBSET UsesBy(R, L)
    BY DEF UsesTo
  <2> QED
    BY <2>1, FS_Subset
<1>2. ASSUME NEW y \in L, NEW i \in DOMAIN Uses(R, y), Uses(R, y)[i][2] = k
      PROVE  UsesTo(R, L, k) # {}
  <2>1. <<y, i>> \in UsesTo(R, L, k)
    BY <1>2, InUsesBy DEF UsesTo
  <2> QED
    BY <2>1
<1>3. ASSUME NEW x \in UsesTo(R, L, k)
      PROVE  \E y \in L : \E i \in DOMAIN Uses(R, y) : Uses(R, y)[i][2] = k
  <2>1. PICK y \in L : \E i \in DOMAIN Uses(R, y) : x = <<y, i>>
    BY InUsesBy DEF UsesTo
  <2>2. PICK i \in DOMAIN Uses(R, y) : x = <<y, i>>
    BY <2>1
  <2>3. Uses(R, y)[i][2] = k
    BY <2>2 DEF UsesTo
  <2> QED
    BY <2>3
<1>4. UsesTo(R, L, k) # {} <=> Cardinality(UsesTo(R, L, k)) # 0
  BY <1>1, FS_EmptySet
<1> QED
  BY <1>1, <1>2, <1>3, <1>4, FS_CardinalityType

\* The registrations of an item are finitely many, and none if no client holds it.
LEMMA NoHolders ==
  ASSUME NEW R, NEW o, IsFiniteSet(Held(o)), NEW k
  PROVE  /\ Cardinality(HeldOf(R, o, k)) \in Nat
         /\ Cardinality(HeldOf(R, o, k)) # 0 <=>
              \E c \in Clients : \E r \in o[c] : KeyIn(R, r) = k
<1>1. IsFiniteSet(HeldOf(R, o, k))
  <2>1. HeldOf(R, o, k) \in SUBSET Held(o)
    BY DEF HeldOf
  <2> QED
    BY <2>1, FS_Subset
<1>2. ASSUME NEW c \in Clients, NEW r \in o[c], KeyIn(R, r) = k
      PROVE  HeldOf(R, o, k) # {}
  <2>1. <<c, r>> \in HeldOf(R, o, k)
    BY <1>2, InHeld DEF HeldOf
  <2> QED
    BY <2>1
<1>3. ASSUME NEW h \in HeldOf(R, o, k)
      PROVE  \E c \in Clients : \E r \in o[c] : KeyIn(R, r) = k
  <2>1. PICK c \in Clients : \E r \in o[c] : h = <<c, r>>
    BY InHeld DEF HeldOf
  <2>2. PICK r \in o[c] : h = <<c, r>>
    BY <2>1
  <2>3. KeyIn(R, r) = k
    BY <2>2 DEF HeldOf
  <2> QED
    BY <2>3
<1>4. HeldOf(R, o, k) # {} <=> Cardinality(HeldOf(R, o, k)) # 0
  BY <1>1, FS_EmptySet
<1> QED
  BY <1>1, <1>2, <1>3, <1>4, FS_CardinalityType

------------------------------------------------------------------------------
(* The inductive invariant                                                   *)

\* What an entry of the memory is.
IsEntry(e) ==
  /\ DOMAIN e = {"refs", "deps", "act", "bufs", "keys"}
  /\ e.refs \in Nat /\ e.act \in Nat \cup {None}
  /\ IsSeq(e.bufs) /\ IsSeq(e.keys)

\* R is what the clients may register.
SceneInv(R) == Rules(R) /\ \E S \in Scenes : scene = S /\ R = RegistrationsOf(S)

\* Clients hold what the items they hold use, and what they hold is in the tables.
OwnInv(R) ==
  /\ DOMAIN own = Clients
  /\ \A c \in Clients : own[c] \subseteq scene[c] /\ own[c] \subseteq R
  /\ \A c \in Clients : \A q \in own[c] :
       /\ KeyIn(R, q) \in live
       /\ \A i \in DOMAIN q.uses : \E p \in own[c] : Provides(p, q.uses[i])

\* What is in the tables is held by a client, or used, and so is what it uses.
LiveInv(R) ==
  /\ live \subseteq DOMAIN mem /\ None \notin live
  /\ \A k \in live :
       /\ k[1] \in {"vs", "ps"} \/ \E c \in Clients : \E q \in own[c] : KeyIn(R, q) = k
       /\ \A i \in DOMAIN Uses(R, k) : Uses(R, k)[i][2] \in live

\* The memory, of items in the tables and not, has what they use.
MemInv(R) ==
  \A k \in DOMAIN mem :
    /\ IsEntry(mem[k]) /\ mem[k].deps = Uses(R, k)
    /\ k[1] \in {"vs", "ps"} \/ Registered(R, k)
    /\ \A i \in DOMAIN Uses(R, k) : Uses(R, k)[i][2] \in DOMAIN mem
    /\ Range(mem[k].bufs) \subseteq DOMAIN pool

ObjsInv ==
  IsSeq(objs) /\ \A i \in DOMAIN objs : objs[i] \in DOMAIN mem /\ objs[i][1] = "object"

CountInv(R) ==
  /\ IsFiniteSet(Held(own)) /\ IsFiniteSet(UsesBy(R, live))
  /\ \A k \in live :
       /\ mem[k].refs = Cardinality(HeldOf(R, own, k)) + Cardinality(UsesTo(R, live, k))
                        + IF active = k THEN 1 ELSE 0
       /\ mem[k].refs > 0
  /\ device = SetToBag(Shaders(live))

RegistryInv(R) ==
  SceneInv(R) /\ OwnInv(R) /\ LiveInv(R) /\ MemInv(R) /\ ObjsInv /\ CountInv(R)

\* Without an activation nothing has an index but the objects, nor a render key.
IdleInv ==
  /\ vps = <<>> /\ decls = <<>> /\ shdrs = <<>>
  /\ \A k \in DOMAIN mem :
       mem[k].keys = <<>> /\ (k[1] \in {"viewport", "decl", "shader"} => mem[k].act = None)
  /\ \A i \in DOMAIN enqueued : ~enqueued[i].current

------------------------------------------------------------------------------
(* What a name denotes                                                       *)

\* Clients go on with the registrations they have.
LEMMA SceneStays ==
  ASSUME NEW R, SceneInv(R), scene' = scene PROVE SceneInv(R)'
BY DEF SceneInv

\* What SceneAssumption says of the registrations of a scene.
LEMMA RulesHold ==
  ASSUME NEW S \in Scenes PROVE Rules(RegistrationsOf(S))
BY SceneAssumption DEF Rules

\* What a client registers is one of the registrations.
LEMMA SceneRegistrations ==
  ASSUME NEW R, SceneInv(R), NEW c \in Clients PROVE scene[c] \subseteq R
<1>1. PICK S \in Scenes : scene = S /\ R = RegistrationsOf(S)
  BY DEF SceneInv
<1>2. DOMAIN S = Clients
  BY <1>1, SceneAssumption
<1> QED
  BY <1>1, <1>2 DEF RegistrationsOf, Range

(* Find finds the item that a name denotes while that item is in its table.  *)
LEMMA FindInUse ==
  ASSUME NEW R, SceneInv(R), OwnInv(R), LiveInv(R), NEW class, NEW n,
         Denotes(R, class, n) \in live
  PROVE  Find(class, n) = Denotes(R, class, n)
<1>0. Rules(R) /\ \A c \in Clients : own[c] \subseteq R
  BY DEF SceneInv, OwnInv
<1>1. ASSUME <<"fparam", n>> \in live PROVE n \in FloatParams(R)
  <2>1. PICK q \in R : KeyIn(R, q) = <<"fparam", n>>
    BY <1>0, <1>1 DEF LiveInv
  <2>2. KeyIn(R, q)[1] = "fparam" /\ KeyIn(R, q)[2] = n
    BY <2>1
  <2>3. q.t \notin {"arg", "global"} /\ q.t = "fparam"
    BY <1>0, <2>2, TableOfKey
  <2>4. q.n = n
    BY <1>0, <2>1, <2>3, TableOfKey
  <2> QED
    BY <2>3, <2>4 DEF FloatParams, NamesOf
<1>2. ASSUME <<"farg", n>> \in live PROVE n \in FloatArgs(R)
  <2>1. PICK q \in R : KeyIn(R, q) = <<"farg", n>>
    BY <1>0, <1>2 DEF LiveInv
  <2>2. KeyIn(R, q)[1] = "farg" /\ KeyIn(R, q)[2] = n
    BY <2>1
  <2>3. q.t # "farg"
    BY <1>0 DEF Rules, WellFormed, Roles
  <2>4. q.t = "arg"
    BY <1>0, <2>2, <2>3, TableOfKey
  <2>5. q.n = n
    BY <1>0, <2>1, <2>4, TableOfKey
  <2> QED
    BY <1>0, <2>2, <2>4, <2>5, TableOfKey
<1>3. ASSUME <<"gfarg", n>> \in live PROVE n \in FloatGlobals(R)
  <2>1. PICK q \in R : KeyIn(R, q) = <<"gfarg", n>>
    BY <1>0, <1>3 DEF LiveInv
  <2>2. KeyIn(R, q)[1] = "gfarg" /\ KeyIn(R, q)[2] = n
    BY <2>1
  <2>3. q.t # "gfarg"
    BY <1>0 DEF Rules, WellFormed, Roles
  <2>4. q.t = "global"
    BY <1>0, <2>2, <2>3, TableOfKey
  <2>5. q.n = n
    BY <1>0, <2>1, <2>4, TableOfKey
  <2> QED
    BY <1>0, <2>2, <2>4, <2>5, TableOfKey
<1>4. CASE class = "param"
  <2>1. n \in FloatParams(R) => <<"fparam", n>> \in live
    BY <1>4 DEF Denotes
  <2> QED
    BY <1>1, <1>4, <2>1 DEF Find, Denotes
<1>5. CASE class = "arg"
  <2>1. n \in FloatArgs(R) => <<"farg", n>> \in live
    BY <1>5 DEF Denotes
  <2> QED
    BY <1>2, <1>5, <2>1 DEF Find, Denotes
<1>6. CASE class = "global"
  <2>1. n \in FloatGlobals(R) => <<"gfarg", n>> \in live
    BY <1>6 DEF Denotes
  <2> QED
    BY <1>3, <1>6, <2>1 DEF Find, Denotes
<1>7. CASE class \notin {"param", "arg", "global"}
  BY <1>7 DEF Find, Denotes
<1> QED
  BY <1>4, <1>5, <1>6, <1>7

(* The key of what a client holds.                                           *)
LEMMA KeyOfHeld ==
  ASSUME NEW R, SceneInv(R), OwnInv(R), LiveInv(R), NEW c \in Clients, NEW q \in own[c]
  PROVE  KeyOf(q) = KeyIn(R, q)
<1>1. KeyIn(R, q) \in live
  BY DEF OwnInv
<1>2. CASE q.t = "shader"
  BY <1>2 DEF KeyOf, KeyIn
<1>3. CASE q.t # "shader"
  BY <1>1, <1>3, FindInUse DEF KeyOf, KeyIn
<1> QED
  BY <1>2, <1>3

(* What a registration uses is what the items that it names use.             *)
LEMMA UsesHeld ==
  ASSUME NEW R, SceneInv(R), OwnInv(R), LiveInv(R), NEW c \in Clients, NEW r \in R,
         \A i \in DOMAIN r.uses : \E q \in own[c] : Provides(q, r.uses[i])
  PROVE  /\ \A i \in DOMAIN r.uses :
              /\ \E q \in own[c] : KeyIn(R, q) = UsesIn(R, r)[i][2]
              /\ UsesIn(R, r)[i][2] \in live
              /\ DepsOf(r)[i] = UsesIn(R, r)[i]
         /\ r.t # "shader" => DepsOf(r) = UsesIn(R, r)
         /\ r.t = "shader" =>
              UsesIn(R, r) = DepsOf(r) \o <<<<"vs", <<"vs", r.vs>>>>, <<"ps", <<"ps", r.ps>>>>>>
<1>0. Rules(R)
  BY DEF SceneInv
<1>1. /\ UsesIn(R, r) \in Seq(Range(UsesIn(R, r)))
      /\ r.t # "shader" => DOMAIN UsesIn(R, r) = DOMAIN r.uses
      /\ \A i \in DOMAIN r.uses :
           UsesIn(R, r)[i] = <<r.uses[i][1], Denotes(R, r.uses[i][2], r.uses[i][3])>>
  BY <1>0, UsesInIs
<1>2. ASSUME NEW i \in DOMAIN r.uses
      PROVE  /\ \E q \in own[c] : KeyIn(R, q) = Denotes(R, r.uses[i][2], r.uses[i][3])
             /\ Denotes(R, r.uses[i][2], r.uses[i][3]) \in live
             /\ Find(r.uses[i][2], r.uses[i][3]) = Denotes(R, r.uses[i][2], r.uses[i][3])
  <2>1. PICK q \in own[c] : Provides(q, r.uses[i])
    OBVIOUS
  <2>2. q \in R /\ KeyIn(R, q) \in live
    BY DEF OwnInv
  <2>3. KeyIn(R, q) = Denotes(R, r.uses[i][2], r.uses[i][3])
    BY <1>0, <2>1, <2>2, ProvidedKey
  <2> QED
    BY <2>2, <2>3, FindInUse
<1>3. DepsOf(r) = [i \in DOMAIN r.uses |->
                     <<r.uses[i][1], Denotes(R, r.uses[i][2], r.uses[i][3])>>]
  BY <1>2 DEF DepsOf
<1>4. ASSUME r.t # "shader" PROVE DepsOf(r) = UsesIn(R, r)
  <2>1. UsesIn(R, r) = [i \in DOMAIN UsesIn(R, r) |-> UsesIn(R, r)[i]]
    BY <1>1
  <2>2. DOMAIN DepsOf(r) = DOMAIN UsesIn(R, r)
    BY <1>1, <1>3, <1>4
  <2>3. \A i \in DOMAIN r.uses : DepsOf(r)[i] = UsesIn(R, r)[i]
    BY <1>1, <1>3
  <2> QED
    BY <1>1, <1>3, <1>4, <2>1, <2>3
<1>5. ASSUME r.t = "shader"
      PROVE  UsesIn(R, r) = DepsOf(r) \o <<<<"vs", <<"vs", r.vs>>>>, <<"ps", <<"ps", r.ps>>>>>>
  BY <1>3, <1>5 DEF UsesIn
<1>6. ASSUME NEW i \in DOMAIN r.uses
      PROVE  /\ \E q \in own[c] : KeyIn(R, q) = UsesIn(R, r)[i][2]
             /\ UsesIn(R, r)[i][2] \in live
             /\ DepsOf(r)[i] = UsesIn(R, r)[i]
  <2>1. UsesIn(R, r)[i] = <<r.uses[i][1], Denotes(R, r.uses[i][2], r.uses[i][3])>>
    BY <1>1
  <2>2. DepsOf(r)[i] = UsesIn(R, r)[i]
    BY <1>3, <2>1
  <2>3. UsesIn(R, r)[i][2] = Denotes(R, r.uses[i][2], r.uses[i][3])
    BY <2>1
  <2> QED
    BY <1>2, <2>2, <2>3
<1> QED
  BY <1>4, <1>5, <1>6

------------------------------------------------------------------------------
(* The shaders at the device                                                 *)

\* The bag of a set and another that has nothing in common with it.
LEMMA BagAdded ==
  ASSUME NEW A, NEW B, A \cap B = {}
  PROVE  SetToBag(A) (+) SetToBag(B) = SetToBag(A \cup B)
BY DEF SetToBag, (+)

\* The bag of a set without a part of it.
LEMMA BagRemoved ==
  ASSUME NEW A, NEW B \in SUBSET A
  PROVE  SetToBag(A) (-) SetToBag(B) = SetToBag(A \ B)
BY DEF SetToBag, (-)

\* A set, as a bag.
LEMMA BagOfSet == \A A : IsABag(SetToBag(A))
BY DEF SetToBag, IsABag

\* The empty set, as a bag.
LEMMA EmptyBagIs == EmptyBag = SetToBag({})
BY DEF EmptyBag, SetToBag

------------------------------------------------------------------------------
(* Registration                                                              *)

\* A client that registers an item holds what the item uses.
LEMMA OwnAdded ==
  ASSUME NEW R, SceneInv(R), OwnInv(R), NEW c \in Clients, NEW r \in scene[c],
         Registers(c, r), live \subseteq live', KeyIn(R, r) \in live'
  PROVE  OwnInv(R)' /\ r \in R /\ Takes(own, own', c, r)
<1>1. r \in R
  BY SceneRegistrations
<1>2. /\ own' = [own EXCEPT ![c] = @ \cup {r}] /\ r \notin own[c] /\ scene' = scene
      /\ \A i \in DOMAIN r.uses : \E q \in own[c] : Provides(q, r.uses[i])
  BY DEF Registers
<1>3. DOMAIN own' = Clients
  BY <1>2 DEF OwnInv
<1>4. \A d \in Clients : own'[d] = IF d = c THEN own[c] \cup {r} ELSE own[d]
  BY <1>2 DEF OwnInv
<1>5. ASSUME NEW d \in Clients
      PROVE  own'[d] \subseteq scene[d] /\ own'[d] \subseteq R
  BY <1>1, <1>4 DEF OwnInv
<1>6. ASSUME NEW d \in Clients, NEW q \in own'[d]
      PROVE  /\ KeyIn(R, q) \in live'
             /\ \A i \in DOMAIN q.uses : \E p \in own'[d] : Provides(p, q.uses[i])
  <2>1. CASE d = c /\ q = r
    BY <1>2, <1>4, <2>1
  <2>2. CASE q \in own[d]
    <3>1. own[d] \subseteq own'[d]
      BY <1>4
    <3> QED
      BY <2>2, <3>1 DEF OwnInv
  <2> QED
    BY <1>4, <2>1, <2>2
<1> QED
  BY <1>1, <1>2, <1>3, <1>5, <1>6 DEF OwnInv, Takes

(* Another registration of an item is one more reference to it.              *)
LEMMA Referenced ==
  ASSUME NEW R, RegistryInv(R), IdleInv, active = None, NEW c \in Clients, NEW r \in scene[c],
         Registers(c, r), KeyIn(R, r) \in live, AddReference(KeyIn(R, r))
  PROVE  RegistryInv(R)' /\ IdleInv'
<1> DEFINE k == KeyIn(R, r)
<1>1. /\ SceneInv(R) /\ OwnInv(R) /\ LiveInv(R) /\ MemInv(R) /\ ObjsInv /\ CountInv(R)
  BY DEF RegistryInv
<1>2. /\ mem' = [mem EXCEPT ![k].refs = @ + 1]
      /\ live' = live /\ objs' = objs /\ device' = device /\ scene' = scene
      /\ vps' = vps /\ decls' = decls /\ shdrs' = shdrs /\ pool' = pool
      /\ active' = active /\ enqueued' = enqueued
      /\ own' = [own EXCEPT ![c] = @ \cup {r}]
  BY DEF AddReference, Registers
<1>3. k \in DOMAIN mem
  BY <1>1 DEF LiveInv
<1> HIDE DEF k
<1>4. /\ DOMAIN mem' = DOMAIN mem
      /\ \A x \in DOMAIN mem : x # k => mem'[x] = mem[x]
      /\ mem'[k] = [mem[k] EXCEPT !.refs = @ + 1]
  BY <1>2, <1>3
<1>5. IsEntry(mem[k])
  BY <1>1, <1>3 DEF MemInv
<1>6. \A x \in DOMAIN mem :
        /\ IsEntry(mem'[x])
        /\ mem'[x].deps = mem[x].deps /\ mem'[x].act = mem[x].act
        /\ mem'[x].bufs = mem[x].bufs /\ mem'[x].keys = mem[x].keys
        /\ mem'[x].refs = mem[x].refs + IF x = k THEN 1 ELSE 0
  <2>1. mem[k].refs + 1 \in Nat /\ "refs" \in DOMAIN mem[k]
    BY <1>5 DEF IsEntry
  <2>2. /\ IsEntry(mem'[k])
        /\ mem'[k].deps = mem[k].deps /\ mem'[k].act = mem[k].act
        /\ mem'[k].bufs = mem[k].bufs /\ mem'[k].keys = mem[k].keys
        /\ mem'[k].refs = mem[k].refs + 1
    BY <1>4, <1>5, <2>1 DEF IsEntry
  <2>3. \A x \in DOMAIN mem : IsEntry(mem[x]) /\ mem[x].refs + 0 = mem[x].refs
    BY <1>1 DEF MemInv, IsEntry
  <2> QED
    BY <1>4, <2>2, <2>3
<1>7. OwnInv(R)' /\ Takes(own, own', c, r)
  BY <1>1, <1>2, OwnAdded DEF k
<1>8. SceneInv(R)'
  BY <1>1, <1>2, SceneStays
<1>9. LiveInv(R)'
  <2>1. \A d \in Clients : own[d] \subseteq own'[d]
    BY <1>1, <1>2 DEF OwnInv
  <2>2. live' \subseteq DOMAIN mem'
    BY <1>1, <1>2, <1>4 DEF LiveInv
  <2>3. ASSUME NEW x \in live
        PROVE  x[1] \in {"vs", "ps"} \/ \E d \in Clients : \E q \in own'[d] : KeyIn(R, q) = x
    BY <1>1, <2>1 DEF LiveInv
  <2> QED
    BY <1>1, <1>2, <2>2, <2>3 DEF LiveInv
<1>10. MemInv(R)'
  BY <1>1, <1>2, <1>4, <1>6 DEF MemInv
<1>11. ObjsInv'
  BY <1>1, <1>2, <1>4 DEF ObjsInv
<1>12. CountInv(R)'
  <2>1. IsFiniteSet(Held(own'))
    BY <1>1, <1>2, <1>7, HeldAdded DEF CountInv
  <2>2. ASSUME NEW x \in live
        PROVE  /\ mem'[x].refs = Cardinality(HeldOf(R, own', x)) + Cardinality(UsesTo(R, live, x))
                                 + IF active = x THEN 1 ELSE 0
               /\ mem'[x].refs > 0
    <3>1. Cardinality(HeldOf(R, own', x)) = Cardinality(HeldOf(R, own, x)) + (IF k = x THEN 1 ELSE 0)
          /\ Cardinality(HeldOf(R, own, x)) \in Nat
      BY <1>1, <1>2, <1>7, HeldAdded DEF CountInv, k
    <3>2. Cardinality(UsesTo(R, live, x)) \in Nat
      BY <1>1, NoUses DEF CountInv
    <3>3. /\ mem[x].refs = Cardinality(HeldOf(R, own, x)) + Cardinality(UsesTo(R, live, x))
                           + IF active = x THEN 1 ELSE 0
          /\ mem[x].refs > 0
      BY <1>1 DEF CountInv
    <3>4. mem'[x].refs = mem[x].refs + IF x = k THEN 1 ELSE 0
      BY <1>1, <1>6 DEF LiveInv
    <3> QED
      BY <3>1, <3>2, <3>3, <3>4
  <2> QED
    BY <1>1, <1>2, <2>1, <2>2 DEF CountInv
<1>13. IdleInv'
  BY <1>2, <1>4, <1>6 DEF IdleInv
<1> QED
  BY <1>7, <1>8, <1>9, <1>10, <1>11, <1>12, <1>13 DEF RegistryInv

(* The first registration of an item inserts it, with the device's shaders that
   it is the first to use.                                                   *)
LEMMA Inserted ==
  ASSUME NEW R, RegistryInv(R), IdleInv, active = None, NEW c \in Clients, NEW r \in scene[c],
         Registers(c, r), NEW k, k = KeyIn(R, r), k \notin live,
         NEW new, new \cap live = {}, \A x \in new : x[1] \in {"vs", "ps"},
         \A x \in new : \E i \in DOMAIN UsesIn(R, r) : UsesIn(R, r)[i][2] = x,
         \A i \in DOMAIN UsesIn(R, r) : UsesIn(R, r)[i][2] \in live \cup new,
         NEW entry, IsEntry(entry), entry.refs = 1, entry.keys = <<>>, entry.bufs = <<>>,
         k[1] # "object" => entry.act = None,
         Insert(k, entry, UsesIn(R, r), new),
         \/ objs' = objs
         \/ objs' = Append(objs, k) /\ k[1] = "object"
  PROVE  RegistryInv(R)' /\ IdleInv'
<1> DEFINE ds == UsesIn(R, r)
<1>1. /\ SceneInv(R) /\ OwnInv(R) /\ LiveInv(R) /\ MemInv(R) /\ ObjsInv /\ CountInv(R)
      /\ Rules(R)
  BY DEF RegistryInv, SceneInv
<1>2. /\ scene' = scene
      /\ vps' = vps /\ decls' = decls /\ shdrs' = shdrs /\ pool' = pool
      /\ active' = active /\ enqueued' = enqueued
      /\ own' = [own EXCEPT ![c] = @ \cup {r}]
  BY DEF Registers
<1>3. live' = live \cup new \cup {k} /\ device' = device (+) SetToBag(new)
  BY DEF Insert
<1>4. OwnInv(R)' /\ Takes(own, own', c, r) /\ r \in R
  BY <1>1, <1>3, OwnAdded
<1>5. Uses(R, k) = ds /\ Registered(R, k) /\ k[1] \notin {"vs", "ps"}
  BY <1>1, <1>4, UsesOf, TableOfKey DEF Registered
<1> HIDE DEF ds
<1>6. k \notin new /\ \A i \in DOMAIN ds : ds[i][2] # k
  BY <1>5 DEF ds
<1>7. Simple(R, new)
  <2>1. ASSUME NEW x \in new PROVE Uses(R, x) = <<>>
    <3>1. ~Registered(R, x)
      BY <1>1, UsesShape
    <3> QED
      BY <3>1, UsesUnregistered
  <2> QED
    BY <2>1 DEF Simple
<1>8. \A x \in live \cup new : Times(ds, DOMAIN ds, x) \in Nat
  BY <1>1, <1>5, UsesOfOne
<1>9. /\ DOMAIN mem' = (DOMAIN mem) \cup new \cup {k}
      /\ mem'[k] = [entry EXCEPT !.deps = ds]
      /\ \A x \in new : mem'[x] = [Blank EXCEPT !.refs = @ + Times(ds, DOMAIN ds, x)]
      /\ \A x \in DOMAIN mem \ (new \cup {k}) :
           mem'[x] = [mem[x] EXCEPT !.refs = @ + Times(ds, DOMAIN ds, x)]
  <2>1. mem' = [x \in (DOMAIN mem) \cup new \cup {k} |->
                  IF x = k THEN [entry EXCEPT !.deps = ds]
                  ELSE [IF x \in new THEN Blank ELSE mem[x]
                          EXCEPT !.refs = @ + Times(ds, DOMAIN ds, x)]]
    BY DEF Insert, ds
  <2> QED
    BY <1>6, <2>1
<1>10. /\ IsEntry(mem'[k]) /\ mem'[k].deps = Uses(R, k) /\ mem'[k].act = entry.act
       /\ mem'[k].refs = 1 /\ mem'[k].bufs = <<>> /\ mem'[k].keys = <<>>
  <2>1. DOMAIN entry = {"refs", "deps", "act", "bufs", "keys"}
    BY DEF IsEntry
  <2> QED
    BY <1>5, <1>9, <2>1 DEF IsEntry
<1>11. ASSUME NEW x \in new
       PROVE  /\ IsEntry(mem'[x]) /\ mem'[x].deps = Uses(R, x) /\ mem'[x].act = None
              /\ mem'[x].refs = Times(ds, DOMAIN ds, x) /\ mem'[x].bufs = <<>>
              /\ mem'[x].keys = <<>>
  <2>1. Times(ds, DOMAIN ds, x) \in Nat /\ Uses(R, x) = <<>>
    BY <1>7, <1>8 DEF Simple
  <2>2. mem'[x] = [refs |-> Times(ds, DOMAIN ds, x), deps |-> <<>>, act |-> None,
                   bufs |-> <<>>, keys |-> <<>>]
    BY <1>9, <2>1 DEF Blank
  <2> QED
    BY <2>1, <2>2, EmptySequence DEF IsEntry
<1>12. ASSUME NEW x \in DOMAIN mem, x \notin new, x # k
       PROVE  /\ IsEntry(mem'[x]) /\ mem'[x].deps = mem[x].deps /\ mem'[x].act = mem[x].act
              /\ mem'[x].refs = mem[x].refs + Times(ds, DOMAIN ds, x)
              /\ mem'[x].bufs = mem[x].bufs /\ mem'[x].keys = mem[x].keys
  <2>1. IsEntry(mem[x])
    BY <1>1 DEF MemInv
  <2>2. Times(ds, DOMAIN ds, x) \in Nat
    BY <1>1, <1>5, UsesOfOne
  <2>3. mem'[x] = [mem[x] EXCEPT !.refs = @ + Times(ds, DOMAIN ds, x)]
    BY <1>9, <1>12
  <2>4. "refs" \in DOMAIN mem[x] /\ mem[x].refs + Times(ds, DOMAIN ds, x) \in Nat
    BY <2>1, <2>2 DEF IsEntry
  <2> QED
    BY <2>1, <2>3, <2>4 DEF IsEntry
<1>13. SceneInv(R)'
  BY <1>1, <1>2, SceneStays
<1>14. LiveInv(R)'
  <2>1. live' \subseteq DOMAIN mem'
    BY <1>1, <1>3, <1>9 DEF LiveInv
  <2>2. \A d \in Clients : own[d] \subseteq own'[d]
    BY <1>1, <1>2 DEF OwnInv
  <2>3. r \in own'[c]
    BY <1>1, <1>2 DEF OwnInv
  <2>4. ASSUME NEW x \in live'
        PROVE  x[1] \in {"vs", "ps"} \/ \E d \in Clients : \E q \in own'[d] : KeyIn(R, q) = x
    <3>1. CASE x \in live
      BY <1>1, <2>2, <3>1 DEF LiveInv
    <3>2. CASE x = k
      BY <2>3, <3>2
    <3> QED
      BY <1>3, <3>1, <3>2
  <2>5. ASSUME NEW x \in live', NEW i \in DOMAIN Uses(R, x) PROVE Uses(R, x)[i][2] \in live'
    <3>1. CASE x \in live
      BY <1>1, <1>3, <3>1 DEF LiveInv
    <3>2. CASE x = k
      BY <1>3, <1>5, <3>2 DEF ds
    <3>3. CASE x \in new
      BY <1>7, <3>3 DEF Simple
    <3> QED
      BY <1>3, <3>1, <3>2, <3>3
  <2>6. None \notin live'
    <3>1. None # k /\ None \notin Keys(UsesIn(R, r))
      BY <1>1, <1>4 DEF Rules
    <3>2. None \notin new
      BY <3>1 DEF Keys, Among
    <3> QED
      BY <1>1, <1>3, <3>1, <3>2 DEF LiveInv
  <2> QED
    BY <2>1, <2>4, <2>5, <2>6 DEF LiveInv
<1>15. MemInv(R)'
  <2>1. ASSUME NEW x \in DOMAIN mem'
        PROVE  /\ IsEntry(mem'[x]) /\ mem'[x].deps = Uses(R, x)
               /\ x[1] \in {"vs", "ps"} \/ Registered(R, x)
               /\ \A i \in DOMAIN Uses(R, x) : Uses(R, x)[i][2] \in DOMAIN mem'
               /\ Range(mem'[x].bufs) \subseteq DOMAIN pool
    <3>1. CASE x = k
      <4>1. \A i \in DOMAIN ds : ds[i][2] \in DOMAIN mem'
        BY <1>1, <1>9 DEF LiveInv, ds
      <4> QED
        BY <1>5, <1>10, <3>1, <4>1, EmptySequence
    <3>2. CASE x \in new
      <4>1. Uses(R, x) = <<>>
        BY <1>7, <3>2 DEF Simple
      <4> QED
        BY <1>11, <3>2, <4>1, EmptySequence
    <3>3. CASE x \in DOMAIN mem /\ x \notin new /\ x # k
      BY <1>1, <1>9, <1>12, <3>3 DEF MemInv
    <3> QED
      BY <1>9, <3>1, <3>2, <3>3
  <2> QED
    BY <1>2, <2>1 DEF MemInv
<1>16. ObjsInv'
  <2>1. CASE objs' = objs
    BY <1>1, <1>9, <2>1 DEF ObjsInv
  <2>2. CASE objs' = Append(objs, k) /\ k[1] = "object"
    <3>1. /\ IsSeq(objs') /\ DOMAIN objs' = 1 .. Len(objs) + 1
          /\ \A i \in DOMAIN objs : objs'[i] = objs[i]
          /\ objs'[Len(objs) + 1] = k /\ DOMAIN objs = 1 .. Len(objs) /\ Len(objs) \in Nat
      BY <1>1, <2>2, InsertedLast, SequenceDomain DEF ObjsInv
    <3>2. \A i \in DOMAIN objs' : i \in DOMAIN objs \/ i = Len(objs) + 1
      BY <3>1
    <3> QED
      BY <1>1, <1>9, <2>2, <3>1, <3>2 DEF ObjsInv
  <2> QED
    BY <2>1, <2>2
<1>17. CountInv(R)'
  <2>1. IsFiniteSet(Held(own'))
    BY <1>1, <1>2, <1>4, HeldAdded DEF CountInv
  <2>2. IsFiniteSet(UsesBy(R, live'))
    BY <1>1, <1>3, <1>7, UsesAdded DEF CountInv
  <2>a. None \notin live'
    BY <1>14 DEF LiveInv
  <2>3. ASSUME NEW x \in live'
        PROVE  /\ mem'[x].refs = Cardinality(HeldOf(R, own', x)) + Cardinality(UsesTo(R, live', x))
                                 + IF active = x THEN 1 ELSE 0
               /\ mem'[x].refs > 0
    <3>1. Cardinality(HeldOf(R, own', x)) = Cardinality(HeldOf(R, own, x)) + (IF k = x THEN 1 ELSE 0)
          /\ Cardinality(HeldOf(R, own, x)) \in Nat
      BY <1>1, <1>2, <1>4, HeldAdded DEF CountInv
    <3>2. /\ Cardinality(UsesTo(R, live', x)) =
               Cardinality(UsesTo(R, live, x)) + Times(ds, DOMAIN ds, x)
          /\ Cardinality(UsesTo(R, live, x)) \in Nat /\ Times(ds, DOMAIN ds, x) \in Nat
      <4>1. /\ Cardinality(UsesTo(R, live', x)) =
                 Cardinality(UsesTo(R, live, x)) + Times(Uses(R, k), DOMAIN Uses(R, k), x)
            /\ Cardinality(UsesTo(R, live, x)) \in Nat
            /\ Times(Uses(R, k), DOMAIN Uses(R, k), x) \in Nat
        <5>1. IsFiniteSet(UsesBy(R, live)) /\ Rules(R)
          BY <1>1 DEF CountInv
        <5>2. ASSUME NEW M, M = live \cup new \cup {k}
              PROVE  /\ Cardinality(UsesTo(R, M, x)) =
                          Cardinality(UsesTo(R, live, x)) + Times(Uses(R, k), DOMAIN Uses(R, k), x)
                     /\ Cardinality(UsesTo(R, live, x)) \in Nat
                     /\ Times(Uses(R, k), DOMAIN Uses(R, k), x) \in Nat
          BY <1>7, <5>1, <5>2, UsesAdded
        <5> QED
          BY <1>3, <5>2
      <4> QED
        BY <1>5, <4>1
    <3>3. x \notin live => Cardinality(UsesTo(R, live, x)) = 0
      BY <1>1, NoUses DEF CountInv, LiveInv
    <3>4. x \notin live => Cardinality(HeldOf(R, own, x)) = 0
      BY <1>1, NoHolders DEF CountInv, OwnInv
    <3>5. active # x
      BY <2>a
    <3>6. CASE x \in live
      <4>1. x # k /\ x \in DOMAIN mem /\ x \notin new
        BY <1>1, <3>6 DEF LiveInv
      <4>2. /\ mem[x].refs = Cardinality(HeldOf(R, own, x)) + Cardinality(UsesTo(R, live, x))
                             + IF active = x THEN 1 ELSE 0
            /\ mem[x].refs > 0
        BY <1>1, <3>6 DEF CountInv
      <4>3. mem'[x].refs = mem[x].refs + Times(ds, DOMAIN ds, x)
        BY <1>12, <4>1
      <4> QED
        BY <3>1, <3>2, <3>5, <4>1, <4>2, <4>3
    <3>7. CASE x = k
      <4>1. Times(ds, DOMAIN ds, x) = 0
        <5>1. {i \in DOMAIN ds : ds[i][2] = x} = {}
          BY <1>6, <3>7
        <5> QED
          BY <5>1, FS_EmptySet DEF Times
      <4>2. mem'[x].refs = 1 /\ x \notin live
        BY <1>10, <3>7
      <4> QED
        BY <3>1, <3>2, <3>3, <3>4, <3>5, <3>7, <4>1, <4>2
    <3>8. CASE x \in new
      <4>1. x # k /\ x \notin live /\ mem'[x].refs = Times(ds, DOMAIN ds, x)
        BY <1>6, <1>11, <3>8
      <4>2. Cardinality(UsesTo(R, live', x)) # 0
        <5>1. \E i \in DOMAIN Uses(R, k) : Uses(R, k)[i][2] = x
          BY <1>5, <3>8 DEF ds
        <5> QED
          BY <1>3, <2>2, <5>1, NoUses
      <4> QED
        BY <3>1, <3>2, <3>3, <3>4, <3>5, <4>1, <4>2
    <3> QED
      BY <1>3, <3>6, <3>7, <3>8
  <2>4. device' = SetToBag(Shaders(live'))
    <3>1. Shaders(live') = Shaders(live) \cup new
      BY <1>3, <1>5 DEF Shaders
    <3>2. Shaders(live) \cap new = {}
      BY DEF Shaders
    <3>3. device = SetToBag(Shaders(live))
      BY <1>1 DEF CountInv
    <3>4. SetToBag(Shaders(live)) (+) SetToBag(new) = SetToBag(Shaders(live) \cup new)
      BY <3>2, BagAdded
    <3> QED
      BY <1>3, <3>1, <3>3, <3>4
  <2> QED
    BY <1>2, <2>1, <2>2, <2>3, <2>4 DEF CountInv
<1>18. IdleInv'
  <2>1. ASSUME NEW x \in DOMAIN mem'
        PROVE  mem'[x].keys = <<>> /\ (x[1] \in {"viewport", "decl", "shader"} => mem'[x].act = None)
    <3>1. CASE x = k
      BY <1>10, <3>1
    <3>2. CASE x \in new
      BY <1>11, <3>2
    <3>3. CASE x \in DOMAIN mem /\ x \notin new /\ x # k
      BY <1>12, <3>3 DEF IdleInv
    <3> QED
      BY <1>9, <3>1, <3>2, <3>3
  <2> QED
    BY <1>2, <2>1 DEF IdleInv
<1> QED
  BY <1>4, <1>13, <1>14, <1>15, <1>16, <1>17, <1>18 DEF RegistryInv

------------------------------------------------------------------------------
(* Release                                                                   *)

(* A client that releases r leaves every other item of the tables held, and the
   item of r too if another item uses it.                                    *)
LEMMA StillHeld ==
  ASSUME NEW R, RegistryInv(R), NEW c \in Clients, NEW r, Releases(c, r),
         NEW x \in live, x[1] \notin {"vs", "ps"},
         x = KeyIn(R, r) => \E y \in live : \E i \in DOMAIN Uses(R, y) : Uses(R, y)[i][2] = x
  PROVE  \E d \in Clients : \E q \in own'[d] : KeyIn(R, q) = x
<1>1. /\ OwnInv(R) /\ LiveInv(R) /\ Rules(R)
  BY DEF RegistryInv, SceneInv
<1>2. /\ own' = [own EXCEPT ![c] = @ \ {r}] /\ r \in own[c]
      /\ \A q \in own[c] : \A i \in DOMAIN q.uses : ~Provides(r, q.uses[i])
  BY DEF Releases
<1>3. \A d \in Clients : own'[d] = IF d = c THEN own[c] \ {r} ELSE own[d]
  BY <1>1, <1>2 DEF OwnInv
<1>4. PICK d \in Clients : \E q \in own[d] : KeyIn(R, q) = x
  BY <1>1 DEF LiveInv
<1>5. CASE x # KeyIn(R, r)
  BY <1>3, <1>4, <1>5
<1>6. CASE x = KeyIn(R, r)
  <2>1. PICK y \in live : \E i \in DOMAIN Uses(R, y) : Uses(R, y)[i][2] = x
    BY <1>6
  <2>2. PICK i \in DOMAIN Uses(R, y) : Uses(R, y)[i][2] = x
    BY <2>1
  <2>3. y[1] \notin {"vs", "ps"}
    <3>1. Registered(R, y)
      BY <2>2, UsesUnregistered
    <3> QED
      BY <1>1, <3>1, UsesShape
  <2>4. PICK e \in Clients : \E q \in own[e] : KeyIn(R, q) = y
    BY <1>1, <2>3 DEF LiveInv
  <2>5. PICK q \in own[e] : KeyIn(R, q) = y
    BY <2>4
  <2>6. q \in R
    BY <1>1 DEF OwnInv
  <2>7. Uses(R, y) = UsesIn(R, q)
    BY <1>1, <2>5, <2>6, UsesOf
  <2>8. i \in DOMAIN q.uses /\ x = Denotes(R, q.uses[i][2], q.uses[i][3])
    <3>1. CASE i \in DOMAIN q.uses
      <4>1. UsesIn(R, q)[i] = <<q.uses[i][1], Denotes(R, q.uses[i][2], q.uses[i][3])>>
        BY <1>1, <2>6, <3>1, UsesInIs
      <4> QED
        BY <2>2, <2>7, <3>1, <4>1
    <3>2. CASE i \notin DOMAIN q.uses
      <4>1. UsesIn(R, q)[i] \in {<<"vs", <<"vs", q.vs>>>>, <<"ps", <<"ps", q.ps>>>>}
        BY <1>1, <2>2, <2>6, <2>7, <3>2, UsesInIs
      <4>2. UsesIn(R, q)[i][2][1] \in {"vs", "ps"}
        BY <4>1
      <4> QED
        BY <2>2, <2>7, <4>2
    <3> QED
      BY <3>1, <3>2
  <2>9. PICK p \in own[e] : Provides(p, q.uses[i])
    BY <1>1, <2>8 DEF OwnInv
  <2>10. p \in R /\ KeyIn(R, p) = x
    <3>1. p \in R
      BY <1>1 DEF OwnInv
    <3> QED
      BY <1>1, <2>6, <2>8, <2>9, <3>1, ProvidedKey
  <2>11. ~(e = c /\ p = r)
    BY <1>2, <2>8, <2>9
  <2> QED
    BY <1>3, <2>10, <2>11
<1> QED
  BY <1>5, <1>6

\* A client that releases an item holds nothing that uses it.
LEMMA OwnRemoved ==
  ASSUME NEW R, OwnInv(R), NEW c \in Clients, NEW r, Releases(c, r),
         \A d \in Clients : \A q \in own'[d] : KeyIn(R, q) \in live'
  PROVE  OwnInv(R)' /\ Leaves(own, own', c, r)
<1>1. /\ own' = [own EXCEPT ![c] = @ \ {r}] /\ r \in own[c] /\ scene' = scene
      /\ \A q \in own[c] : \A i \in DOMAIN q.uses : ~Provides(r, q.uses[i])
  BY DEF Releases
<1>2. DOMAIN own' = Clients /\ Leaves(own, own', c, r)
  BY <1>1 DEF OwnInv, Leaves
<1>3. \A d \in Clients : own'[d] = IF d = c THEN own[c] \ {r} ELSE own[d]
  BY <1>1 DEF OwnInv
<1>4. ASSUME NEW d \in Clients
      PROVE  own'[d] \subseteq scene[d] /\ own'[d] \subseteq R
  BY <1>3 DEF OwnInv
<1>5. ASSUME NEW d \in Clients, NEW q \in own'[d], NEW i \in DOMAIN q.uses
      PROVE  \E p \in own'[d] : Provides(p, q.uses[i])
  <2>1. q \in own[d]
    BY <1>3
  <2>2. PICK p \in own[d] : Provides(p, q.uses[i])
    BY <2>1 DEF OwnInv
  <2>3. ~(d = c /\ p = r)
    BY <1>1, <2>1, <2>2
  <2> QED
    BY <1>3, <2>2, <2>3
<1> QED
  BY <1>1, <1>2, <1>4, <1>5 DEF OwnInv

(* What the objects point at points at nothing else.                         *)
LEMMA PointedClosed ==
  ASSUME NEW R, Rules(R), MemInv(R), ObjsInv
  PROVE  /\ Range(objs) \subseteq Pointed /\ Pointed \subseteq DOMAIN mem
         /\ \A x \in Pointed : \A i \in DOMAIN Uses(R, x) : Uses(R, x)[i][2] \in Pointed
<1> DEFINE O == Range(objs)
           users(A) == UNION {Keys(mem[x].deps) : x \in A}
<1>1. O \subseteq DOMAIN mem /\ \A x \in O : x[1] = "object"
  BY DEF ObjsInv, Range
<1>2. \A x \in DOMAIN mem : mem[x].deps = Uses(R, x)
  BY DEF MemInv
<1>3. \A A : A \subseteq DOMAIN mem =>
        \A z : z \in users(A) <=> \E x \in A : \E i \in DOMAIN Uses(R, x) : z = Uses(R, x)[i][2]
  BY <1>2 DEF Keys, Among
<1>4. \A A : A \subseteq DOMAIN mem => users(A) \subseteq DOMAIN mem
  BY <1>3 DEF MemInv
<1>5. Pointed = O \cup users(O) \cup users(users(O))
  BY DEF Pointed
<1> HIDE DEF O, users
<1>6. users(O) \subseteq DOMAIN mem /\ users(users(O)) \subseteq DOMAIN mem
  BY <1>1, <1>4
<1>7. \A z \in users(O) : z[1] \in Below("object")
  BY <1>1, <1>3, UsesShape
<1>8. \A z \in users(users(O)) : z[1] \in {"fparam", "tparam"}
  <2>1. ASSUME NEW z \in users(users(O)) PROVE z[1] \in {"fparam", "tparam"}
    <3>1. PICK x \in users(O) : \E i \in DOMAIN Uses(R, x) : z = Uses(R, x)[i][2]
      BY <1>3, <1>6
    <3>2. z[1] \in Below(x[1]) /\ x[1] \in Below("object")
      BY <1>7, <3>1, UsesShape
    <3> QED
      BY <3>2 DEF Below
  <2> QED
    BY <2>1
<1>9. ASSUME NEW x, x[1] \in {"fparam", "tparam"} PROVE DOMAIN Uses(R, x) = {}
  <2>1. Below(x[1]) = {}
    BY <1>9 DEF Below
  <2> QED
    BY <2>1, UsesShape
<1>10. ASSUME NEW x \in Pointed, NEW i \in DOMAIN Uses(R, x)
       PROVE  Uses(R, x)[i][2] \in Pointed
  <2>1. CASE x \in O
    BY <1>1, <1>3, <1>5, <2>1
  <2>2. CASE x \in users(O)
    BY <1>3, <1>5, <1>6, <2>2
  <2>3. CASE x \in users(users(O))
    BY <1>8, <1>9, <2>3
  <2> QED
    BY <1>5, <2>1, <2>2, <2>3
<1> QED
  BY <1>1, <1>5, <1>6, <1>10 DEF O

(* A release that is not the last one takes one reference.                   *)
LEMMA Dereferenced ==
  ASSUME NEW R, RegistryInv(R), IdleInv, active = None, NEW c \in Clients, NEW r,
         Releases(c, r), NEW k, k = KeyIn(R, r), NEW entry, NEW drops,
         ReleaseEntry(k, entry, drops), mem[k].refs # 1
  PROVE  RegistryInv(R)' /\ IdleInv' /\ faults' = faults
<1>1. /\ SceneInv(R) /\ OwnInv(R) /\ LiveInv(R) /\ MemInv(R) /\ ObjsInv /\ CountInv(R)
      /\ Rules(R)
  BY DEF RegistryInv, SceneInv
<1>2. /\ mem' = [mem EXCEPT ![k].refs = @ - 1]
      /\ live' = live /\ device' = device /\ faults' = faults
      /\ scene' = scene /\ objs' = objs
      /\ vps' = vps /\ decls' = decls /\ shdrs' = shdrs /\ pool' = pool
      /\ active' = active /\ enqueued' = enqueued
      /\ own' = [own EXCEPT ![c] = @ \ {r}] /\ r \in own[c]
  BY DEF ReleaseEntry, Releases, activation
<1>3. k \in live /\ k \in DOMAIN mem /\ r \in R
  BY <1>1, <1>2 DEF OwnInv, LiveInv
<1>4. /\ DOMAIN mem' = DOMAIN mem
      /\ \A x \in DOMAIN mem : x # k => mem'[x] = mem[x]
      /\ mem'[k] = [mem[k] EXCEPT !.refs = @ - 1]
  BY <1>2, <1>3
<1>5. IsEntry(mem[k]) /\ mem[k].refs > 1
  <2>1. IsEntry(mem[k]) /\ mem[k].refs > 0
    BY <1>1, <1>3 DEF MemInv, CountInv
  <2> QED
    BY <2>1 DEF IsEntry
<1>6. \A x \in DOMAIN mem :
        /\ IsEntry(mem'[x])
        /\ mem'[x].deps = mem[x].deps /\ mem'[x].act = mem[x].act
        /\ mem'[x].bufs = mem[x].bufs /\ mem'[x].keys = mem[x].keys
        /\ mem'[x].refs = mem[x].refs - IF x = k THEN 1 ELSE 0
  <2>1. mem[k].refs - 1 \in Nat /\ "refs" \in DOMAIN mem[k]
    BY <1>5 DEF IsEntry
  <2>2. /\ IsEntry(mem'[k])
        /\ mem'[k].deps = mem[k].deps /\ mem'[k].act = mem[k].act
        /\ mem'[k].bufs = mem[k].bufs /\ mem'[k].keys = mem[k].keys
        /\ mem'[k].refs = mem[k].refs - 1
    BY <1>4, <1>5, <2>1 DEF IsEntry
  <2>3. \A x \in DOMAIN mem : IsEntry(mem[x]) /\ mem[x].refs - 0 = mem[x].refs
    BY <1>1 DEF MemInv, IsEntry
  <2> QED
    BY <1>4, <2>2, <2>3
<1>7. OwnInv(R)' /\ Leaves(own, own', c, r)
  <2>1. \A d \in Clients : own'[d] \subseteq own[d]
    BY <1>1, <1>2 DEF OwnInv
  <2> QED
    BY <1>1, <1>2, <2>1, OwnRemoved DEF OwnInv
<1>8. SceneInv(R)'
  BY <1>1, <1>2, SceneStays
<1>9. ASSUME NEW x \in live
      PROVE  /\ Cardinality(HeldOf(R, own', x)) =
                  Cardinality(HeldOf(R, own, x)) - (IF k = x THEN 1 ELSE 0)
             /\ Cardinality(HeldOf(R, own', x)) \in Nat
             /\ Cardinality(HeldOf(R, own, x)) \in Nat
             /\ Cardinality(UsesTo(R, live, x)) \in Nat
             /\ mem[x].refs = Cardinality(HeldOf(R, own, x)) + Cardinality(UsesTo(R, live, x))
                              + IF active = x THEN 1 ELSE 0
             /\ active # x /\ mem[x].refs > 0
             /\ mem'[x].refs = mem[x].refs - IF x = k THEN 1 ELSE 0
  <2>1. IsFiniteSet(Held(own)) /\ IsFiniteSet(UsesBy(R, live)) /\ active # x
    BY <1>1 DEF CountInv, LiveInv
  <2>2. /\ Cardinality(HeldOf(R, own', x)) =
             Cardinality(HeldOf(R, own, x)) - (IF k = x THEN 1 ELSE 0)
        /\ Cardinality(HeldOf(R, own', x)) \in Nat
    BY <1>7, <2>1, HeldRemoved
  <2>3. Cardinality(HeldOf(R, own, x)) \in Nat /\ Cardinality(UsesTo(R, live, x)) \in Nat
    BY <2>1, NoUses, NoHolders
  <2>4. mem'[x].refs = mem[x].refs - IF x = k THEN 1 ELSE 0
    BY <1>1, <1>6 DEF LiveInv
  <2> QED
    BY <1>1, <2>1, <2>2, <2>3, <2>4 DEF CountInv
<1>10. LiveInv(R)'
  <2>1. live' \subseteq DOMAIN mem' /\ None \notin live'
    BY <1>1, <1>2, <1>4 DEF LiveInv
  <2>2. ASSUME NEW x \in live, x[1] \notin {"vs", "ps"}
        PROVE  \E d \in Clients : \E q \in own'[d] : KeyIn(R, q) = x
    <3>1. CASE x = k /\ Cardinality(HeldOf(R, own', k)) = 0
      <4>1. Cardinality(UsesTo(R, live, k)) # 0
        <5> DEFINE held == Cardinality(HeldOf(R, own, k))
                   left == Cardinality(HeldOf(R, own', k))
                   uses == Cardinality(UsesTo(R, live, k))
        <5>1. /\ left = held - 1 /\ held \in Nat /\ uses \in Nat
              /\ mem[k].refs = held + uses + IF active = k THEN 1 ELSE 0
              /\ active # k
          BY <1>3, <1>9
        <5>2. mem[k].refs > 1 /\ left = 0
          BY <1>5, <3>1
        <5> HIDE DEF held, left, uses
        <5>3. uses # 0
          BY <5>1, <5>2
        <5> QED
          BY <5>3 DEF uses
      <4>2. \E y \in live : \E i \in DOMAIN Uses(R, y) : Uses(R, y)[i][2] = k
        BY <1>1, <4>1, NoUses DEF CountInv
      <4> QED
        BY <2>2, <3>1, <4>2, StillHeld
    <3>2. CASE x = k /\ Cardinality(HeldOf(R, own', k)) # 0
      <4>1. IsFiniteSet(Held(own'))
        BY <1>1, <1>7, HeldRemoved DEF CountInv
      <4>2. ASSUME NEW o, IsFiniteSet(Held(o)), Cardinality(HeldOf(R, o, k)) # 0
            PROVE  \E d \in Clients : \E q \in o[d] : KeyIn(R, q) = k
        BY <4>2, NoHolders
      <4>3. \E d \in Clients : \E q \in own'[d] : KeyIn(R, q) = k
        BY <3>2, <4>1, <4>2
      <4> QED
        BY <3>2, <4>3
    <3>3. CASE x # k
      BY <2>2, <3>3, StillHeld
    <3> QED
      BY <3>1, <3>2, <3>3
  <2> QED
    BY <1>1, <1>2, <2>1, <2>2 DEF LiveInv
<1>11. MemInv(R)'
  BY <1>1, <1>2, <1>4, <1>6 DEF MemInv
<1>12. ObjsInv'
  BY <1>1, <1>2, <1>4 DEF ObjsInv
<1>13. CountInv(R)'
  <2>1. IsFiniteSet(Held(own'))
    BY <1>1, <1>7, HeldRemoved DEF CountInv
  <2>2. ASSUME NEW x \in live
        PROVE  /\ mem'[x].refs = Cardinality(HeldOf(R, own', x)) + Cardinality(UsesTo(R, live, x))
                                 + IF active = x THEN 1 ELSE 0
               /\ mem'[x].refs > 0
    BY <1>5, <1>9
  <2> QED
    BY <1>1, <1>2, <2>1, <2>2 DEF CountInv
<1>14. IdleInv'
  BY <1>2, <1>4, <1>6 DEF IdleInv
<1> QED
  BY <1>2, <1>7, <1>8, <1>10, <1>11, <1>12, <1>13, <1>14 DEF RegistryInv

(* The last release of an item removes it, and what of the device only it used;
   nothing else becomes unused.                                              *)
LEMMA Removed ==
  ASSUME NEW R, RegistryInv(R), IdleInv, active = None, NEW c \in Clients, NEW r,
         Releases(c, r), NEW k, k = KeyIn(R, r),
         NEW entry, IsEntry(entry), entry.deps = mem[k].deps, entry.keys = <<>>,
         entry.act \in {mem[k].act, None}, entry.bufs \in {mem[k].bufs, <<>>},
         ReleaseEntry(k, entry, DOMAIN mem[k].deps), mem[k].refs = 1
  PROVE  RegistryInv(R)' /\ IdleInv' /\ faults' = faults
<1> DEFINE ds == mem[k].deps
           T(x) == Times(ds, DOMAIN ds, x)
           dropped == Among(ds, DOMAIN ds)
           left(x) == mem[x].refs - T(x)
           freed == {x \in Shaders(dropped) : left(x) = 0}
           held(x) == Cardinality(HeldOf(R, own, x))
           uses(x) == Cardinality(UsesTo(R, live, x))
<1>1. /\ SceneInv(R) /\ OwnInv(R) /\ LiveInv(R) /\ MemInv(R) /\ ObjsInv /\ CountInv(R)
      /\ Rules(R)
  BY DEF RegistryInv, SceneInv
<1>2. /\ scene' = scene /\ objs' = objs
      /\ vps' = vps /\ decls' = decls /\ shdrs' = shdrs /\ pool' = pool
      /\ active' = active /\ enqueued' = enqueued
      /\ own' = [own EXCEPT ![c] = @ \ {r}] /\ r \in own[c]
  BY DEF Releases, activation
<1>3. k \in live /\ k \in DOMAIN mem /\ r \in R /\ k[1] \notin {"vs", "ps"}
      /\ ds = Uses(R, k)
  <2>1. k \in live /\ r \in R
    BY <1>1, <1>2 DEF OwnInv
  <2> QED
    BY <1>1, <2>1, TableOfKey DEF LiveInv, MemInv
<1>4. /\ live' = live \ (freed \cup {k})
      /\ mem' = [x \in (live \ (freed \cup {k})) \cup Pointed |->
                   IF x = k THEN [entry EXCEPT !.refs = 0]
                   ELSE [mem[x] EXCEPT !.refs = left(x)]]
      /\ device' = device (-) SetToBag(freed)
      /\ faults' = faults \cup
           Fault(\E x \in dropped \ Shaders(dropped) : left(x) <= 0, "ReleasedBefore")
  BY Zenon DEF ReleaseEntry
<1>5. /\ Range(objs) \subseteq Pointed /\ Pointed \subseteq DOMAIN mem
      /\ \A x \in Pointed : \A i \in DOMAIN Uses(R, x) : Uses(R, x)[i][2] \in Pointed
  BY <1>1, PointedClosed
<1>6. dropped \subseteq live /\ \A x : x \in dropped <=> \E i \in DOMAIN ds : ds[i][2] = x
  BY <1>1, <1>3 DEF LiveInv, Among
<1>7. \A x : T(x) \in Nat
  BY <1>1, <1>3, UsesOfOne
<1>8. \A x : x \notin dropped => T(x) = 0
  <2>1. ASSUME NEW x, x \notin dropped PROVE T(x) = 0
    <3>1. {i \in DOMAIN ds : ds[i][2] = x} = {}
      BY <1>6, <2>1
    <3> QED
      BY <3>1, FS_EmptySet DEF Times
  <2> QED
    BY <2>1
<1>9. /\ freed \subseteq dropped /\ \A x \in freed : x[1] \in {"vs", "ps"} /\ left(x) = 0
      /\ \A x \in dropped : x[1] \in {"vs", "ps"} /\ left(x) = 0 => x \in freed
  BY DEF Shaders
<1> HIDE DEF ds, T, dropped, left, freed
<1>10. Simple(R, freed)
  <2>1. ASSUME NEW x \in freed PROVE Uses(R, x) = <<>>
    <3>1. ~Registered(R, x)
      BY <1>1, <1>9, UsesShape
    <3> QED
      BY <3>1, UsesUnregistered
  <2> QED
    BY <2>1 DEF Simple
<1>11. IsFiniteSet(Held(own)) /\ IsFiniteSet(UsesBy(R, live))
  BY <1>1 DEF CountInv
<1>12. IsFiniteSet(UsesBy(R, live'))
  BY <1>1, <1>3, <1>4, <1>10, <1>11, UsesRemoved
<1>13. ASSUME NEW x
       PROVE  /\ uses(x) = Cardinality(UsesTo(R, live', x)) + T(x)
              /\ Cardinality(UsesTo(R, live', x)) \in Nat
  <2>1. ASSUME NEW M, M = live \ (freed \cup {k})
        PROVE  /\ Cardinality(UsesTo(R, live, x)) =
                    Cardinality(UsesTo(R, M, x)) + Times(Uses(R, k), DOMAIN Uses(R, k), x)
               /\ Cardinality(UsesTo(R, M, x)) \in Nat
    BY <1>1, <1>3, <1>10, <1>11, <2>1, UsesRemoved
  <2> QED
    BY <1>3, <1>4, <2>1 DEF T
<1>14. ASSUME NEW x PROVE held(x) \in Nat /\ uses(x) \in Nat
  BY <1>11, NoHolders, NoUses
<1>15. \A x \in live : mem[x].refs = held(x) + uses(x) /\ mem[x].refs > 0
  <2>1. ASSUME NEW x \in live PROVE mem[x].refs = held(x) + uses(x) /\ mem[x].refs > 0
    <3>1. active # x
      BY <1>1 DEF LiveInv
    <3>2. /\ mem[x].refs = held(x) + uses(x) + IF active = x THEN 1 ELSE 0
          /\ mem[x].refs > 0
      BY <1>1 DEF CountInv
    <3> HIDE DEF held, uses
    <3> QED
      BY <1>14, <3>1, <3>2
  <2> QED
    BY <2>1
<1>16. \A x : (\E d \in Clients : \E q \in own[d] : KeyIn(R, q) = x) => held(x) > 0
  <2>1. ASSUME NEW x, \E d \in Clients : \E q \in own[d] : KeyIn(R, q) = x PROVE held(x) > 0
    <3>1. held(x) # 0
      BY <1>11, <2>1, NoHolders
    <3> QED
      BY <1>14, <3>1
  <2> QED
    BY <2>1
<1>17. held(k) = 1 /\ uses(k) = 0
  <2>1. held(k) > 0
    BY <1>2, <1>16
  <2>2. mem[k].refs = held(k) + uses(k)
    BY <1>3, <1>15
  <2> HIDE DEF held, uses
  <2> QED
    BY <1>14, <2>1, <2>2
<1> HIDE DEF held, uses
<1>18. \A x \in live : left(x) = held(x) + Cardinality(UsesTo(R, live', x))
  <2>1. ASSUME NEW x \in live PROVE left(x) = held(x) + Cardinality(UsesTo(R, live', x))
    <3>1. mem[x].refs = held(x) + uses(x) /\ uses(x) = Cardinality(UsesTo(R, live', x)) + T(x)
          /\ Cardinality(UsesTo(R, live', x)) \in Nat /\ held(x) \in Nat /\ T(x) \in Nat
      BY <1>7, <1>13, <1>14, <1>15
    <3> QED
      BY <3>1 DEF left
  <2> QED
    BY <2>1
<1>19. \A x \in live : left(x) \in Nat
  BY <1>13, <1>14, <1>18
<1>20. faults' = faults
  <2>1. ASSUME NEW x \in dropped, x \notin Shaders(dropped), left(x) <= 0 PROVE FALSE
    <3>1. x \in live /\ x[1] \notin {"vs", "ps"}
      BY <1>6, <2>1 DEF Shaders
    <3>2. held(x) > 0
      BY <1>1, <1>16, <3>1 DEF LiveInv
    <3> QED
      BY <1>13, <1>14, <1>18, <2>1, <3>1, <3>2
  <2> QED
    BY <1>4, <2>1 DEF Fault
<1>21. Leaves(own, own', c, r)
  BY <1>1, <1>2 DEF OwnInv, Leaves
<1>22. ASSUME NEW x
       PROVE  /\ Cardinality(HeldOf(R, own', x)) = held(x) - (IF k = x THEN 1 ELSE 0)
              /\ IsFiniteSet(Held(own'))
  BY <1>11, <1>21, HeldRemoved DEF held
<1>23. ASSUME NEW d \in Clients, NEW q \in own'[d] PROVE KeyIn(R, q) \in live'
  <2>1. own'[d] \subseteq own[d]
    BY <1>1, <1>2 DEF OwnInv
  <2>2. KeyIn(R, q) \in live /\ q \in R
    BY <1>1, <2>1 DEF OwnInv
  <2>3. KeyIn(R, q)[1] \notin {"vs", "ps"}
    BY <1>1, <2>2, TableOfKey
  <2>4. KeyIn(R, q) # k
    <3>1. Cardinality(HeldOf(R, own', k)) = 0 /\ IsFiniteSet(Held(own'))
      BY <1>17, <1>22
    <3>2. ASSUME NEW o, IsFiniteSet(Held(o)), Cardinality(HeldOf(R, o, k)) = 0
          PROVE  ~ \E e \in Clients : \E p \in o[e] : KeyIn(R, p) = k
      BY <3>2, NoHolders
    <3> QED
      BY <3>1, <3>2
  <2> QED
    BY <1>4, <1>9, <2>2, <2>3, <2>4
<1>24. OwnInv(R)'
  BY <1>1, <1>23, OwnRemoved
<1>25. SceneInv(R)'
  BY <1>1, <1>2, SceneStays
<1>26. /\ DOMAIN mem' = live' \cup Pointed /\ live' \subseteq live /\ k \notin live'
       /\ k \in DOMAIN mem' => mem'[k] = [entry EXCEPT !.refs = 0]
       /\ \A x \in DOMAIN mem' : x # k => mem'[x] = [mem[x] EXCEPT !.refs = left(x)]
       /\ DOMAIN mem' \subseteq DOMAIN mem
  BY <1>1, <1>4, <1>5 DEF LiveInv
<1>27. ASSUME NEW x \in DOMAIN mem', x # k
       PROVE  /\ IsEntry(mem'[x]) /\ mem'[x].deps = mem[x].deps /\ mem'[x].act = mem[x].act
              /\ mem'[x].refs = left(x) /\ mem'[x].bufs = mem[x].bufs
              /\ mem'[x].keys = mem[x].keys
  <2>1. IsEntry(mem[x])
    BY <1>1, <1>26 DEF MemInv
  <2>2. left(x) \in Nat
    <3>1. CASE x \in live
      BY <1>19, <3>1
    <3>2. CASE x \notin live
      <4>1. T(x) = 0 /\ mem[x].refs \in Nat
        BY <1>6, <1>8, <2>1, <3>2 DEF IsEntry
      <4> QED
        BY <4>1 DEF left
    <3> QED
      BY <3>1, <3>2
  <2>3. mem'[x] = [mem[x] EXCEPT !.refs = left(x)]
    BY <1>26, <1>27
  <2>4. "refs" \in DOMAIN mem[x]
    BY <2>1 DEF IsEntry
  <2> QED
    BY <2>1, <2>2, <2>3, <2>4 DEF IsEntry
<1>28. ASSUME k \in DOMAIN mem'
       PROVE  /\ IsEntry(mem'[k]) /\ mem'[k].deps = mem[k].deps
              /\ mem'[k].act \in {mem[k].act, None}
              /\ mem'[k].bufs \in {mem[k].bufs, <<>>} /\ mem'[k].keys = <<>>
  <2>1. mem'[k] = [entry EXCEPT !.refs = 0]
    BY <1>26, <1>28
  <2>2. "refs" \in DOMAIN entry
    BY DEF IsEntry
  <2> QED
    BY <2>1, <2>2 DEF IsEntry
<1>29. LiveInv(R)'
  <2>1. live' \subseteq DOMAIN mem' /\ None \notin live'
    BY <1>1, <1>26 DEF LiveInv
  <2>2. ASSUME NEW x \in live', x[1] \notin {"vs", "ps"}
        PROVE  \E d \in Clients : \E q \in own'[d] : KeyIn(R, q) = x
    <3>1. x \in live /\ x # k
      BY <1>26
    <3> QED
      BY <2>2, <3>1, StillHeld
  <2>3. ASSUME NEW x \in live', NEW i \in DOMAIN Uses(R, x) PROVE Uses(R, x)[i][2] \in live'
    <3> DEFINE z == Uses(R, x)[i][2]
    <3>1. x \in live /\ z \in live
      BY <1>1, <1>26 DEF LiveInv
    <3>2. z # k
      <4>1. ~ \E y \in live : \E j \in DOMAIN Uses(R, y) : Uses(R, y)[j][2] = k
        BY <1>11, <1>17, NoUses DEF uses
      <4> QED
        BY <3>1, <4>1
    <3>3. z \notin freed
      <4>1. SUFFICES ASSUME z \in freed PROVE FALSE
        OBVIOUS
      <4>2. left(z) = 0
        BY <1>9, <4>1
      <4>3. \E y \in live' : \E j \in DOMAIN Uses(R, y) : Uses(R, y)[j][2] = z
        OBVIOUS
      <4> HIDE DEF z
      <4>4. Cardinality(UsesTo(R, live', z)) # 0
        <5>1. ASSUME NEW L, IsFiniteSet(UsesBy(R, L)),
                     \E y \in L : \E j \in DOMAIN Uses(R, y) : Uses(R, y)[j][2] = z
              PROVE  Cardinality(UsesTo(R, L, z)) # 0
          BY <5>1, NoUses
        <5> QED
          BY <1>12, <4>3, <5>1
      <4>5. /\ left(z) = held(z) + Cardinality(UsesTo(R, live', z))
            /\ held(z) \in Nat /\ Cardinality(UsesTo(R, live', z)) \in Nat
        BY <1>13, <1>14, <1>18, <3>1
      <4> QED
        BY <4>2, <4>4, <4>5
    <3> QED
      BY <1>4, <3>1, <3>2, <3>3
  <2> QED
    BY <2>1, <2>2, <2>3 DEF LiveInv
<1>30. MemInv(R)'
  <2>1. ASSUME NEW x \in DOMAIN mem'
        PROVE  /\ IsEntry(mem'[x]) /\ mem'[x].deps = Uses(R, x)
               /\ x[1] \in {"vs", "ps"} \/ Registered(R, x)
               /\ Range(mem'[x].bufs) \subseteq DOMAIN pool
    <3>1. /\ IsEntry(mem[x]) /\ mem[x].deps = Uses(R, x)
          /\ x[1] \in {"vs", "ps"} \/ Registered(R, x)
          /\ Range(mem[x].bufs) \subseteq DOMAIN pool
      BY <1>1, <1>26 DEF MemInv
    <3>2. CASE x = k
      BY <1>28, <3>1, <3>2, EmptySequence
    <3>3. CASE x # k
      BY <1>27, <3>1, <3>3
    <3> QED
      BY <3>2, <3>3
  <2>2. ASSUME NEW x \in DOMAIN mem', NEW i \in DOMAIN Uses(R, x)
        PROVE  Uses(R, x)[i][2] \in DOMAIN mem'
    <3>1. CASE x \in live'
      BY <1>26, <1>29, <3>1 DEF LiveInv
    <3>2. CASE x \in Pointed
      BY <1>5, <1>26, <3>2
    <3> QED
      BY <1>26, <3>1, <3>2
  <2> QED
    BY <1>2, <2>1, <2>2 DEF MemInv
<1>31. ObjsInv'
  <2>1. \A i \in DOMAIN objs : objs[i] \in Pointed
    BY <1>5 DEF Range
  <2> QED
    BY <1>1, <1>2, <1>26, <2>1 DEF ObjsInv
<1>32. CountInv(R)'
  <2>1. IsFiniteSet(Held(own'))
    BY <1>22
  <2>2. ASSUME NEW x \in live'
        PROVE  /\ mem'[x].refs = Cardinality(HeldOf(R, own', x)) + Cardinality(UsesTo(R, live', x))
                                 + IF active = x THEN 1 ELSE 0
               /\ mem'[x].refs > 0
    <3>1. x \in live /\ x # k /\ x \in DOMAIN mem' /\ x \notin freed
      BY <1>4, <1>26
    <3>2. active # x
      BY <1>1, <3>1 DEF LiveInv
    <3>3. mem'[x].refs = left(x)
      BY <1>27, <3>1
    <3>4. /\ left(x) = held(x) + Cardinality(UsesTo(R, live', x)) /\ held(x) \in Nat
          /\ Cardinality(UsesTo(R, live', x)) \in Nat
          /\ Cardinality(HeldOf(R, own', x)) = held(x) - (IF k = x THEN 1 ELSE 0)
      BY <1>13, <1>14, <1>18, <1>22, <3>1
    <3>5. left(x) > 0
      <4>1. CASE x \in dropped /\ x[1] \in {"vs", "ps"}
        BY <1>9, <3>1, <3>4, <4>1
      <4>2. CASE x[1] \notin {"vs", "ps"}
        <5>1. held(x) > 0
          BY <1>1, <1>16, <3>1, <4>2 DEF LiveInv
        <5> QED
          BY <3>4, <5>1
      <4>3. CASE x \notin dropped
        <5>1. T(x) = 0 /\ mem[x].refs > 0 /\ mem[x].refs \in Nat
          <6>1. mem[x].refs \in Nat
            BY <1>1, <3>1 DEF LiveInv, MemInv, IsEntry
          <6> QED
            BY <1>8, <1>15, <3>1, <4>3, <6>1
        <5> QED
          BY <5>1 DEF left
      <4> QED
        BY <4>1, <4>2, <4>3
    <3> QED
      BY <3>1, <3>2, <3>3, <3>4, <3>5
  <2>3. device' = SetToBag(Shaders(live'))
    <3>1. Shaders(live') = Shaders(live) \ freed
      BY <1>3, <1>4 DEF Shaders
    <3>2. freed \in SUBSET Shaders(live)
      BY <1>6, <1>9 DEF Shaders
    <3>3. device = SetToBag(Shaders(live))
      BY <1>1 DEF CountInv
    <3>4. SetToBag(Shaders(live)) (-) SetToBag(freed) = SetToBag(Shaders(live) \ freed)
      BY <3>2, BagRemoved
    <3> QED
      BY <1>4, <3>1, <3>3, <3>4
  <2> QED
    BY <1>2, <1>12, <2>1, <2>2, <2>3 DEF CountInv
<1>33. IdleInv'
  <2>1. ASSUME NEW x \in DOMAIN mem'
        PROVE  mem'[x].keys = <<>> /\ (x[1] \in {"viewport", "decl", "shader"} => mem'[x].act = None)
    <3>1. mem[x].keys = <<>> /\ (x[1] \in {"viewport", "decl", "shader"} => mem[x].act = None)
      BY <1>26 DEF IdleInv
    <3>2. CASE x = k
      BY <1>28, <3>1, <3>2
    <3>3. CASE x # k
      BY <1>27, <3>1, <3>3
    <3> QED
      BY <3>2, <3>3
  <2> QED
    BY <1>2, <2>1 DEF IdleInv
<1> QED
  BY <1>20, <1>24, <1>25, <1>29, <1>30, <1>31, <1>32, <1>33 DEF RegistryInv

------------------------------------------------------------------------------
(* The operations of the registry                                            *)

\* A new entry, which one client refers to.
LEMMA ItemIsEntry ==
  IsEntry(Item) /\ Item.refs = 1 /\ Item.keys = <<>> /\ Item.bufs = <<>> /\ Item.act = None
<1>1. Item = [refs |-> 1, deps |-> <<>>, act |-> None, bufs |-> <<>>, keys |-> <<>>]
  BY DEF Item, Blank
<1> QED
  BY <1>1, EmptySequence DEF IsEntry

(* An item that is not a shader uses only what is in the tables.             *)
LEMMA EntryRegistered ==
  ASSUME NEW R, RegistryInv(R), IdleInv, active = None, NEW c \in Clients, NEW r \in scene[c],
         r.t # "shader", r.t # "object", Registers(c, r), RegisterEntry(KeyIn(R, r), DepsOf(r))
  PROVE  RegistryInv(R)' /\ IdleInv' /\ DepsOf(r) = UsesIn(R, r) /\ r \in R
<1>1. SceneInv(R) /\ OwnInv(R) /\ LiveInv(R) /\ Rules(R)
  BY DEF RegistryInv, SceneInv
<1>2. r \in R
  BY <1>1, SceneRegistrations
<1>3. \A i \in DOMAIN r.uses : \E q \in own[c] : Provides(q, r.uses[i])
  BY DEF Registers
<1>4. DepsOf(r) = UsesIn(R, r) /\ \A i \in DOMAIN r.uses : UsesIn(R, r)[i][2] \in live
  BY <1>1, <1>2, <1>3, UsesHeld
<1>5. DOMAIN UsesIn(R, r) = DOMAIN r.uses
  BY <1>1, <1>2, UsesInIs
<1>6. CASE KeyIn(R, r) \in live
  <2>1. AddReference(KeyIn(R, r))
    BY <1>6 DEF RegisterEntry
  <2> QED
    BY <1>2, <1>4, <1>6, <2>1, Referenced
<1>7. CASE KeyIn(R, r) \notin live
  <2>1. Insert(KeyIn(R, r), Item, UsesIn(R, r), {}) /\ objs' = objs
    BY <1>4, <1>7 DEF RegisterEntry
  <2>2. \A i \in DOMAIN UsesIn(R, r) : UsesIn(R, r)[i][2] \in live \cup {}
    BY <1>4, <1>5
  <2>3. {} \cap live = {}
    OBVIOUS
  <2>4. RegistryInv(R)' /\ IdleInv'
    BY <1>7, <2>1, <2>2, <2>3, ItemIsEntry, Inserted
  <2> QED
    BY <1>2, <1>4, <2>4
<1> QED
  BY <1>6, <1>7

\* No name is that of a render target and of a back buffer.
LEMMA NoNameClash ==
  ASSUME NEW R, SceneInv(R), OwnInv(R), LiveInv(R), NEW r \in R
  PROVE  /\ r.t = "target" => <<"back", r.n>> \notin live
         /\ r.t = "back" => <<"target", r.n>> \notin live
<1>1. Rules(R) /\ NamesOf(R, "target") \cap NamesOf(R, "back") = {}
  BY DEF SceneInv, Rules, Agreed
<1>2. ASSUME NEW t \in {"target", "back"}, <<t, r.n>> \in live PROVE r.n \in NamesOf(R, t)
  <2>1. PICK q \in R : KeyIn(R, q) = <<t, r.n>>
    BY <1>2 DEF LiveInv, OwnInv
  <2>2. KeyIn(R, q)[1] = t /\ KeyIn(R, q)[2] = r.n
    BY <2>1
  <2>3. q.t = t
    BY <1>1, <2>2, TableOfKey
  <2>4. q.n = r.n
    BY <1>1, <2>1, <2>3, TableOfKey
  <2> QED
    BY <2>3, <2>4 DEF NamesOf
<1>3. r.n \in NamesOf(R, r.t)
  BY DEF NamesOf
<1> QED
  BY <1>1, <1>2, <1>3

\* Registration of view ports, targets, back buffers, passes, declarations, parameters.
LEMMA RegisterItemKeeps ==
  ASSUME NEW R, RegistryInv(R), IdleInv, active = None, NEW c \in Clients, NEW r \in scene[c],
         RegisterItem(c, r)
  PROVE  RegistryInv(R)' /\ IdleInv' /\ faults' = faults
<1>1. SceneInv(R) /\ OwnInv(R) /\ LiveInv(R)
  BY DEF RegistryInv
<1>2. /\ r.t \in {"viewport", "target", "back", "pass", "decl", "fparam", "tparam"}
      /\ Registers(c, r)
      /\ RegisterEntry(<<r.t, r.n>>, DepsOf(r))
      /\ faults' = faults \cup
           Fault(\/ r.t = "target" /\ <<"back", r.n>> \in live
                 \/ r.t = "back" /\ <<"target", r.n>> \in live, "NameClash")
  BY DEF RegisterItem
<1>3. KeyIn(R, r) = <<r.t, r.n>>
  BY <1>2 DEF KeyIn, Denotes
<1>4. RegistryInv(R)' /\ IdleInv' /\ r \in R
  BY <1>2, <1>3, EntryRegistered
<1>5. faults' = faults
  BY <1>1, <1>2, <1>4, NoNameClash DEF Fault
<1> QED
  BY <1>4, <1>5

\* Registration of passes to activate, render types and vertex data.
LEMMA RegisterDrawnKeeps ==
  ASSUME NEW R, RegistryInv(R), IdleInv, active = None, NEW c \in Clients, NEW r \in scene[c],
         RegisterDrawn(c, r)
  PROVE  RegistryInv(R)' /\ IdleInv' /\ faults' = faults
<1>1. /\ r.t \in {"passes", "type", "data"} /\ Registers(c, r)
      /\ RegisterEntry(<<r.t, r.n>>, DepsOf(r)) /\ faults' = faults
  BY DEF RegisterDrawn
<1>2. KeyIn(R, r) = <<r.t, r.n>>
  BY <1>1 DEF KeyIn, Denotes
<1> QED
  BY <1>1, <1>2, EntryRegistered

\* Registration of shaders, with those of the device.
LEMMA RegisterShaderDataKeeps ==
  ASSUME NEW R, RegistryInv(R), IdleInv, active = None, NEW c \in Clients, NEW r \in scene[c],
         RegisterShaderData(c, r)
  PROVE  RegistryInv(R)' /\ IdleInv' /\ faults' = faults
<1>1. SceneInv(R) /\ OwnInv(R) /\ LiveInv(R) /\ Rules(R)
  BY DEF RegistryInv, SceneInv
<1>2. r \in R
  BY <1>1, SceneRegistrations
<1> DEFINE k == KeyIn(R, r)
           ds == UsesIn(R, r)
           new == Shaders(Keys(ds)) \ live
<1>3. r.t = "shader" /\ Registers(c, r) /\ faults' = faults
  BY DEF RegisterShaderData
<1>4. k = <<"shader", FullName(r.n, r.variant)>>
  BY <1>3 DEF KeyIn
<1>5. \A i \in DOMAIN r.uses : \E q \in own[c] : Provides(q, r.uses[i])
  BY <1>3 DEF Registers
<1>6. /\ ds = DepsOf(r) \o <<<<"vs", <<"vs", r.vs>>>>, <<"ps", <<"ps", r.ps>>>>>>
      /\ \A i \in DOMAIN r.uses : ds[i][2] \in live
  BY <1>1, <1>2, <1>3, <1>5, UsesHeld
<1>7. IF k \in live THEN AddReference(k)
      ELSE Insert(k, Item, ds, Shaders(Keys(ds)) \ live) /\ objs' = objs
  BY <1>4, <1>6 DEF RegisterShaderData
<1> HIDE DEF k, ds
<1>8. \A i \in DOMAIN ds \ DOMAIN r.uses : ds[i][2][1] \in {"vs", "ps"}
  <2>1. ASSUME NEW i \in DOMAIN ds \ DOMAIN r.uses PROVE ds[i][2][1] \in {"vs", "ps"}
    <3>1. ds[i] \in {<<"vs", <<"vs", r.vs>>>>, <<"ps", <<"ps", r.ps>>>>}
      BY <1>1, <1>2, UsesInIs DEF ds
    <3> QED
      BY <3>1
  <2> QED
    BY <2>1
<1>9. CASE k \in live
  BY <1>3, <1>7, <1>9, Referenced DEF k
<1>10. CASE k \notin live
  <2>1. Insert(k, Item, ds, new) /\ objs' = objs
    BY <1>7, <1>10
  <2>2. /\ new \cap live = {} /\ \A x \in new : x[1] \in {"vs", "ps"}
        /\ \A x \in new : \E i \in DOMAIN ds : ds[i][2] = x
    BY DEF Shaders, Keys, Among
  <2>3. \A i \in DOMAIN ds : ds[i][2] \in live \cup new
    BY <1>6, <1>8 DEF Shaders, Keys, Among
  <2> HIDE DEF new
  <2> QED
    BY <1>3, <1>10, <2>1, <2>2, <2>3, ItemIsEntry, Inserted DEF k, ds
<1> QED
  BY <1>9, <1>10

\* Registration of arguments, in the table of their parameter's kind.
LEMMA RegisterShaderArgKeeps ==
  ASSUME NEW R, RegistryInv(R), IdleInv, active = None, NEW c \in Clients, NEW r \in scene[c],
         RegisterShaderArg(c, r)
  PROVE  RegistryInv(R)' /\ IdleInv' /\ faults' = faults
<1>1. SceneInv(R) /\ OwnInv(R) /\ LiveInv(R) /\ Rules(R)
  BY DEF RegistryInv, SceneInv
<1>2. r \in R
  BY <1>1, SceneRegistrations
<1>3. /\ r.t = "arg" /\ Registers(c, r) /\ faults' = faults
      /\ RegisterEntry(<<KindOf(DepsOf(r)[1][2], "fparam", "farg", "targ"), r.n>>, DepsOf(r))
  BY DEF RegisterShaderArg
<1>4. \A i \in DOMAIN r.uses : \E q \in own[c] : Provides(q, r.uses[i])
  BY <1>3 DEF Registers
<1>5. DepsOf(r) = UsesIn(R, r)
  BY <1>1, <1>2, <1>3, <1>4, UsesHeld
<1>6. /\ 1 \in DOMAIN r.uses /\ r.uses[1][2] = "param"
      /\ r.n \in FloatArgs(R) <=> r.uses[1][3] \in FloatParams(R)
  BY <1>1, <1>2, <1>3, KindOfArgument
<1>7. UsesIn(R, r)[1] = <<r.uses[1][1], Denotes(R, r.uses[1][2], r.uses[1][3])>>
  BY <1>1, <1>2, <1>6, UsesInIs
<1>8. DepsOf(r)[1][2] = <<IF r.uses[1][3] \in FloatParams(R) THEN "fparam" ELSE "tparam",
                          r.uses[1][3]>>
  BY <1>5, <1>6, <1>7 DEF Denotes
<1>9. KeyIn(R, r) = <<KindOf(DepsOf(r)[1][2], "fparam", "farg", "targ"), r.n>>
  BY <1>3, <1>6, <1>8 DEF KeyIn, Denotes, KindOf
<1> QED
  BY <1>3, <1>9, EntryRegistered

\* Registration of global arguments, which agree on the argument.
LEMMA RegisterGlobalArgKeeps ==
  ASSUME NEW R, RegistryInv(R), IdleInv, active = None, NEW c \in Clients, NEW r \in scene[c],
         RegisterGlobalArg(c, r)
  PROVE  RegistryInv(R)' /\ IdleInv' /\ faults' = faults
<1>1. SceneInv(R) /\ OwnInv(R) /\ LiveInv(R) /\ Rules(R) /\ MemInv(R)
  BY DEF RegistryInv, SceneInv
<1>2. r \in R
  BY <1>1, SceneRegistrations
<1> DEFINE k == <<KindOf(DepsOf(r)[1][2], "farg", "gfarg", "gtarg"), r.n>>
<1>3. /\ r.t = "global" /\ Registers(c, r)
      /\ RegisterEntry(k, DepsOf(r))
      /\ faults' = faults \cup
           Fault(k \in live /\ mem[k].deps # DepsOf(r), "GlobalArgument")
  BY DEF RegisterGlobalArg
<1>4. \A i \in DOMAIN r.uses : \E q \in own[c] : Provides(q, r.uses[i])
  BY <1>3 DEF Registers
<1>5. DepsOf(r) = UsesIn(R, r)
  BY <1>1, <1>2, <1>3, <1>4, UsesHeld
<1>6. /\ 1 \in DOMAIN r.uses /\ r.uses[1][2] = "arg"
      /\ r.n \in FloatGlobals(R) <=> r.uses[1][3] \in FloatArgs(R)
  BY <1>1, <1>2, <1>3, KindOfArgument
<1>7. UsesIn(R, r)[1] = <<r.uses[1][1], Denotes(R, r.uses[1][2], r.uses[1][3])>>
  BY <1>1, <1>2, <1>6, UsesInIs
<1>8. DepsOf(r)[1][2] = <<IF r.uses[1][3] \in FloatArgs(R) THEN "farg" ELSE "targ",
                          r.uses[1][3]>>
  BY <1>5, <1>6, <1>7 DEF Denotes
<1>9. KeyIn(R, r) = k
  BY <1>3, <1>6, <1>8 DEF KeyIn, Denotes, KindOf
<1> HIDE DEF k
<1>10. k \in live => mem[k].deps = DepsOf(r)
  BY <1>1, <1>2, <1>5, <1>9, UsesOf DEF LiveInv, MemInv
<1>11. faults' = faults
  BY <1>3, <1>10 DEF Fault
<1> QED
  BY <1>3, <1>9, <1>11, EntryRegistered

\* Registration of render objects, which join gRenderObjArray.
LEMMA RegisterRenderObjectKeeps ==
  ASSUME NEW R, RegistryInv(R), IdleInv, active = None, NEW c \in Clients, NEW r \in scene[c],
         RegisterRenderObject(c, r)
  PROVE  RegistryInv(R)' /\ IdleInv' /\ faults' = faults
<1>1. SceneInv(R) /\ OwnInv(R) /\ LiveInv(R) /\ Rules(R) /\ ObjsInv
  BY DEF RegistryInv, SceneInv
<1>2. r \in R
  BY <1>1, SceneRegistrations
<1> DEFINE k == <<"object", r.n>>
<1>3. /\ r.t = "object" /\ Registers(c, r) /\ faults' = faults
      /\ IF k \in live THEN AddReference(k)
         ELSE /\ Len(objs) < MaxActive.objs
              /\ Insert(k, [Item EXCEPT !.act = Len(objs)], DepsOf(r), {})
              /\ objs' = Append(objs, k)
  BY DEF RegisterRenderObject
<1>4. \A i \in DOMAIN r.uses : \E q \in own[c] : Provides(q, r.uses[i])
  BY <1>3 DEF Registers
<1>5. DepsOf(r) = UsesIn(R, r) /\ \A i \in DOMAIN r.uses : UsesIn(R, r)[i][2] \in live
  BY <1>1, <1>2, <1>3, <1>4, UsesHeld
<1>6. DOMAIN UsesIn(R, r) = DOMAIN r.uses
  BY <1>1, <1>2, <1>3, UsesInIs
<1>7. KeyIn(R, r) = k /\ k[1] = "object"
  BY <1>3 DEF KeyIn, Denotes
<1> HIDE DEF k
<1>8. CASE k \in live
  BY <1>3, <1>7, <1>8, Referenced
<1>9. CASE k \notin live
  <2> DEFINE entry == [Item EXCEPT !.act = Len(objs)]
  <2>1. Len(objs) \in Nat
    BY <1>1, SequenceDomain DEF ObjsInv
  <2>2. IsEntry(entry) /\ entry.refs = 1 /\ entry.keys = <<>> /\ entry.bufs = <<>>
    BY <2>1, ItemIsEntry DEF IsEntry
  <2>3. \A i \in DOMAIN UsesIn(R, r) : UsesIn(R, r)[i][2] \in live \cup {}
    BY <1>5, <1>6
  <2>4. Insert(k, entry, UsesIn(R, r), {}) /\ objs' = Append(objs, k)
    BY <1>3, <1>5, <1>9
  <2>5. {} \cap live = {}
    OBVIOUS
  <2> HIDE DEF entry
  <2> QED
    BY <1>3, <1>7, <1>9, <2>2, <2>3, <2>4, <2>5, Inserted
<1> QED
  BY <1>8, <1>9

\* Every registration keeps the invariant of the tables.
LEMMA RegisterKeeps ==
  ASSUME NEW R, RegistryInv(R), IdleInv, active = None, NEW c \in Clients, NEW r \in scene[c],
         Register(c, r)
  PROVE  RegistryInv(R)' /\ IdleInv' /\ faults' = faults
BY RegisterItemKeeps, RegisterDrawnKeeps, RegisterShaderDataKeeps, RegisterShaderArgKeeps,
   RegisterGlobalArgKeeps, RegisterRenderObjectKeeps DEF Register

------------------------------------------------------------------------------
\* A release of an entry that drops all that it refers to.
LEMMA EntryReleased ==
  ASSUME NEW R, RegistryInv(R), IdleInv, active = None, NEW c \in Clients, NEW r,
         Releases(c, r), NEW k, k = KeyIn(R, r), NEW entry,
         entry \in {mem[k], [mem[k] EXCEPT !.bufs = <<>>], [mem[k] EXCEPT !.act = None]},
         ReleaseEntry(k, entry, DOMAIN mem[k].deps)
  PROVE  RegistryInv(R)' /\ IdleInv' /\ faults' = faults
<1>1. OwnInv(R) /\ LiveInv(R) /\ MemInv(R)
  BY DEF RegistryInv
<1>2. k \in DOMAIN mem
  BY <1>1 DEF Releases, OwnInv, LiveInv
<1>3. IsEntry(mem[k]) /\ mem[k].keys = <<>>
  BY <1>1, <1>2 DEF MemInv, IdleInv
<1>4. /\ IsEntry(entry) /\ entry.deps = mem[k].deps /\ entry.keys = <<>>
      /\ entry.act \in {mem[k].act, None} /\ entry.bufs \in {mem[k].bufs, <<>>}
  <2>1. CASE entry = mem[k]
    BY <1>3, <2>1
  <2>2. CASE entry = [mem[k] EXCEPT !.bufs = <<>>]
    BY <1>3, <2>2, EmptySequence DEF IsEntry
  <2>3. CASE entry = [mem[k] EXCEPT !.act = None]
    BY <1>3, <2>3 DEF IsEntry
  <2> QED
    BY <2>1, <2>2, <2>3
<1>5. CASE mem[k].refs # 1
  BY <1>5, Dereferenced
<1>6. CASE mem[k].refs = 1
  BY <1>4, <1>6, Removed
<1> QED
  BY <1>5, <1>6

(* A shader with as many float as texture parameters drops all that it uses. *)
LEMMA AllDropped ==
  ASSUME NEW R, Rules(R), NEW r \in R, r.t = "shader"
  PROVE  DroppedByShader(UsesIn(R, r)) = DOMAIN UsesIn(R, r)
<1> DEFINE ds == UsesIn(R, r)
           P(t) == VertexParams(ds, t)
<1>1. Cardinality(P("fparam")) = Cardinality(P("tparam"))
  BY DEF Rules, Agreed
<1>2. Uses(R, KeyIn(R, r)) = ds
  BY UsesOf
<1> HIDE DEF ds
<1>3. PICK n \in Nat : DOMAIN ds = 1 .. n
  BY <1>2, UsesShape
<1>4. IsFiniteSet(DOMAIN ds)
  BY <1>3, FS_Interval
<1>5. ASSUME NEW t PROVE IsFiniteSet(P(t))
  <2>1. P(t) \in SUBSET DOMAIN ds
    BY DEF VertexParams
  <2> QED
    BY <1>4, <2>1, FS_Subset
<1>6. ASSUME NEW i \in DOMAIN ds, ds[i][1] = "vparam"
      PROVE  Cardinality({j \in P(ds[i][2][1]) : j <= i}) <= Cardinality(P(Swapped(ds[i][2][1])))
  <2> DEFINE t == ds[i][2][1]
             S == {j \in P(t) : j <= i}
  <2>1. t \in {"fparam", "tparam"}
    <3>1. t \in TablesOf("vparam")
      BY <1>2, <1>6, UsesShape
    <3> QED
      BY <3>1 DEF TablesOf
  <2> HIDE DEF t, P
  <2>2. Cardinality(P(Swapped(t))) = Cardinality(P(t))
    BY <1>1, <2>1 DEF Swapped
  <2>3. Cardinality(S) <= Cardinality(P(t))
    <3>1. S \in SUBSET P(t)
      OBVIOUS
    <3> QED
      BY <1>5, <3>1, FS_Subset
  <2> QED
    BY <2>2, <2>3 DEF t
<1> QED
  BY <1>6 DEF DroppedByShader, ds

\* Every release keeps the invariant of the tables.
LEMMA ReleaseKeeps ==
  ASSUME NEW R, RegistryInv(R), IdleInv, active = None, NEW c \in Clients, NEW r,
         Release(c, r)
  PROVE  RegistryInv(R)' /\ IdleInv' /\ faults' = faults
<1>1. SceneInv(R) /\ OwnInv(R) /\ LiveInv(R) /\ Rules(R) /\ MemInv(R)
  BY DEF RegistryInv, SceneInv
<1>2. Releases(c, r)
  BY DEF Release, ReleaseItem, ReleaseDrawn, ReleaseShaderData, ReleaseShaderArg,
         ReleaseGlobalArg, ReleaseRenderObject
<1>3. r \in own[c] /\ r \in R /\ KeyIn(R, r) \in live
  BY <1>1, <1>2 DEF Releases, OwnInv
<1>4. r.t # "shader" => Find(r.t, r.n) = KeyIn(R, r)
  BY <1>1, <1>3, KeyOfHeld DEF KeyOf
<1>5. CASE ReleaseItem(c, r)
  <2>1. /\ r.t \in {"viewport", "target", "back", "pass", "decl", "fparam", "tparam"}
        /\ ReleaseEntry(<<r.t, r.n>>, mem[<<r.t, r.n>>], DOMAIN mem[<<r.t, r.n>>].deps)
    BY <1>5 DEF ReleaseItem
  <2>2. KeyIn(R, r) = <<r.t, r.n>>
    BY <2>1 DEF KeyIn, Denotes
  <2> QED
    BY <1>2, <2>1, <2>2, EntryReleased
<1>6. CASE ReleaseDrawn(c, r)
  <2> DEFINE k == <<r.t, r.n>>
  <2>1. /\ r.t \in {"passes", "type", "data"}
        /\ ReleaseEntry(k, [mem[k] EXCEPT !.bufs = <<>>], DOMAIN mem[k].deps)
    BY <1>6 DEF ReleaseDrawn
  <2>2. KeyIn(R, r) = k
    BY <2>1 DEF KeyIn, Denotes
  <2> HIDE DEF k
  <2> QED
    BY <1>2, <2>1, <2>2, EntryReleased
<1>7. CASE ReleaseShaderData(c, r)
  <2> DEFINE k == <<"shader", FullName(r.n, r.variant)>>
  <2>1. r.t = "shader" /\ ReleaseEntry(k, mem[k], DroppedByShader(mem[k].deps))
    BY <1>7 DEF ReleaseShaderData
  <2>2. KeyIn(R, r) = k
    BY <2>1 DEF KeyIn
  <2> HIDE DEF k
  <2>3. mem[k].deps = UsesIn(R, r)
    BY <1>1, <1>3, <2>2, UsesOf DEF LiveInv, MemInv
  <2>4. DroppedByShader(mem[k].deps) = DOMAIN mem[k].deps
    BY <1>1, <1>3, <2>1, <2>3, AllDropped
  <2> QED
    BY <1>2, <2>1, <2>2, <2>4, EntryReleased
<1>8. CASE ReleaseShaderArg(c, r)
  <2> DEFINE k == Find("arg", r.n)
  <2>1. r.t = "arg" /\ ReleaseEntry(k, mem[k], DOMAIN mem[k].deps)
    BY <1>8 DEF ReleaseShaderArg
  <2>2. KeyIn(R, r) = k
    BY <1>4, <2>1
  <2> HIDE DEF k
  <2> QED
    BY <1>2, <2>1, <2>2, EntryReleased
<1>9. CASE ReleaseGlobalArg(c, r)
  <2> DEFINE k == Find("global", r.n)
  <2>1. r.t = "global" /\ ReleaseEntry(k, mem[k], DOMAIN mem[k].deps)
    BY <1>9 DEF ReleaseGlobalArg
  <2>2. KeyIn(R, r) = k
    BY <1>4, <2>1
  <2> HIDE DEF k
  <2> QED
    BY <1>2, <2>1, <2>2, EntryReleased
<1>10. CASE ReleaseRenderObject(c, r)
  <2> DEFINE k == <<"object", r.n>>
  <2>1. r.t = "object" /\ ReleaseEntry(k, [mem[k] EXCEPT !.act = None], DOMAIN mem[k].deps)
    BY <1>10 DEF ReleaseRenderObject
  <2>2. KeyIn(R, r) = k
    BY <2>1 DEF KeyIn, Denotes
  <2> HIDE DEF k
  <2> QED
    BY <1>2, <2>1, <2>2, EntryReleased
<1> QED
  BY <1>5, <1>6, <1>7, <1>8, <1>9, <1>10 DEF Release

------------------------------------------------------------------------------
(* Activation                                                                *)

\* The active items of a table, which are those with an index, at it.
ArrayOK(m, a, t) ==
  /\ IsSeq(a)
  /\ \A i \in DOMAIN a : a[i] \in DOMAIN m /\ a[i][1] = t /\ m[a[i]].act = i - 1
  /\ \A x \in DOMAIN m : x[1] = t /\ m[x].act # None => x \in Range(a)

\* A key of o selects a render key made for o, of items in the tables.
Selects(rk, key, o) ==
  /\ key.index + 1 \in DOMAIN rk
  /\ IndexBitsFit => RenderIndex(key) = key.index
  /\ rk[key.index + 1].object = o
  /\ Activates(rk[key.index + 1]) \subseteq live

KeysSelect(m, rk) ==
  \A o \in live : \A i \in DOMAIN m[o].keys : Selects(rk, m[o].keys[i], o)

Count(R, k) == Cardinality(HeldOf(R, own, k)) + Cardinality(UsesTo(R, live, k))

\* What may fail in an activation that Prepared leaves out, and at any time.
Unprepared == {"ParameterNotSet", "VertexBuffersFull", "VertexDataFull",
               "RenderKeysFull", "KeyIndex"}
Misfit == Fault(~IndexBitsFit, "IndexBits")

\* The state in the middle of an activation of a, when nothing else is referred to
\* than before.
ActState(R, a, s) ==
  /\ DOMAIN s = {"mem", "vps", "decls", "shdrs", "rkeys", "pool", "faults"}
  /\ DOMAIN s.mem = DOMAIN mem
  /\ \A x \in DOMAIN mem :
       /\ IsEntry(s.mem[x]) /\ s.mem[x].deps = Uses(R, x)
       /\ Range(s.mem[x].bufs) \subseteq DOMAIN s.pool
       /\ s.mem[x].keys # <<>> => x \in Range(objs)
  /\ \A x \in live : s.mem[x].refs = Count(R, x) + IF a = x THEN 1 ELSE 0
  /\ ArrayOK(s.mem, s.vps, "viewport")
  /\ ArrayOK(s.mem, s.decls, "decl")
  /\ ArrayOK(s.mem, s.shdrs, "shader")
  /\ IsSeq(s.pool) /\ IsSeq(s.rkeys)
  /\ s.faults \subseteq Unprepared \cup Misfit
  /\ "ParameterNotSet" \in s.faults \/ "KeyIndex" \in s.faults \/ KeysSelect(s.mem, s.rkeys)

TableFor == [vps |-> "viewport", decls |-> "decl", shdrs |-> "shader"]

\* The items of a table that clients register are finitely many.
LEMMA FiniteItems ==
  ASSUME NEW R, IsFiniteSet(R), NEW t PROVE IsFiniteSet(ItemsOf(R, t))
<1> DEFINE Q == {q \in R : q.t = t}
           f == [q \in Q |-> KeyIn(R, q)]
<1>1. IsFiniteSet(Q)
  <2>1. Q \in SUBSET R
    OBVIOUS
  <2> QED
    BY <2>1, FS_Subset
<1>2. f \in Surjection(Q, ItemsOf(R, t))
  <2>1. f \in [Q -> ItemsOf(R, t)] /\ \A x \in ItemsOf(R, t) : \E q \in Q : f[q] = x
    BY DEF ItemsOf
  <2> HIDE DEF f
  <2> QED
    BY <2>1 DEF Surjection
<1> HIDE DEF f, Q
<1> QED
  BY <1>1, <1>2, FS_Surjection

(* The active items of a table are no more than the clients' items of it, and
   fewer if there is another one.                                            *)
LEMMA ArrayFits ==
  ASSUME NEW R, Rules(R), IsFiniteSet(R), NEW m, NEW a, NEW t \in {"viewport", "decl", "shader"},
         ArrayOK(m, a, t), \A x \in DOMAIN m : x[1] = t => Registered(R, x)
  PROVE  /\ Len(a) <= Cardinality(ItemsOf(R, t))
         /\ \A x \in DOMAIN m : x[1] = t /\ m[x].act = None =>
              Len(a) < Cardinality(ItemsOf(R, t))
         /\ Cardinality(ItemsOf(R, t)) \in Nat
<1> DEFINE I == ItemsOf(R, t)
<1>1. IsFiniteSet(I) /\ Cardinality(I) \in Nat
  BY FiniteItems, FS_CardinalityType
<1>2. \A x \in DOMAIN m : x[1] = t => x \in I
  <2>1. ASSUME NEW x \in DOMAIN m, x[1] = t PROVE x \in I
    <3>1. PICK r \in R : KeyIn(R, r) = x
      BY <2>1 DEF Registered
    <3>2. r.t = t
      BY <2>1, <3>1, TableOfKey DEF Rules, WellFormed, Roles
    <3> QED
      BY <3>1, <3>2 DEF ItemsOf
  <2> QED
    BY <2>1
<1>3. IsSeq(a) /\ \A i \in DOMAIN a : a[i] \in DOMAIN m /\ a[i][1] = t /\ m[a[i]].act = i - 1
  BY DEF ArrayOK
<1>4. Len(a) \in Nat /\ DOMAIN a = 1 .. Len(a)
  BY <1>3, SequenceDomain
<1> HIDE DEF I
<1>5. ASSUME NEW n \in Nat, NEW f \in Injection(1 .. n, I) PROVE n <= Cardinality(I)
  <2>1. Cardinality(1 .. n) = n
    BY FS_Interval
  <2> QED
    BY <1>1, <2>1, FS_Injection
<1>6. Len(a) <= Cardinality(I)
  <2> DEFINE f == [i \in 1 .. Len(a) |-> a[i]]
  <2>1. f \in [1 .. Len(a) -> I]
    BY <1>2, <1>3, <1>4
  <2>2. \A i, j \in 1 .. Len(a) : f[i] = f[j] => i = j
    <3>1. \A i \in 1 .. Len(a) : m[f[i]].act = i - 1
      BY <1>3, <1>4
    <3> HIDE DEF f
    <3>2. ASSUME NEW i \in 1 .. Len(a), NEW j \in 1 .. Len(a), f[i] = f[j] PROVE i = j
      <4>1. i - 1 = j - 1
        BY <3>1, <3>2
      <4> QED
        BY <1>4, <4>1
    <3> QED
      BY <3>2
  <2> HIDE DEF f
  <2>3. f \in Injection(1 .. Len(a), I)
    BY <2>1, <2>2 DEF Injection, IsInjective
  <2> QED
    BY <1>4, <1>5, <2>3
<1>7. ASSUME NEW x \in DOMAIN m, x[1] = t, m[x].act = None PROVE Len(a) < Cardinality(I)
  <2> DEFINE n == Len(a) + 1
             f == [i \in 1 .. n |-> IF i = n THEN x ELSE a[i]]
  <2>1. n \in Nat /\ \A i \in 1 .. n : i # n => i \in 1 .. Len(a)
    BY <1>4
  <2>2. f \in [1 .. n -> I]
    BY <1>2, <1>3, <1>4, <1>7, <2>1
  <2>3. ASSUME NEW i \in 1 .. n, NEW j \in 1 .. n, f[i] = f[j] PROVE i = j
    <3>1. \A l \in 1 .. n : l # n => m[f[l]].act = l - 1 /\ l - 1 \in Nat
      BY <1>3, <1>4, <2>1
    <3>2. m[f[n]].act = None /\ None \notin Nat
      BY <1>7, <2>1, LimitAssumption
    <3> HIDE DEF f
    <3>3. CASE i = n /\ j # n
      BY <2>3, <3>1, <3>2, <3>3
    <3>4. CASE i # n /\ j = n
      BY <2>3, <3>1, <3>2, <3>4
    <3>5. CASE i # n /\ j # n
      <4>1. i - 1 = j - 1
        BY <2>3, <3>1, <3>5
      <4> QED
        BY <2>1, <4>1
    <3> QED
      BY <3>3, <3>4, <3>5
  <2> HIDE DEF f
  <2>4. f \in Injection(1 .. n, I)
    BY <2>2, <2>3 DEF Injection, IsInjective
  <2>5. n <= Cardinality(I)
    BY <1>5, <2>1, <2>4
  <2> QED
    BY <1>1, <1>4, <2>5
<1> QED
  BY <1>1, <1>6, <1>7 DEF I

(* Indexing an item of a table that has no index adds it to its array.       *)
LEMMA ArrayGrows ==
  ASSUME NEW m, NEW a, NEW t, ArrayOK(m, a, t), NEW k \in DOMAIN m, k[1] = t, m[k].act = None,
         \A x \in DOMAIN m : "act" \in DOMAIN m[x],
         NEW n, n = [m EXCEPT ![k].act = Len(a)]
  PROVE  ArrayOK(n, Append(a, k), t)
<1>1. IsSeq(a) /\ Len(a) \in Nat /\ DOMAIN a = 1 .. Len(a)
  BY SequenceDomain DEF ArrayOK
<1> DEFINE b == Append(a, k)
<1>2. /\ IsSeq(b) /\ DOMAIN b = 1 .. Len(a) + 1 /\ \A i \in DOMAIN a : b[i] = a[i]
      /\ b[Len(a) + 1] = k /\ Range(b) = Range(a) \cup {k}
  BY <1>1, InsertedLast
<1> HIDE DEF b
<1>3. /\ DOMAIN n = DOMAIN m /\ n[k].act = Len(a)
      /\ \A x \in DOMAIN m : x # k => n[x] = m[x]
  OBVIOUS
<1>4. \A i \in DOMAIN a : a[i] # k
  BY <1>1, LimitAssumption DEF ArrayOK
<1>5. ASSUME NEW i \in DOMAIN b
      PROVE  b[i] \in DOMAIN n /\ b[i][1] = t /\ n[b[i]].act = i - 1
  <2>1. CASE i = Len(a) + 1
    BY <1>1, <1>2, <1>3, <2>1
  <2>2. CASE i \in DOMAIN a
    BY <1>2, <1>3, <1>4, <2>2 DEF ArrayOK
  <2> QED
    BY <1>1, <1>2, <2>1, <2>2
<1>6. \A x \in DOMAIN n : x[1] = t /\ n[x].act # None => x \in Range(b)
  BY <1>2, <1>3 DEF ArrayOK
<1> QED
  BY <1>2, <1>5, <1>6 DEF ArrayOK, b

\* Changes of the memory that leave the indexes of a table alone leave its array.
LEMMA ArrayStays ==
  ASSUME NEW m, NEW a, NEW t, ArrayOK(m, a, t), NEW n, DOMAIN n = DOMAIN m,
         \A x \in DOMAIN m : x[1] = t => n[x].act = m[x].act
  PROVE  ArrayOK(n, a, t)
BY DEF ArrayOK

\* What activation may rely on: nothing of it changes the tables.
Activating(R) ==
  RegistryInv(R) /\ ObjsInv /\ fields \in Range(FieldSetups)

\* What the assumptions say of the limits of one scene.
LEMMA Limits ==
  ASSUME NEW R, SceneInv(R)
  PROVE  /\ IsFiniteSet(R) /\ Rules(R)
         /\ Cardinality(ItemsOf(R, "viewport")) <= MaxActive.vps
         /\ Cardinality(ItemsOf(R, "decl")) <= MaxActive.decls
         /\ Cardinality(ItemsOf(R, "shader")) <= MaxActive.shdrs
         /\ Fits(Cardinality(ItemsOf(R, "viewport")), "ViewPort")
         /\ Fits(Cardinality(ItemsOf(R, "decl")), "VertexDecl")
         /\ Fits(Cardinality(ItemsOf(R, "shader")), "Shader")
         /\ \A r \in R : r.t = "passes" => Fits(Len(r.uses), "RenderPass")
         /\ MaxActive.vps \in Nat /\ MaxActive.decls \in Nat /\ MaxActive.shdrs \in Nat
<1>1. PICK S \in Scenes : R = RegistrationsOf(S)
  BY DEF SceneInv
<1>2. IsFiniteSet(R) /\ Rules(R)
  BY <1>1, SceneAssumption DEF SceneInv
<1>3. MaxActive.vps \in Nat /\ MaxActive.decls \in Nat /\ MaxActive.shdrs \in Nat
  BY LimitAssumption
<1> QED
  BY <1>1, <1>2, <1>3, LimitAssumption

\* An item gets an index, if it has none, and the others keep theirs.
LEMMA IndexedKeeps ==
  ASSUME NEW R, RegistryInv(R), NEW a, NEW s, ActState(R, a, s),
         NEW array \in {"vps", "decls", "shdrs"},
         NEW k \in DOMAIN mem, k[1] = TableFor[array],
         NEW t, t = Indexed(s, array, k)
  PROVE  /\ ActState(R, a, t) /\ t.mem[k].act # None
         /\ \A x \in DOMAIN mem : s.mem[x].act # None => t.mem[x].act # None
<1>1. SceneInv(R) /\ MemInv(R) /\ Rules(R) /\ IsFiniteSet(R) /\ LiveInv(R)
  BY Limits DEF RegistryInv
<1>2. CASE s.mem[k].act # None
  <2>1. t = s
    BY <1>2 DEF Indexed
  <2> QED
    BY <1>2, <2>1
<1>3. CASE s.mem[k].act = None
  <2>1. ArrayOK(s.mem, s[array], TableFor[array])
    BY DEF ActState, TableFor
  <2>2. \A x \in DOMAIN s.mem : x[1] = TableFor[array] => Registered(R, x)
    BY <1>1 DEF MemInv, ActState, TableFor
  <2>3. TableFor[array] \in {"viewport", "decl", "shader"}
    BY DEF TableFor
  <2>4. Len(s[array]) < Cardinality(ItemsOf(R, TableFor[array]))
        /\ Cardinality(ItemsOf(R, TableFor[array])) \in Nat
    BY <1>1, <1>3, <2>1, <2>2, <2>3, ArrayFits DEF ActState
  <2>5. Len(s[array]) # MaxActive[array] /\ Len(s[array]) \in Nat
    <3>1. Len(s[array]) \in Nat
      BY <2>1, SequenceDomain DEF ArrayOK
    <3>2. Cardinality(ItemsOf(R, TableFor[array])) <= MaxActive[array] /\ MaxActive[array] \in Nat
      BY <1>1, Limits DEF TableFor
    <3> QED
      BY <2>4, <3>1, <3>2
  <2>6. t = [s EXCEPT !.mem[k].act = Len(s[array]), ![array] = Append(@, k)]
    BY <1>3, <2>5 DEF Indexed
  <2> DEFINE m == [s.mem EXCEPT ![k].act = Len(s[array])]
             b == Append(s[array], k)
  <2>7. \A x \in DOMAIN s.mem : IsEntry(s.mem[x]) /\ "act" \in DOMAIN s.mem[x]
    BY DEF ActState, IsEntry
  <2>8. ArrayOK(m, b, TableFor[array])
    BY <1>3, <2>1, <2>7, ArrayGrows DEF ActState
  <2>9. /\ DOMAIN t = DOMAIN s /\ t.mem = m /\ t[array] = b
        /\ \A f \in DOMAIN s \ {"mem", array} : t[f] = s[f]
    BY <2>6 DEF ActState
  <2>10. /\ DOMAIN m = DOMAIN mem /\ m[k] = [s.mem[k] EXCEPT !.act = Len(s[array])]
         /\ \A x \in DOMAIN mem : x # k => m[x] = s.mem[x]
    BY DEF ActState
  <2> HIDE DEF m, b
  <2>11. /\ DOMAIN s = {"mem", "vps", "decls", "shdrs", "rkeys", "pool", "faults"}
         /\ t.pool = s.pool /\ t.rkeys = s.rkeys /\ t.faults = s.faults
    BY <2>9 DEF ActState
  <2>12. /\ IsEntry(m[k]) /\ m[k].deps = s.mem[k].deps /\ m[k].bufs = s.mem[k].bufs
         /\ m[k].keys = s.mem[k].keys /\ m[k].refs = s.mem[k].refs /\ m[k].act = Len(s[array])
    BY <2>5, <2>7, <2>10 DEF IsEntry, ActState
  <2>13. \A x \in DOMAIN mem :
           /\ IsEntry(m[x]) /\ m[x].deps = s.mem[x].deps /\ m[x].bufs = s.mem[x].bufs
           /\ m[x].keys = s.mem[x].keys /\ m[x].refs = s.mem[x].refs
           /\ x # k => m[x].act = s.mem[x].act
    BY <2>7, <2>10, <2>12 DEF ActState
  <2>14. ASSUME NEW other \in {"vps", "decls", "shdrs"}
         PROVE  ArrayOK(m, t[other], TableFor[other])
    <3>1. CASE other = array
      BY <2>8, <2>9, <3>1
    <3>2. CASE other # array
      <4>1. t[other] = s[other] /\ ArrayOK(s.mem, s[other], TableFor[other])
        BY <2>9, <2>11, <3>2 DEF ActState, TableFor
      <4>2. k[1] # TableFor[other]
        BY <3>2 DEF TableFor
      <4> QED
        BY <2>10, <2>13, <4>1, <4>2, ArrayStays DEF ActState
    <3> QED
      BY <3>1, <3>2
  <2>15. KeysSelect(s.mem, s.rkeys) => KeysSelect(m, s.rkeys)
    BY <1>1, <2>13 DEF KeysSelect, LiveInv
  <2>16. ActState(R, a, t)
    <3>1. ArrayOK(m, t.vps, "viewport") /\ ArrayOK(m, t.decls, "decl") /\ ArrayOK(m, t.shdrs, "shader")
      BY <2>14 DEF TableFor
    <3>2. live \subseteq DOMAIN mem
      BY <1>1 DEF LiveInv
    <3> QED
      BY <2>9, <2>10, <2>11, <2>13, <2>15, <3>1, <3>2 DEF ActState
  <2>17. t.mem[k].act # None
    BY <2>5, <2>9, <2>12, LimitAssumption
  <2> QED
    BY <2>9, <2>13, <2>16, <2>17
<1> QED
  BY <1>2, <1>3

\* A step of an activation, which takes no index away.
Continues(R, a, s, t) ==
  /\ ActState(R, a, t)
  /\ \A x \in DOMAIN mem : s.mem[x].act # None => t.mem[x].act # None

\* What an activation's state is after a new buffer.
LEMMA NewBuffer ==
  ASSUME NEW s, NEW data, NEW p, NEW b,
         DOMAIN s = {"mem", "vps", "decls", "shdrs", "rkeys", "pool", "faults"},
         NEW t, t = [s EXCEPT !.pool = p, !.mem[data].bufs = b]
  PROVE  /\ DOMAIN t = DOMAIN s /\ t.vps = s.vps /\ t.decls = s.decls
         /\ t.shdrs = s.shdrs /\ t.rkeys = s.rkeys /\ t.pool = p /\ t.faults = s.faults
         /\ t.mem = [s.mem EXCEPT ![data].bufs = b]
OBVIOUS

\* A buffer for a declaration changes nothing but the buffers.
LEMMA WithBufferKeeps ==
  ASSUME NEW R, RegistryInv(R), NEW a, NEW s, ActState(R, a, s),
         NEW data \in DOMAIN mem, NEW decl, NEW t, t = WithBuffer(s, data, decl)
  PROVE  ActState(R, a, t) /\ \A x \in DOMAIN mem : t.mem[x].act = s.mem[x].act
<1>1. LiveInv(R) /\ live \subseteq DOMAIN mem
  BY DEF RegistryInv, LiveInv
<1> DEFINE bufs == s.mem[data].bufs
           full == Len(bufs) = MaxBuffersPerData
           idle == {i \in DOMAIN bufs : LET d == s.pool[bufs[i]]
                                        IN d \in DOMAIN s.mem => s.mem[d].act = None}
           kept == IF full THEN Without(bufs, Min(idle)) ELSE bufs
<1>2. /\ IsSeq(s.pool) /\ Len(s.pool) \in Nat /\ DOMAIN s.pool = 1 .. Len(s.pool)
      /\ DOMAIN s = {"mem", "vps", "decls", "shdrs", "rkeys", "pool", "faults"}
      /\ IsEntry(s.mem[data]) /\ Range(bufs) \subseteq DOMAIN s.pool /\ DOMAIN s.mem = DOMAIN mem
  BY SequenceDomain DEF ActState
<1>3. IsSeq(bufs) /\ Len(bufs) \in Nat /\ DOMAIN bufs = 1 .. Len(bufs)
  BY <1>2, SequenceDomain DEF IsEntry
<1>4. CASE t = s
  BY <1>4
<1>5. CASE t = [s EXCEPT !.faults = @ \cup {"VertexBuffersFull"}]
  <2>1. /\ DOMAIN t = DOMAIN s /\ t.mem = s.mem /\ t.vps = s.vps /\ t.decls = s.decls
        /\ t.shdrs = s.shdrs /\ t.rkeys = s.rkeys /\ t.pool = s.pool
        /\ t.faults = s.faults \cup {"VertexBuffersFull"}
    BY <1>2, <1>5
  <2> QED
    BY <2>1 DEF ActState, Unprepared
<1>6. CASE t = [s EXCEPT !.pool = Append(@, decl), !.faults = @ \cup {"VertexDataFull"}]
  <2>1. /\ DOMAIN t = DOMAIN s /\ t.mem = s.mem /\ t.vps = s.vps /\ t.decls = s.decls
        /\ t.shdrs = s.shdrs /\ t.rkeys = s.rkeys /\ t.pool = Append(s.pool, decl)
        /\ t.faults = s.faults \cup {"VertexDataFull"}
    BY <1>2, <1>6
  <2>2. IsSeq(t.pool) /\ DOMAIN s.pool \subseteq DOMAIN t.pool
    BY <1>2, <2>1, InsertedLast
  <2> QED
    BY <2>1, <2>2 DEF ActState, Unprepared
<1>7. CASE /\ full => idle # {}
           /\ t = [s EXCEPT !.pool = Append(@, decl), !.mem[data].bufs = Append(kept, Len(s.pool) + 1)]
  <2>1. IsSeq(kept) /\ Range(kept) \subseteq Range(bufs)
    <3>1. CASE full
      <4>0. \E i \in DOMAIN bufs : TRUE
        BY <1>7, <3>1
      <4> DEFINE m == Min(idle)
                 w == Without(bufs, m)
                 last == Len(bufs)
      <4> HIDE DEF idle, bufs
      <4>1. Len(bufs) > 0
        BY <1>3, <4>0
      <4>2. w = [i \in 1 .. Len(bufs) - 1 |-> IF i = m THEN bufs[Len(bufs)] ELSE bufs[i]]
        BY DEF Without
      <4> HIDE DEF m, w
      <4>3. w \in [1 .. Len(bufs) - 1 -> Range(bufs)]
        <5>1. \A i \in DOMAIN bufs : bufs[i] \in Range(bufs)
          BY DEF Range
        <5>2. last \in DOMAIN bufs /\ \A i \in 1 .. last - 1 : i \in DOMAIN bufs
          BY <1>3, <4>1
        <5> HIDE DEF last
        <5>3. w = [i \in 1 .. last - 1 |-> IF i = m THEN bufs[last] ELSE bufs[i]]
          BY <4>2 DEF last
        <5>4. w \in [1 .. last - 1 -> Range(bufs)]
          BY <5>1, <5>2, <5>3
        <5> QED
          BY <5>4 DEF last
      <4>4. Len(bufs) - 1 \in Nat
        BY <1>3, <4>1
      <4>5. w \in [1 .. Len(bufs) - 1 -> Range(w)] /\ Range(w) \subseteq Range(bufs)
        BY <4>3 DEF Range
      <4>6. w \in Seq(Range(w))
        BY <4>4, <4>5, FunctionIsSequence
      <4>7. kept = w
        BY <3>1 DEF w, m, idle, bufs
      <4> QED
        BY <4>5, <4>6, <4>7 DEF IsSeq
    <3>2. CASE ~full
      BY <1>3, <3>2
    <3> QED
      BY <3>1, <3>2
  <2> DEFINE b == Append(kept, Len(s.pool) + 1)
             p == Append(s.pool, decl)
             m == [s.mem EXCEPT ![data].bufs = b]
  <2>2. /\ IsSeq(p) /\ DOMAIN p = 1 .. Len(s.pool) + 1 /\ DOMAIN s.pool \subseteq DOMAIN p
    BY <1>2, InsertedLast
  <2> HIDE DEF kept
  <2>3. IsSeq(b) /\ Range(b) = Range(kept) \cup {Len(s.pool) + 1}
    BY <2>1, InsertedLast
  <2>4. /\ DOMAIN t = DOMAIN s /\ t.mem = m /\ t.vps = s.vps /\ t.decls = s.decls
        /\ t.shdrs = s.shdrs /\ t.rkeys = s.rkeys /\ t.pool = p /\ t.faults = s.faults
    <3> HIDE DEF b, p, bufs
    <3>1. t = [s EXCEPT !.pool = p, !.mem[data].bufs = b]
      BY <1>7 DEF b, p, bufs
    <3> QED
      BY <1>2, <3>1, NewBuffer
  <2>5. /\ DOMAIN m = DOMAIN mem /\ m[data] = [s.mem[data] EXCEPT !.bufs = b]
        /\ \A x \in DOMAIN mem : x # data => m[x] = s.mem[x]
    BY <1>2
  <2>6. Range(b) \subseteq DOMAIN p
    BY <1>2, <2>1, <2>2, <2>3
  <2> HIDE DEF b, p, m
  <2>7. /\ IsEntry(m[data]) /\ m[data].bufs = b /\ m[data].deps = s.mem[data].deps
        /\ m[data].keys = s.mem[data].keys /\ m[data].refs = s.mem[data].refs
        /\ m[data].act = s.mem[data].act
    BY <1>2, <2>3, <2>5 DEF IsEntry
  <2>8. \A x \in DOMAIN mem :
          /\ IsEntry(m[x]) /\ m[x].deps = s.mem[x].deps /\ Range(m[x].bufs) \subseteq DOMAIN p
          /\ m[x].keys = s.mem[x].keys /\ m[x].refs = s.mem[x].refs
          /\ m[x].act = s.mem[x].act
    BY <2>2, <2>5, <2>6, <2>7 DEF ActState
  <2>9. ArrayOK(m, s.vps, "viewport") /\ ArrayOK(m, s.decls, "decl") /\ ArrayOK(m, s.shdrs, "shader")
    BY <2>5, <2>8, ArrayStays DEF ActState
  <2>10. KeysSelect(s.mem, s.rkeys) => KeysSelect(m, s.rkeys)
    BY <1>1, <2>8 DEF KeysSelect
  <2> QED
    BY <1>1, <2>2, <2>4, <2>5, <2>8, <2>9, <2>10 DEF ActState
<1> QED
  BY <1>4, <1>5, <1>6, <1>7 DEF WithBuffer

(* The smallest number with a property, from the library's theorem that the
   subsets of a finite set are well founded.                                 *)
LEMMA Smallest ==
  ASSUME NEW N \in Nat, NEW B \in SUBSET (0 .. N), B # {}
  PROVE  \E m \in B : \A k \in B : m <= k
<1> DEFINE S == 0 .. N
           T == {0 .. k : k \in B}
<1>1. IsWellFoundedOn(StrictSubsetOrdering(S), FiniteSubsetsOf(S))
  BY FS_StrictSubsetOrderingWellFounded, Zenon
<1>2. T \subseteq FiniteSubsetsOf(S)
  <2>1. \A k \in B : k \in Nat /\ 0 .. k \subseteq S /\ IsFiniteSet(0 .. k)
    BY FS_Interval
  <2> QED
    BY <2>1 DEF FiniteSubsetsOf
<1>3. T # {}
  OBVIOUS
<1>4. PICK x \in T : \A y \in T : ~(<<y, x>> \in StrictSubsetOrdering(S))
  <2> HIDE DEF S, T
  <2> QED
    BY <1>1, <1>2, <1>3, WFMin, Zenon
<1>5. PICK m \in B : x = 0 .. m
  BY <1>4
<1>6. ASSUME NEW k \in B, ~(m <= k) PROVE FALSE
  <2>1. k \in S /\ m \in S /\ k < m
    BY <1>6
  <2>2. 0 .. k \in SUBSET S /\ 0 .. m \in SUBSET S /\ 0 .. k \subseteq 0 .. m /\ 0 .. k # 0 .. m
    BY <2>1
  <2>3. <<0 .. k, 0 .. m>> \in StrictSubsetOrdering(S)
    BY <2>2 DEF StrictSubsetOrdering
  <2> QED
    BY <1>4, <1>5, <2>3
<1> QED
  BY <1>6

\* The smallest index of a set of indexes.
LEMMA SmallestIndex ==
  ASSUME NEW N \in Nat, NEW B \in SUBSET (1 .. N), B # {}
  PROVE  Min(B) \in B
<1>1. PICK m \in B : \A k \in B : m <= k
  BY Smallest
<1> QED
  BY <1>1 DEF Min

\* The first item of a role.
LEMMA DepIs ==
  ASSUME NEW ds, NEW role, \E i \in DOMAIN ds : ds[i][1] = role
  PROVE  \E i \in DOMAIN ds : ds[i][1] = role /\ Dep(ds, role) = ds[i][2]
BY DEF Dep

\* What an item uses in a role that it cannot be without.
LEMMA Used ==
  ASSUME NEW R, RegistryInv(R), NEW x \in DOMAIN mem, NEW role,
         \/ x[1] = "object" /\ role \in {"viewport", "type", "data"}
         \/ x[1] = "shader" /\ role = "decl"
  PROVE  LET y == Dep(Uses(R, x), role) IN
         y \in DOMAIN mem /\ y[1] = role /\ (x \in live => y \in live)
<1>1. Rules(R) /\ MemInv(R) /\ LiveInv(R)
  BY DEF RegistryInv, SceneInv
<1>2. Registered(R, x)
  BY <1>1 DEF MemInv
<1>3. \E i \in DOMAIN Uses(R, x) : Uses(R, x)[i][1] = role
  BY <1>1, <1>2, UsesShape
<1>4. PICK i \in DOMAIN Uses(R, x) :
        Uses(R, x)[i][1] = role /\ Dep(Uses(R, x), role) = Uses(R, x)[i][2]
  BY <1>3, DepIs
<1>5. Uses(R, x)[i][2][1] \in TablesOf(role)
  BY <1>1, <1>4, UsesShape
<1>6. TablesOf(role) = {role}
  BY DEF TablesOf
<1> QED
  BY <1>1, <1>4, <1>5, <1>6 DEF MemInv, LiveInv

(* An object's render key uses items in the tables for the parameters that are
   set.                                                                      *)
LEMMA ArgumentInUse ==
  ASSUME NEW R, RegistryInv(R), NEW a, NEW s, ActState(R, a, s), NEW o \in live, NEW param
  PROVE  ArgumentFor(s, o, param) \in live \cup {None}
<1>1. Rules(R) /\ MemInv(R) /\ LiveInv(R)
  BY DEF RegistryInv, SceneInv
<1>2. \A x \in live : x \in DOMAIN mem /\ s.mem[x].deps = Uses(R, x)
  BY <1>1 DEF LiveInv, ActState
<1>3. PICK n \in Nat : DOMAIN Uses(R, o) = 1 .. n
  BY <1>1, UsesShape
<1> DEFINE float  == param[1] = "fparam"
           kind   == IF float THEN "farg" ELSE "targ"
           deps   == s.mem[o].deps
           mine   == {i \in DOMAIN deps :
                        deps[i][2][1] = kind /\ s.mem[deps[i][2]].deps[1][2] = param}
           global == <<IF float THEN "gfarg" ELSE "gtarg", param[2]>>
<1>4. CASE mine # {}
  <2>1. mine \in SUBSET (1 .. n)
    BY <1>2, <1>3
  <2>2. Min(mine) \in mine
    BY <1>4, <2>1, SmallestIndex
  <2>3. Min(mine) \in DOMAIN Uses(R, o)
    BY <1>3, <2>1, <2>2
  <2> HIDE DEF mine
  <2>4. deps[Min(mine)][2] \in live
    BY <1>1, <1>2, <2>3 DEF LiveInv
  <2>5. ArgumentFor(s, o, param) = deps[Min(mine)][2]
    BY <1>4 DEF ArgumentFor, mine
  <2> QED
    BY <2>4, <2>5
<1>5. CASE mine = {} /\ global \in live
  <2>1. ArgumentFor(s, o, param) = s.mem[global].deps[1][2]
    BY <1>5 DEF ArgumentFor
  <2>2. global[1] \in {"gfarg", "gtarg"}
    OBVIOUS
  <2> HIDE DEF global
  <2>3. Registered(R, global)
    BY <1>1, <1>2, <1>5, <2>2 DEF MemInv
  <2>4. 1 \in DOMAIN Uses(R, global)
    BY <1>1, <2>2, <2>3, UsesShape
  <2>5. Uses(R, global)[1][2] \in live
    BY <1>1, <1>5, <2>4 DEF LiveInv
  <2> QED
    BY <1>2, <1>5, <2>1, <2>5
<1>6. CASE mine = {} /\ global \notin live
  BY <1>6 DEF ArgumentFor
<1> QED
  BY <1>4, <1>5, <1>6

(* The index of an item of a table that has one is less than the number of items
   clients may register.                                                     *)
LEMMA ActBounded ==
  ASSUME NEW R, RegistryInv(R), NEW a, NEW s, ActState(R, a, s),
         NEW array \in {"vps", "decls", "shdrs"}, NEW x \in DOMAIN mem, x[1] = TableFor[array],
         s.mem[x].act # None
  PROVE  /\ s.mem[x].act \in Nat
         /\ s.mem[x].act < Cardinality(ItemsOf(R, TableFor[array]))
         /\ Cardinality(ItemsOf(R, TableFor[array])) \in Nat
<1>1. SceneInv(R) /\ MemInv(R) /\ Rules(R) /\ IsFiniteSet(R)
  BY Limits DEF RegistryInv
<1>2. ArrayOK(s.mem, s[array], TableFor[array]) /\ DOMAIN s.mem = DOMAIN mem
  BY DEF ActState, TableFor
<1>3. \A y \in DOMAIN s.mem : y[1] = TableFor[array] => Registered(R, y)
  BY <1>1, <1>2 DEF MemInv, TableFor
<1>4. TableFor[array] \in {"viewport", "decl", "shader"}
  BY DEF TableFor
<1>5. /\ Len(s[array]) <= Cardinality(ItemsOf(R, TableFor[array]))
      /\ Cardinality(ItemsOf(R, TableFor[array])) \in Nat
  BY <1>1, <1>2, <1>3, <1>4, ArrayFits
<1>6. Len(s[array]) \in Nat /\ DOMAIN s[array] = 1 .. Len(s[array])
  BY <1>2, SequenceDomain DEF ArrayOK
<1>7. PICK i \in DOMAIN s[array] : s[array][i] = x
  BY <1>2 DEF ArrayOK, Range
<1>8. s.mem[x].act = i - 1
  BY <1>2, <1>7 DEF ArrayOK
<1> QED
  BY <1>5, <1>6, <1>7, <1>8

\* A number that is less than what fits a field of a render key fits.
LEMMA FieldFits ==
  ASSUME NEW number, NEW type, Fits(number, type), fields \in Range(FieldSetups),
         NEW i \in DOMAIN fields, fields[i][1] = type, number \in Nat,
         NEW v \in Nat, v < number
  PROVE  ~(v >= 2 ^ fields[i][2])
<1>1. PICK j \in DOMAIN FieldSetups : fields = FieldSetups[j]
  BY DEF Range
<1> DEFINE b == fields[i][2]
<1>2. number <= 2 ^ b /\ b \in Nat
  BY <1>1, LimitAssumption DEF Fits
<1> HIDE DEF b
<1>3. ~(v >= 2 ^ b)
  BY <1>2
<1> QED
  BY <1>3 DEF b

\* The passes k of an activation have no more passes than fit the field.
LEMMA PassFits ==
  ASSUME NEW R, RegistryInv(R), NEW k \in live, k[1] = "passes", fields \in Range(FieldSetups),
         NEW pass \in DOMAIN Uses(R, k), NEW i \in DOMAIN fields, fields[i][1] = "RenderPass"
  PROVE  ~(pass - 1 >= 2 ^ fields[i][2])
<1>1. SceneInv(R) /\ Rules(R) /\ LiveInv(R) /\ MemInv(R)
  BY DEF RegistryInv, SceneInv
<1>2. PICK r \in R : KeyIn(R, r) = k
  BY <1>1 DEF LiveInv, MemInv, Registered
<1>3. r.t = "passes"
  BY <1>1, <1>2, TableOfKey
<1>4. Uses(R, k) = UsesIn(R, r) /\ DOMAIN UsesIn(R, r) = DOMAIN r.uses
  BY <1>1, <1>2, <1>3, UsesOf, UsesInIs
<1>5. r.uses \in Seq(Range(r.uses))
  BY <1>1 DEF Rules, WellFormed
<1>6. Len(r.uses) \in Nat /\ DOMAIN r.uses = 1 .. Len(r.uses)
  BY <1>5
<1>7. Fits(Len(r.uses), "RenderPass")
  BY <1>1, <1>3, Limits
<1>8. pass \in 1 .. Len(r.uses)
  BY <1>4, <1>6
<1>9. pass - 1 \in Nat /\ pass - 1 < Len(r.uses)
  BY <1>6, <1>8
<1> QED
  BY <1>6, <1>7, <1>9, FieldFits

\* An index that fits the bits left for it is read back as it is.
LEMMA IndexRead ==
  ASSUME NEW n \in Nat, IndexBitsFit, ~(IndexBits < 32 /\ n >= 2 ^ IndexBits)
  PROVE  n % 2 ^ (IndexBits % 32) = n
<1>1. IndexBits \in Nat /\ IndexBits % 32 = IndexBits /\ IndexBits < 32
  BY DEF IndexBitsFit
<1> DEFINE m == 2 ^ IndexBits
<1>2. m \in Int
  BY <1>1
<1>3. ~(n >= m)
  BY <1>1
<1> HIDE DEF m
<1>4. n % m = n
  BY <1>2, <1>3, Z3
<1> QED
  BY <1>1, <1>4 DEF m

\* A new render key is at the index its object's key has, and has only live items.
LEMMA WithRenderKeyKeeps ==
  ASSUME NEW R, RegistryInv(R), fields \in Range(FieldSetups), NEW a, NEW s, ActState(R, a, s),
         NEW o \in Range(objs), NEW shader \in live, shader[1] = "shader",
         NEW k \in live, k[1] = "passes", NEW pass \in DOMAIN Uses(R, k),
         NEW p, p = Uses(R, k)[pass][2],
         s.mem[Dep(Uses(R, o), "viewport")].act # None, s.mem[shader].act # None,
         s.mem[Dep(Uses(R, shader), "decl")].act # None,
         NEW t, t = WithRenderKey(s, o, shader, p, pass)
  PROVE  ActState(R, a, t) /\ \A x \in DOMAIN mem : t.mem[x].act = s.mem[x].act
<1>1. SceneInv(R) /\ Rules(R) /\ LiveInv(R) /\ MemInv(R) /\ live \subseteq DOMAIN mem
  BY DEF RegistryInv, SceneInv, LiveInv
<1>2. o \in DOMAIN mem /\ o[1] = "object"
  BY DEF RegistryInv, ObjsInv, Range
<1>3. \A x \in DOMAIN mem : s.mem[x].deps = Uses(R, x)
  BY DEF ActState
<1> DEFINE args == Arguments(s, o, shader)
           viewport == Dep(Uses(R, o), "viewport")
           decl == Dep(Uses(R, shader), "decl")
           key == [object |-> o, viewport |-> viewport, pass |-> p, shader |-> shader,
                   decl |-> decl, args |-> args]
           sort == RenderKey(s, key, pass, Len(s.rkeys))
           unset == Fault(None \in args, "ParameterNotSet")
           wide == Fault(\E i \in DOMAIN fields : sort.values[i] >= 2 ^ fields[i][2], "FieldBits")
           over == Fault(Len(s.rkeys) >= MaxActive.rkeys, "RenderKeysFull")
           high == Fault(IndexBits < 32 /\ sort.index >= 2 ^ IndexBits, "KeyIndex")
<1>4. t = [s EXCEPT !.rkeys = Append(@, key), !.mem[o].keys = Append(@, sort),
                    !.faults = @ \cup unset \cup wide \cup over \cup high]
  BY <1>1, <1>2, <1>3 DEF WithRenderKey
<1>5. /\ viewport \in DOMAIN mem /\ viewport[1] = "viewport" /\ (o \in live => viewport \in live)
      /\ decl \in live /\ decl[1] = "decl"
  BY <1>1, <1>2, Used
<1>6. p \in live
  BY <1>1 DEF LiveInv
<1> HIDE DEF viewport, decl
<1>7. \A i \in DOMAIN fields : ~(sort.values[i] >= 2 ^ fields[i][2])
  <2> DEFINE value == [ViewPort |-> s.mem[viewport].act, RenderPass |-> pass - 1,
                       VertexDecl |-> s.mem[decl].act, Shader |-> s.mem[shader].act,
                       Depth |-> 0, ArbitraryNumber |-> 0]
  <2>1. sort.values = [i \in 1 .. Len(fields) |-> value[fields[i][1]]]
    BY DEF RenderKey
  <2>2. PICK j \in DOMAIN FieldSetups : fields = FieldSetups[j]
    BY DEF Range
  <2>3. /\ fields \in Seq(Range(fields))
        /\ \A i \in DOMAIN fields : fields[i][1] \in FieldTypes /\ fields[i][2] \in Nat
                                        /\ 0 < 2 ^ fields[i][2]
    BY <2>2, LimitAssumption
  <2>4. DOMAIN fields = 1 .. Len(fields)
    BY <2>3
  <2> HIDE DEF sort
  <2>5. ASSUME NEW i \in DOMAIN fields PROVE ~(value[fields[i][1]] >= 2 ^ fields[i][2])
    <3>1. CASE fields[i][1] = "ViewPort"
      <4>1. /\ s.mem[viewport].act \in Nat
            /\ s.mem[viewport].act < Cardinality(ItemsOf(R, "viewport"))
            /\ Cardinality(ItemsOf(R, "viewport")) \in Nat
        BY <1>5, ActBounded DEF TableFor, viewport
      <4>2. value[fields[i][1]] = s.mem[viewport].act
        BY <3>1
      <4>3. Fits(Cardinality(ItemsOf(R, "viewport")), "ViewPort")
        BY <1>1, Limits
      <4> QED
        BY <3>1, <4>1, <4>2, <4>3, FieldFits
    <3>2. CASE fields[i][1] = "RenderPass"
      <4>1. value[fields[i][1]] = pass - 1
        BY <3>2
      <4> HIDE DEF value
      <4> QED
        BY <3>2, <4>1, PassFits
    <3>3. CASE fields[i][1] = "VertexDecl"
      <4>1. /\ s.mem[decl].act \in Nat
            /\ s.mem[decl].act < Cardinality(ItemsOf(R, "decl"))
            /\ Cardinality(ItemsOf(R, "decl")) \in Nat
        BY <1>1, <1>5, ActBounded DEF TableFor, decl
      <4>2. value[fields[i][1]] = s.mem[decl].act
        BY <3>3
      <4>3. Fits(Cardinality(ItemsOf(R, "decl")), "VertexDecl")
        BY <1>1, Limits
      <4> QED
        BY <3>3, <4>1, <4>2, <4>3, FieldFits
    <3>4. CASE fields[i][1] = "Shader"
      <4>1. /\ s.mem[shader].act \in Nat
            /\ s.mem[shader].act < Cardinality(ItemsOf(R, "shader"))
            /\ Cardinality(ItemsOf(R, "shader")) \in Nat
        BY <1>1, ActBounded DEF TableFor
      <4>2. value[fields[i][1]] = s.mem[shader].act
        BY <3>4
      <4>3. Fits(Cardinality(ItemsOf(R, "shader")), "Shader")
        BY <1>1, Limits
      <4> QED
        BY <3>4, <4>1, <4>2, <4>3, FieldFits
    <3>5. CASE fields[i][1] \in {"Depth", "ArbitraryNumber"}
      <4>1. value[fields[i][1]] = 0
        BY <3>5
      <4>2. ~(0 >= 2 ^ fields[i][2])
        BY <2>3
      <4> QED
        BY <4>1, <4>2
    <3> QED
      BY <2>3, <3>1, <3>2, <3>3, <3>4, <3>5 DEF FieldTypes
  <2> QED
    BY <2>1, <2>4, <2>5
<1>8. wide = {}
  BY <1>7 DEF Fault
<1>9. o \in live => Activates(key) \ {None} \subseteq live
  <2>1. ASSUME o \in live PROVE args \subseteq live \cup {None}
    BY <2>1, ArgumentInUse DEF Arguments
  <2>2. Activates(key) = {viewport, p, shader, decl} \cup args
    BY DEF Activates
  <2> QED
    BY <1>5, <1>6, <2>1, <2>2
<1>10. key.object = o /\ sort.index = Len(s.rkeys) /\ Activates(key) = {viewport, p, shader, decl} \cup args
  BY DEF RenderKey, Activates
<1>25. \/ high = {"KeyIndex"}
       \/ high = {} /\ ~(IndexBits < 32 /\ sort.index >= 2 ^ IndexBits)
  <2> HIDE DEF sort
  <2> QED
    BY DEF Fault
<1> HIDE DEF key, sort, args, wide, high, over
<1> DEFINE m == [s.mem EXCEPT ![o].keys = Append(@, sort)]
           rk == Append(s.rkeys, key)
<1>11. /\ DOMAIN s = {"mem", "vps", "decls", "shdrs", "rkeys", "pool", "faults"}
       /\ DOMAIN s.mem = DOMAIN mem /\ IsEntry(s.mem[o]) /\ IsSeq(s.rkeys)
  BY <1>2 DEF ActState
<1> HIDE DEF unset
<1>12. /\ DOMAIN t = DOMAIN s /\ t.mem = m /\ t.rkeys = rk
       /\ t.faults = s.faults \cup unset \cup over \cup high
       /\ t.vps = s.vps /\ t.decls = s.decls /\ t.shdrs = s.shdrs /\ t.pool = s.pool
  BY <1>4, <1>8, <1>11
<1>13. /\ DOMAIN m = DOMAIN mem /\ m[o] = [s.mem[o] EXCEPT !.keys = Append(@, sort)]
       /\ \A x \in DOMAIN mem : x # o => m[x] = s.mem[x]
  BY <1>2, <1>11
<1>14. /\ IsSeq(Append(s.mem[o].keys, sort))
       /\ DOMAIN Append(s.mem[o].keys, sort) = 1 .. Len(s.mem[o].keys) + 1
       /\ DOMAIN s.mem[o].keys = 1 .. Len(s.mem[o].keys) /\ Len(s.mem[o].keys) \in Nat
       /\ \A i \in DOMAIN s.mem[o].keys : Append(s.mem[o].keys, sort)[i] = s.mem[o].keys[i]
       /\ Append(s.mem[o].keys, sort)[Len(s.mem[o].keys) + 1] = sort
  BY <1>11, InsertedLast, SequenceDomain DEF IsEntry
<1>15. /\ IsSeq(rk) /\ DOMAIN rk = 1 .. Len(s.rkeys) + 1 /\ rk[Len(s.rkeys) + 1] = key
       /\ DOMAIN s.rkeys = 1 .. Len(s.rkeys) /\ Len(s.rkeys) \in Nat
       /\ \A i \in DOMAIN s.rkeys : rk[i] = s.rkeys[i]
  BY <1>11, InsertedLast, SequenceDomain
<1> HIDE DEF m, rk
<1>16. /\ IsEntry(m[o]) /\ m[o].keys = Append(s.mem[o].keys, sort) /\ m[o].bufs = s.mem[o].bufs
       /\ m[o].deps = s.mem[o].deps /\ m[o].refs = s.mem[o].refs /\ m[o].act = s.mem[o].act
  BY <1>11, <1>13, <1>14 DEF IsEntry
<1>17. \A x \in DOMAIN mem :
         /\ IsEntry(m[x]) /\ m[x].deps = s.mem[x].deps /\ m[x].bufs = s.mem[x].bufs
         /\ m[x].refs = s.mem[x].refs /\ m[x].act = s.mem[x].act
         /\ x # o => m[x].keys = s.mem[x].keys
  BY <1>13, <1>16 DEF ActState
<1>18. ArrayOK(m, s.vps, "viewport") /\ ArrayOK(m, s.decls, "decl") /\ ArrayOK(m, s.shdrs, "shader")
  BY <1>11, <1>13, <1>17, ArrayStays DEF ActState
<1>19. ASSUME KeysSelect(s.mem, s.rkeys), None \notin args, "KeyIndex" \notin high
       PROVE  KeysSelect(m, rk)
  <2>1. ASSUME NEW e, NEW x, Selects(s.rkeys, e, x) PROVE Selects(rk, e, x)
    BY <1>15, <2>1 DEF Selects
  <2>2. ASSUME o \in live PROVE Selects(rk, sort, o)
    <3>1. None \notin live
      BY <1>1 DEF LiveInv
    <3>2. None \notin Activates(key)
      BY <1>5, <1>6, <1>10, <1>19, <2>2, <3>1
    <3>3. Activates(key) \subseteq live
      BY <1>9, <2>2, <3>2
    <3>4. sort.index + 1 \in DOMAIN rk /\ rk[sort.index + 1] = key
      BY <1>10, <1>15
    <3>5. IndexBitsFit => RenderIndex(sort) = sort.index
      <4>1. sort.index \in Nat
        BY <1>10, <1>15
      <4> QED
        BY <1>19, <1>25, <4>1, IndexRead DEF RenderIndex
    <3> QED
      BY <1>10, <3>3, <3>4, <3>5 DEF Selects
  <2>3. ASSUME NEW x \in live, NEW i \in DOMAIN m[x].keys PROVE Selects(rk, m[x].keys[i], x)
    <3>1. CASE x # o
      BY <1>1, <1>17, <1>19, <2>1, <2>3, <3>1 DEF KeysSelect
    <3>2. CASE x = o /\ i \in DOMAIN s.mem[o].keys
      BY <1>14, <1>16, <1>19, <2>1, <2>3, <3>2 DEF KeysSelect
    <3>3. CASE x = o /\ i = Len(s.mem[o].keys) + 1
      BY <1>14, <1>16, <2>2, <3>3
    <3>4. ASSUME x = o PROVE i \in DOMAIN s.mem[o].keys \/ i = Len(s.mem[o].keys) + 1
      <4> DEFINE n == Len(s.mem[o].keys)
      <4>1. n \in Nat /\ i \in 1 .. n + 1 /\ DOMAIN s.mem[o].keys = 1 .. n
        BY <1>14, <1>16, <3>4
      <4> HIDE DEF n
      <4>2. i \in 1 .. n \/ i = n + 1
        BY <4>1
      <4> QED
        BY <4>1, <4>2 DEF n
    <3> QED
      BY <3>1, <3>2, <3>3, <3>4
  <2> QED
    BY <2>3 DEF KeysSelect
<1>20. /\ unset = IF None \in args THEN {"ParameterNotSet"} ELSE {}
       /\ over \subseteq {"RenderKeysFull"}
  BY DEF unset, over, Fault
<1>21. t.faults \subseteq Unprepared \cup Misfit
  BY <1>12, <1>20, <1>25 DEF ActState, Unprepared
<1>22. "ParameterNotSet" \in t.faults \/ "KeyIndex" \in t.faults \/ KeysSelect(m, rk)
  <2>1. \/ "ParameterNotSet" \in s.faults \/ "KeyIndex" \in s.faults
        \/ KeysSelect(s.mem, s.rkeys)
    BY DEF ActState
  <2> QED
    BY <1>12, <1>19, <1>20, <2>1
<1> QED
  BY <1>1, <1>11, <1>12, <1>13, <1>15, <1>17, <1>18, <1>21, <1>22 DEF ActState

\* One object in one pass.
LEMMA ActivateInPassKeeps ==
  ASSUME NEW R, RegistryInv(R), fields \in Range(FieldSetups), NEW a, NEW s, ActState(R, a, s),
         NEW o \in Range(objs), NEW k \in live, k[1] = "passes", NEW pass \in DOMAIN Uses(R, k),
         s.mem[Dep(Uses(R, o), "viewport")].act # None,
         NEW t, t = ActivateInPass(s, o, k, pass)
  PROVE  Continues(R, a, s, t)
<1>1. LiveInv(R) /\ live \subseteq DOMAIN mem
  BY DEF RegistryInv, LiveInv
<1>2. o \in DOMAIN mem /\ o[1] = "object"
  BY DEF RegistryInv, ObjsInv, Range
<1>3. \A x \in DOMAIN mem : s.mem[x].deps = Uses(R, x)
  BY DEF ActState
<1> DEFINE viewport == Dep(Uses(R, o), "viewport")
           data   == Dep(Uses(R, o), "data")
           type   == Dep(Uses(R, o), "type")
           p      == Uses(R, k)[pass][2]
           shader == <<"shader", LookupName(TypeBase(type), PassVariant(p))>>
           decl   == Dep(Uses(R, shader), "decl")
           u      == Indexed(s, "shdrs", shader)
           v      == Indexed(u, "decls", decl)
           w      == WithBuffer(v, data, decl)
<1>4. shader[1] = "shader"
  OBVIOUS
<1>5. s.mem[o].deps = Uses(R, o) /\ s.mem[k].deps = Uses(R, k)
      /\ (shader \in live => s.mem[shader].deps = Uses(R, shader))
  BY <1>1, <1>2, <1>3
<1>6. t = IF shader \notin live THEN s ELSE WithRenderKey(w, o, shader, p, pass)
  BY <1>5 DEF ActivateInPass
<1> HIDE DEF shader
<1>7. CASE shader \notin live
  BY <1>6, <1>7 DEF Continues
<1>8. CASE shader \in live
  <2>1. viewport \in DOMAIN mem /\ data \in DOMAIN mem /\ decl \in live /\ decl[1] = "decl"
    BY <1>1, <1>2, <1>4, <1>8, Used
  <2> HIDE DEF viewport, data, decl, p, u, v, w
  <2>2. /\ ActState(R, a, u) /\ u.mem[shader].act # None
        /\ \A x \in DOMAIN mem : s.mem[x].act # None => u.mem[x].act # None
    BY <1>1, <1>4, <1>8, IndexedKeeps DEF TableFor, u
  <2>3. /\ ActState(R, a, v) /\ v.mem[decl].act # None
        /\ \A x \in DOMAIN mem : u.mem[x].act # None => v.mem[x].act # None
    BY <1>1, <2>1, <2>2, IndexedKeeps DEF TableFor, v
  <2>4. ActState(R, a, w) /\ \A x \in DOMAIN mem : w.mem[x].act = v.mem[x].act
    BY <2>1, <2>3, WithBufferKeeps DEF w
  <2>5. w.mem[viewport].act # None /\ w.mem[shader].act # None /\ w.mem[decl].act # None
    BY <1>1, <1>8, <2>1, <2>2, <2>3, <2>4 DEF viewport
  <2>6. ActState(R, a, t) /\ \A x \in DOMAIN mem : t.mem[x].act = w.mem[x].act
    BY <1>4, <1>6, <1>8, <2>4, <2>5, WithRenderKeyKeeps DEF viewport, decl, p
  <2> QED
    BY <2>2, <2>3, <2>4, <2>6 DEF Continues
<1> QED
  BY <1>7, <1>8

(* The passes of an activation are taken in their order, each from what the one
   before leaves: a function that says so exists, from a least number of passes
   for which there is none.                                                  *)
LEMMA PassByPass ==
  ASSUME NEW first, NEW o, NEW k, NEW N \in Nat
  PROVE  \E h : h = [pass \in 0 .. N |->
                       IF pass = 0 THEN first ELSE ActivateInPass(h[pass - 1], o, k, pass)]
<1> DEFINE Is(h, n) == h = [pass \in 0 .. n |->
                              IF pass = 0 THEN first
                              ELSE ActivateInPass(h[pass - 1], o, k, pass)]
           B == {n \in 0 .. N : ~\E h : Is(h, n)}
<1>1. ASSUME B # {} PROVE FALSE
  <2>1. B \in SUBSET (0 .. N)
    OBVIOUS
  <2>2. PICK m \in B : \A n \in B : m <= n
    BY <1>1, <2>1, Smallest
  <2>3. m \in Nat /\ m <= N
    BY <2>1, <2>2
  <2>4. CASE m = 0
    <3> DEFINE h == [pass \in 0 .. 0 |-> first]
    <3>1. \A i \in 0 .. 0 : i = 0
      OBVIOUS
    <3>2. Is(h, 0)
      BY <3>1
    <3> QED
      BY <2>2, <2>4, <3>2
  <2>5. CASE m # 0
    <3>1. m - 1 \in 0 .. N /\ ~(m <= m - 1)
      BY <2>3, <2>5
    <3>2. m - 1 \notin B
      BY <2>2, <3>1
    <3>3. PICK g : Is(g, m - 1)
      BY <3>1, <3>2
    <3> DEFINE h == [pass \in 0 .. m |->
                       IF pass = 0 THEN first ELSE ActivateInPass(g[pass - 1], o, k, pass)]
    <3>4. \A i \in 0 .. m - 1 : h[i] = g[i]
      <4>1. \A i \in 0 .. m - 1 : i \in 0 .. m
        BY <2>3
      <4>2. \A i \in 0 .. m - 1 :
              g[i] = IF i = 0 THEN first ELSE ActivateInPass(g[i - 1], o, k, i)
        BY <3>3
      <4> QED
        BY <4>1, <4>2
    <3>5. \A i \in 0 .. m : i # 0 => i - 1 \in 0 .. m - 1
      BY <2>3
    <3>6. Is(h, m)
      BY <3>4, <3>5
    <3> QED
      BY <2>2, <3>6
  <2> QED
    BY <2>4, <2>5
<1>2. N \in 0 .. N
  OBVIOUS
<1>3. \E h : Is(h, N)
  BY <1>1, <1>2
<1> QED
  BY <1>3

\* One object in all passes, by the least pass that would not keep the state.
LEMMA ActivateObjectKeeps ==
  ASSUME NEW R, RegistryInv(R), fields \in Range(FieldSetups), NEW a, NEW s, ActState(R, a, s),
         NEW o \in Range(objs), NEW k \in live, k[1] = "passes",
         NEW t, t = ActivateObject(s, o, k)
  PROVE  ActState(R, a, t)
<1>1. LiveInv(R) /\ live \subseteq DOMAIN mem /\ Rules(R)
  BY DEF RegistryInv, LiveInv, SceneInv
<1>2. o \in DOMAIN mem /\ o[1] = "object"
  BY DEF RegistryInv, ObjsInv, Range
<1>3. s.mem[o].deps = Uses(R, o) /\ s.mem[k].deps = Uses(R, k)
  BY <1>1, <1>2 DEF ActState
<1> DEFINE viewport == Dep(Uses(R, o), "viewport")
           first == Indexed(s, "vps", viewport)
           N == Len(Uses(R, k))
           h == CHOOSE h : h = [pass \in 0 .. N |->
                  IF pass = 0 THEN first ELSE ActivateInPass(h[pass - 1], o, k, pass)]
<1>4. N \in Nat /\ DOMAIN Uses(R, k) = 1 .. N
  BY <1>1, UsesShape
<1>5. t = h[N]
  BY <1>3 DEF ActivateObject
<1>6. viewport \in DOMAIN mem /\ viewport[1] = "viewport"
  BY <1>2, Used
<1> HIDE DEF viewport, N
<1>7. ActState(R, a, first) /\ first.mem[viewport].act # None
  BY <1>6, IndexedKeeps DEF TableFor
<1> HIDE DEF first
<1>8. h = [pass \in 0 .. N |-> IF pass = 0 THEN first ELSE ActivateInPass(h[pass - 1], o, k, pass)]
  BY <1>4, PassByPass
<1> HIDE DEF h
<1> DEFINE Good(i) == ActState(R, a, h[i]) /\ h[i].mem[viewport].act # None
           B == {i \in 0 .. N : ~Good(i)}
<1>9. B = {}
  <2> SUFFICES ASSUME B # {} PROVE FALSE
    OBVIOUS
  <2>1. B \in SUBSET (0 .. N)
    OBVIOUS
  <2>2. PICK m \in B : \A n \in B : m <= n
    BY <1>4, <2>1, Smallest
  <2>3. m \in Nat /\ m \in 0 .. N
    BY <1>4, <2>1, <2>2
  <2>4. CASE m = 0
    BY <1>7, <1>8, <2>2, <2>3, <2>4
  <2>5. CASE m # 0
    <3>1. m - 1 \in 0 .. N /\ ~(m <= m - 1) /\ m \in 1 .. N
      BY <1>4, <2>3, <2>5
    <3>2. Good(m - 1)
      BY <2>2, <3>1
    <3>3. h[m] = ActivateInPass(h[m - 1], o, k, m)
      BY <1>8, <2>3, <2>5
    <3>4. m \in DOMAIN Uses(R, k)
      BY <1>4, <3>1
    <3>5. Continues(R, a, h[m - 1], h[m])
      BY <3>2, <3>3, <3>4, ActivateInPassKeeps DEF viewport
    <3>6. Good(m)
      BY <1>6, <3>2, <3>5 DEF Continues
    <3> QED
      BY <2>2, <3>6
  <2> QED
    BY <2>4, <2>5
<1> QED
  BY <1>4, <1>5, <1>9

\* Likewise for the objects, in the order of gRenderObjArray.
Steps(h, s, k, N) ==
  h = [i \in 0 .. N |-> IF i = 0 THEN s ELSE ActivateObject(h[i - 1], objs[i], k)]

\* There is such a function, from a least number of objects for which there is none.
LEMMA ObjectByObject ==
  ASSUME NEW s, NEW k, NEW N \in Nat
  PROVE  \E h : Steps(h, s, k, N)
<1> DEFINE Is(h, n) == h = [i \in 0 .. n |->
                              IF i = 0 THEN s ELSE ActivateObject(h[i - 1], objs[i], k)]
           B == {n \in 0 .. N : ~\E h : Is(h, n)}
<1>1. ASSUME B # {} PROVE FALSE
  <2>1. B \in SUBSET (0 .. N)
    OBVIOUS
  <2>2. PICK m \in B : \A n \in B : m <= n
    BY <1>1, <2>1, Smallest
  <2>3. m \in Nat /\ m <= N
    BY <2>1, <2>2
  <2>4. CASE m = 0
    <3> DEFINE h == [i \in 0 .. 0 |-> s]
    <3>1. \A i \in 0 .. 0 : i = 0
      OBVIOUS
    <3>2. Is(h, 0)
      BY <3>1
    <3> QED
      BY <2>2, <2>4, <3>2
  <2>5. CASE m # 0
    <3>1. m - 1 \in 0 .. N /\ ~(m <= m - 1)
      BY <2>3, <2>5
    <3>2. m - 1 \notin B
      BY <2>2, <3>1
    <3>3. PICK g : Is(g, m - 1)
      BY <3>1, <3>2
    <3> DEFINE h == [i \in 0 .. m |-> IF i = 0 THEN s ELSE ActivateObject(g[i - 1], objs[i], k)]
    <3>4. \A i \in 0 .. m - 1 : h[i] = g[i]
      <4>1. \A i \in 0 .. m - 1 : i \in 0 .. m
        BY <2>3
      <4>2. \A i \in 0 .. m - 1 :
              g[i] = IF i = 0 THEN s ELSE ActivateObject(g[i - 1], objs[i], k)
        BY <3>3
      <4> QED
        BY <4>1, <4>2
    <3>5. \A i \in 0 .. m : i # 0 => i - 1 \in 0 .. m - 1
      BY <2>3
    <3>6. Is(h, m)
      BY <3>4, <3>5
    <3> QED
      BY <2>2, <3>6
  <2> QED
    BY <2>4, <2>5
<1>2. N \in 0 .. N
  OBVIOUS
<1>3. \E h : Is(h, N)
  BY <1>1, <1>2
<1> QED
  BY <1>3 DEF Steps

\* All objects, by the least object that would not keep the state.
LEMMA ActivateObjectsKeeps ==
  ASSUME NEW R, RegistryInv(R), fields \in Range(FieldSetups), NEW a, NEW s, ActState(R, a, s),
         NEW k \in live, k[1] = "passes", NEW t, t = ActivateObjects(s, k)
  PROVE  ActState(R, a, t)
<1> DEFINE N == Len(objs)
           h == CHOOSE h : h = [i \in 0 .. N |->
                  IF i = 0 THEN s ELSE ActivateObject(h[i - 1], objs[i], k)]
<1>1. N \in Nat /\ DOMAIN objs = 1 .. N
  BY SequenceDomain DEF RegistryInv, ObjsInv
<1>2. t = h[N]
  BY DEF ActivateObjects
<1> HIDE DEF N
<1>3. h = [i \in 0 .. N |-> IF i = 0 THEN s ELSE ActivateObject(h[i - 1], objs[i], k)]
  <2>1. PICK g : Steps(g, s, k, N)
    BY <1>1, ObjectByObject
  <2>2. g = [i \in 0 .. N |-> IF i = 0 THEN s ELSE ActivateObject(g[i - 1], objs[i], k)]
    BY <2>1 DEF Steps
  <2> QED
    BY <2>2
<1> HIDE DEF h
<1> DEFINE B == {i \in 0 .. N : ~ActState(R, a, h[i])}
<1>4. B = {}
  <2> SUFFICES ASSUME B # {} PROVE FALSE
    OBVIOUS
  <2>1. B \in SUBSET (0 .. N)
    OBVIOUS
  <2>2. PICK m \in B : \A n \in B : m <= n
    BY <1>1, <2>1, Smallest
  <2>3. m \in Nat /\ m \in 0 .. N
    BY <1>1, <2>1, <2>2
  <2>4. CASE m = 0
    BY <1>3, <2>2, <2>3, <2>4
  <2>5. CASE m # 0
    <3>1. m - 1 \in 0 .. N /\ ~(m <= m - 1) /\ m \in 1 .. N
      BY <1>1, <2>3, <2>5
    <3>2. ActState(R, a, h[m - 1])
      BY <2>2, <3>1
    <3>3. h[m] = ActivateObject(h[m - 1], objs[m], k)
      BY <1>3, <2>3, <2>5
    <3>4. objs[m] \in Range(objs)
      BY <1>1, <3>1 DEF Range
    <3>5. ActState(R, a, h[m])
      BY <3>2, <3>3, <3>4, ActivateObjectKeeps
    <3> QED
      BY <2>2, <3>5
  <2> QED
    BY <2>4, <2>5
<1> QED
  BY <1>1, <1>2, <1>4

------------------------------------------------------------------------------
(* The activation and what is enqueued                                       *)

\* Who is about to copy keys has slots for them, which nobody else has.
CopiesInv ==
  /\ DOMAIN copies = Clients
  /\ \A c \in Clients : copies[c] # None =>
       /\ active # None /\ copies[c].object \in live
       /\ copies[c].at \in Nat
       /\ copies[c].at + Len(mem[copies[c].object].keys) <= Len(enqueued)
  /\ \A c, d \in Clients :
       c # d /\ copies[c] # None /\ copies[d] # None => Reserved(c) \cap Reserved(d) = {}

(* What is active has its index, the objects' render keys and the current ones
   among the enqueued select render keys of the activation, if there is one, what
   clients are about to enqueue has slots of its own, and no assertion has failed
   but that of PrepareDraw.                                                  *)
SessionInv(R) ==
  /\ ArrayOK(mem, vps, "viewport") /\ ArrayOK(mem, decls, "decl")
  /\ ArrayOK(mem, shdrs, "shader")
  /\ IsSeq(pool) /\ IsSeq(rkeys) /\ IsSeq(enqueued)
  /\ \A k \in DOMAIN mem : mem[k].keys # <<>> => k \in Range(objs)
  /\ active # None => active \in live /\ active[1] = "passes"
  /\ active = None => IdleInv
  /\ KeysSelect(mem, rkeys)
  /\ \A i \in DOMAIN enqueued :
       /\ DOMAIN enqueued[i] = {"key", "object", "current"}
       /\ enqueued[i].current => Selects(rkeys, enqueued[i].key, enqueued[i].object)
  /\ fields \in Range(FieldSetups) /\ faults \subseteq Misfit
  /\ CopiesInv /\ (~up => active = None)

\* What is in the tables is referred to, the active passes also by a client.
LEMMA CountPositive ==
  ASSUME NEW R, RegistryInv(R), active # None => active[1] = "passes", NEW x \in live
  PROVE  Count(R, x) \in Nat /\ Count(R, x) > 0
<1>1. LiveInv(R) /\ CountInv(R)
  BY DEF RegistryInv
<1> DEFINE H == Cardinality(HeldOf(R, own, x))
           U == Cardinality(UsesTo(R, live, x))
<1>2. H \in Nat /\ (H # 0 <=> \E c \in Clients : \E q \in own[c] : KeyIn(R, q) = x)
  BY <1>1, NoHolders DEF CountInv
<1>3. U \in Nat
  BY <1>1, NoUses DEF CountInv
<1>4. mem[x].refs = H + U + (IF active = x THEN 1 ELSE 0) /\ mem[x].refs > 0
  BY <1>1 DEF CountInv
<1>5. active = x => H # 0
  <2>1. ASSUME active = x PROVE x[1] = "passes"
    BY <1>1, <2>1 DEF LiveInv
  <2> QED
    BY <1>1, <1>2, <2>1 DEF LiveInv
<1> HIDE DEF H, U
<1>6. H + U \in Nat /\ H + U > 0
  BY <1>2, <1>3, <1>4, <1>5
<1> QED
  BY <1>6 DEF Count, H, U

\* Without an activation the state is one that an activation may start from.
LEMMA Idle ==
  ASSUME NEW R, RegistryInv(R), SessionInv(R), active = None
  PROVE  ActState(R, None, Now)
<1>1. /\ LiveInv(R) /\ MemInv(R) /\ CountInv(R) /\ live \subseteq DOMAIN mem /\ None \notin live
  BY DEF RegistryInv, LiveInv
<1>2. /\ DOMAIN Now = {"mem", "vps", "decls", "shdrs", "rkeys", "pool", "faults"}
      /\ Now.mem = mem /\ Now.vps = vps /\ Now.decls = decls /\ Now.shdrs = shdrs
      /\ Now.rkeys = rkeys /\ Now.pool = pool /\ Now.faults = faults
  BY DEF Now
<1>3. \A x \in DOMAIN mem :
        /\ IsEntry(mem[x]) /\ mem[x].deps = Uses(R, x) /\ Range(mem[x].bufs) \subseteq DOMAIN pool
        /\ mem[x].keys # <<>> => x \in Range(objs)
  BY <1>1 DEF MemInv, SessionInv
<1>4. \A x \in live : mem[x].refs = Count(R, x) + IF None = x THEN 1 ELSE 0
  BY <1>1 DEF CountInv, Count
<1> QED
  BY <1>2, <1>3, <1>4 DEF ActState, SessionInv

(* The end of an activation takes all indexes and render keys back and makes no
   assertion fail.                                                           *)
LEMMA DeactivatedIs ==
  ASSUME NEW R, RegistryInv(R), SessionInv(R), active # None,
         NEW s, s = Deactivated(Now)
  PROVE  /\ ActState(R, None, s) /\ s.faults = faults
         /\ s.vps = <<>> /\ s.decls = <<>> /\ s.shdrs = <<>>
         /\ \A x \in DOMAIN mem : s.mem[x].keys = <<>> /\
              (x[1] \in {"viewport", "decl", "shader"} => s.mem[x].act = None)
<1>1. /\ LiveInv(R) /\ MemInv(R) /\ CountInv(R) /\ ObjsInv
      /\ live \subseteq DOMAIN mem /\ None \notin live
  BY DEF RegistryInv, LiveInv
<1>2. /\ DOMAIN Now = {"mem", "vps", "decls", "shdrs", "rkeys", "pool", "faults"}
      /\ Now.mem = mem /\ Now.vps = vps /\ Now.decls = decls /\ Now.shdrs = shdrs
      /\ Now.rkeys = rkeys /\ Now.pool = pool /\ Now.faults = faults
  BY DEF Now
<1>3. /\ \A x \in Range(vps) : x[1] = "viewport"
      /\ \A x \in Range(decls) : x[1] = "decl"
      /\ \A x \in Range(shdrs) : x[1] = "shader"
      /\ \A x \in Range(objs) : x[1] = "object"
      /\ \A i \in DOMAIN vps : mem[vps[i]].act = i - 1
      /\ \A i \in DOMAIN decls : mem[decls[i]].act = i - 1
      /\ \A i \in DOMAIN shdrs : mem[shdrs[i]].act = i - 1
  BY <1>1 DEF SessionInv, ArrayOK, ObjsInv, Range
<1>4. active \in live /\ active[1] = "passes"
  BY DEF SessionInv
<1> DEFINE indexed == Range(vps) \cup Range(decls) \cup Range(shdrs)
<1>5. \A x \in DOMAIN mem :
        ResetEntry(Now, x) = IF x \in indexed THEN [mem[x] EXCEPT !.act = None]
                             ELSE IF x \in Range(objs) THEN [mem[x] EXCEPT !.keys = <<>>]
                             ELSE IF x = active THEN [mem[x] EXCEPT !.refs = @ - 1]
                             ELSE mem[x]
  <2>1. ASSUME NEW x PROVE /\ x \in indexed => x \notin Range(objs) /\ x # active
                           /\ x \in Range(objs) => x # active
    BY <1>3, <1>4
  <2>2. ASSUME NEW x \in DOMAIN mem
        PROVE  ResetEntry(Now, x) = CASE x \in indexed -> [mem[x] EXCEPT !.act = None]
                                      [] x \in Range(objs) -> [mem[x] EXCEPT !.keys = <<>>]
                                      [] x = active -> [mem[x] EXCEPT !.refs = @ - 1]
                                      [] OTHER -> mem[x]
    BY <1>2 DEF ResetEntry
  <2> HIDE DEF indexed
  <2> QED
    BY <2>1, <2>2
<1>6. mem[active].refs # 1
  <2>1. mem[active].refs = Count(R, active) + 1
    BY <1>1, <1>4 DEF CountInv, Count
  <2>2. Count(R, active) \in Nat /\ Count(R, active) > 0
    BY <1>4, CountPositive
  <2> QED
    BY <2>1, <2>2
<1> DEFINE m == [x \in DOMAIN mem |-> ResetEntry(Now, x)]
<1>7. /\ DOMAIN s = {"mem", "vps", "decls", "shdrs", "rkeys", "pool", "faults"}
      /\ s.mem = m /\ s.vps = <<>> /\ s.decls = <<>> /\ s.shdrs = <<>> /\ s.rkeys = <<>>
      /\ s.pool = pool /\ s.faults = faults
  <2>1. s = [Now EXCEPT !.mem = m, !.vps = <<>>, !.decls = <<>>, !.shdrs = <<>>, !.rkeys = <<>>,
                        !.faults = @ \cup {} \cup {} \cup {} \cup {}]
    BY <1>2, <1>3, <1>6 DEF Deactivated, Fault
  <2> HIDE DEF m
  <2> QED
    BY <1>2, <2>1
<1>8. ASSUME NEW x \in DOMAIN mem
      PROVE  /\ IsEntry(m[x]) /\ m[x].deps = mem[x].deps /\ m[x].bufs = mem[x].bufs
             /\ m[x].refs = mem[x].refs - IF active = x THEN 1 ELSE 0
             /\ m[x].keys = <<>>
             /\ x[1] \in {"viewport", "decl", "shader"} => m[x].act = None
  <2>1. IsEntry(mem[x]) /\ (mem[x].keys # <<>> => x \in Range(objs))
    BY <1>1 DEF MemInv, SessionInv
  <2>2. /\ DOMAIN mem[x] = {"refs", "deps", "act", "bufs", "keys"}
        /\ mem[x].refs \in Nat /\ mem[x].act \in Nat \cup {None}
        /\ IsSeq(mem[x].bufs) /\ IsSeq(mem[x].keys)
    BY <2>1 DEF IsEntry
  <2>3. x[1] \in {"viewport", "decl", "shader"} /\ mem[x].act # None => x \in indexed
    BY DEF SessionInv, ArrayOK
  <2>4. x = active => mem[x].refs - 1 \in Nat
    BY <1>1, <1>4, <2>2 DEF CountInv
  <2>5. x \in indexed => x \notin Range(objs) /\ x # active
    BY <1>3, <1>4
  <2>6. m[x] = IF x \in indexed THEN [mem[x] EXCEPT !.act = None]
               ELSE IF x \in Range(objs) THEN [mem[x] EXCEPT !.keys = <<>>]
               ELSE IF x = active THEN [mem[x] EXCEPT !.refs = @ - 1]
               ELSE mem[x]
    BY <1>5
  <2>7. x \in Range(objs) => x # active /\ x[1] = "object"
    BY <1>3, <1>4
  <2> HIDE DEF m, indexed
  <2>8. CASE x \in indexed
    <3>1. m[x] = [mem[x] EXCEPT !.act = None]
      BY <2>6, <2>8
    <3> QED
      BY <2>1, <2>2, <2>5, <2>8, <3>1 DEF IsEntry
  <2>9. CASE x \notin indexed /\ x \in Range(objs)
    <3>1. m[x] = [mem[x] EXCEPT !.keys = <<>>]
      BY <2>6, <2>9
    <3> QED
      BY <2>2, <2>3, <2>7, <2>9, <3>1, EmptySequence DEF IsEntry
  <2>10. CASE x \notin indexed /\ x \notin Range(objs) /\ x = active
    <3>1. m[x] = [mem[x] EXCEPT !.refs = @ - 1]
      BY <2>6, <2>10
    <3> QED
      BY <2>1, <2>2, <2>3, <2>4, <2>10, <3>1 DEF IsEntry
  <2>11. CASE x \notin indexed /\ x \notin Range(objs) /\ x # active
    <3>1. m[x] = mem[x]
      BY <2>6, <2>11
    <3> QED
      BY <2>1, <2>2, <2>3, <2>11, <3>1
  <2> QED
    BY <2>8, <2>9, <2>10, <2>11
<1>9. DOMAIN m = DOMAIN mem
  OBVIOUS
<1> HIDE DEF m
<1>10. \A x \in DOMAIN mem : mem[x].deps = Uses(R, x) /\ Range(mem[x].bufs) \subseteq DOMAIN pool
  BY <1>1 DEF MemInv
<1>11. ASSUME NEW x \in live PROVE m[x].refs = Count(R, x) + IF None = x THEN 1 ELSE 0
  <2>1. mem[x].refs = Count(R, x) + (IF active = x THEN 1 ELSE 0)
    BY <1>1 DEF CountInv, Count
  <2>2. Count(R, x) \in Nat
    BY <1>4, CountPositive
  <2>3. m[x].refs = mem[x].refs - IF active = x THEN 1 ELSE 0
    BY <1>1, <1>8
  <2> QED
    BY <1>1, <2>1, <2>2, <2>3
<1>12. \A t \in {"viewport", "decl", "shader"} : ArrayOK(m, <<>>, t)
  BY <1>8, <1>9, EmptySequence DEF ArrayOK
<1>13. KeysSelect(m, <<>>)
  BY <1>1, <1>8, EmptySequence DEF KeysSelect
<1>14. IsSeq(pool) /\ IsSeq(<<>>)
  BY EmptySequence DEF SessionInv
<1>15. ActState(R, None, s)
  <2>1. s.faults \subseteq Misfit
    BY <1>7 DEF SessionInv
  <2> QED
    BY <1>7, <1>8, <1>9, <1>10, <1>11, <1>12, <1>13, <1>14, <2>1 DEF ActState
<1> QED
  BY <1>7, <1>8, <1>15

\* What an activation's state is after a new reference.
LEMMA NewReference ==
  ASSUME NEW s, NEW k,
         DOMAIN s = {"mem", "vps", "decls", "shdrs", "rkeys", "pool", "faults"},
         NEW t, t = [s EXCEPT !.mem[k].refs = @ + 1]
  PROVE  /\ DOMAIN t = DOMAIN s /\ t.vps = s.vps /\ t.decls = s.decls
         /\ t.shdrs = s.shdrs /\ t.rkeys = s.rkeys /\ t.pool = s.pool /\ t.faults = s.faults
         /\ t.mem = [s.mem EXCEPT ![k].refs = s.mem[k].refs + 1]
OBVIOUS

\* The activation's reference to its passes.
LEMMA PassesReferred ==
  ASSUME NEW R, RegistryInv(R), NEW s, ActState(R, None, s), NEW k \in live,
         Count(R, k) \in Nat,
         NEW t, t = [s EXCEPT !.mem[k].refs = @ + 1]
  PROVE  ActState(R, k, t)
<1>1. LiveInv(R) /\ live \subseteq DOMAIN mem /\ None \notin live
  BY DEF RegistryInv, LiveInv
<1>2. /\ DOMAIN s = {"mem", "vps", "decls", "shdrs", "rkeys", "pool", "faults"}
      /\ DOMAIN s.mem = DOMAIN mem /\ IsEntry(s.mem[k])
  BY <1>1 DEF ActState
<1> DEFINE m == [s.mem EXCEPT ![k].refs = s.mem[k].refs + 1]
<1>3. /\ DOMAIN t = DOMAIN s /\ t.mem = m /\ t.vps = s.vps /\ t.decls = s.decls
      /\ t.shdrs = s.shdrs /\ t.rkeys = s.rkeys /\ t.pool = s.pool /\ t.faults = s.faults
  BY <1>2, NewReference
<1>4. /\ DOMAIN m = DOMAIN mem /\ m[k] = [s.mem[k] EXCEPT !.refs = @ + 1]
      /\ \A x \in DOMAIN mem : x # k => m[x] = s.mem[x]
  BY <1>1, <1>2
<1> HIDE DEF m
<1>5. /\ IsEntry(m[k]) /\ m[k].deps = s.mem[k].deps /\ m[k].bufs = s.mem[k].bufs
      /\ m[k].keys = s.mem[k].keys /\ m[k].act = s.mem[k].act /\ m[k].refs = s.mem[k].refs + 1
  BY <1>2, <1>4 DEF IsEntry
<1>6. \A x \in DOMAIN mem :
        /\ IsEntry(m[x]) /\ m[x].deps = s.mem[x].deps /\ m[x].bufs = s.mem[x].bufs
        /\ m[x].keys = s.mem[x].keys /\ m[x].act = s.mem[x].act
  BY <1>4, <1>5 DEF ActState
<1>7. ASSUME NEW x \in live PROVE m[x].refs = Count(R, x) + IF k = x THEN 1 ELSE 0
  <2>1. s.mem[x].refs = Count(R, x) + IF None = x THEN 1 ELSE 0
    BY DEF ActState
  <2>2. CASE x = k
    BY <1>1, <1>5, <2>1, <2>2
  <2>3. CASE x # k
    BY <1>1, <1>4, <2>1, <2>3
  <2> QED
    BY <2>2, <2>3
<1>8. ArrayOK(m, s.vps, "viewport") /\ ArrayOK(m, s.decls, "decl") /\ ArrayOK(m, s.shdrs, "shader")
  BY <1>2, <1>4, <1>6, ArrayStays DEF ActState
<1>9. KeysSelect(s.mem, s.rkeys) => KeysSelect(m, s.rkeys)
  BY <1>1, <1>6 DEF KeysSelect
<1>10. /\ IsSeq(s.pool) /\ IsSeq(s.rkeys) /\ s.faults \subseteq Unprepared \cup Misfit
       /\ \/ "ParameterNotSet" \in s.faults \/ "KeyIndex" \in s.faults
          \/ KeysSelect(s.mem, s.rkeys)
       /\ \A x \in DOMAIN mem :
            /\ s.mem[x].deps = Uses(R, x) /\ Range(s.mem[x].bufs) \subseteq DOMAIN s.pool
            /\ s.mem[x].keys # <<>> => x \in Range(objs)
  BY DEF ActState
<1>11. \A x \in DOMAIN mem :
         /\ IsEntry(m[x]) /\ m[x].deps = Uses(R, x) /\ Range(m[x].bufs) \subseteq DOMAIN s.pool
         /\ m[x].keys # <<>> => x \in Range(objs)
  BY <1>6, <1>10
<1>12. DOMAIN t = {"mem", "vps", "decls", "shdrs", "rkeys", "pool", "faults"}
  BY <1>2, <1>3
<1> QED
  BY <1>3, <1>4, <1>7, <1>8, <1>9, <1>10, <1>11, <1>12 DEF ActState

\* What is said of the index's bits depends on the fields alone.
LEMMA BitsStay ==
  ASSUME fields' = fields
  PROVE  /\ IndexBitsFit' = IndexBitsFit /\ Misfit' = Misfit
         /\ \A key : RenderIndex(key)' = RenderIndex(key)
BY DEF IndexBitsFit, RenderIndex, IndexBits, Misfit, Fault

\* The part of the invariant that the end of an activation, or of its start, leaves.
LEMMA Became ==
  ASSUME NEW R, RegistryInv(R), SessionInv(R), NEW a, NEW s, ActState(R, a, s), s.faults \subseteq Misfit,
         Become(s), active' = a, a # None => a \in live /\ a[1] = "passes",
         up, NobodyEnqueues,
         enqueued' = Outdated, UNCHANGED <<scene, own, up, live, objs, fields, copies, device>>
  PROVE  /\ RegistryInv(R)'
         /\ (a = None => IdleInv') => SessionInv(R)'
<1>1. /\ SceneInv(R) /\ OwnInv(R) /\ LiveInv(R) /\ MemInv(R) /\ CountInv(R) /\ ObjsInv
      /\ live \subseteq DOMAIN mem
  BY DEF RegistryInv, LiveInv
<1>2. /\ scene' = scene /\ own' = own /\ live' = live /\ objs' = objs /\ fields' = fields
      /\ device' = device /\ mem' = s.mem /\ vps' = s.vps /\ decls' = s.decls
      /\ shdrs' = s.shdrs /\ rkeys' = s.rkeys /\ pool' = s.pool /\ faults' \subseteq Misfit
  BY DEF Become
<1>3. /\ DOMAIN mem' = DOMAIN mem
      /\ \A x \in DOMAIN mem :
           /\ IsEntry(mem'[x]) /\ mem'[x].deps = Uses(R, x)
           /\ Range(mem'[x].bufs) \subseteq DOMAIN pool'
           /\ mem'[x].keys # <<>> => x \in Range(objs)
      /\ \A x \in live : mem'[x].refs = Count(R, x) + IF a = x THEN 1 ELSE 0
      /\ ArrayOK(mem', vps', "viewport") /\ ArrayOK(mem', decls', "decl")
      /\ ArrayOK(mem', shdrs', "shader")
      /\ IsSeq(pool') /\ IsSeq(rkeys') /\ KeysSelect(mem', rkeys')
  <2>1. "ParameterNotSet" \notin s.faults /\ "KeyIndex" \notin s.faults
    BY DEF Misfit, Fault
  <2> QED
    BY <1>2, <2>1 DEF ActState
<1>4. SceneInv(R)'
  BY <1>1, <1>2, SceneStays
<1>5. OwnInv(R)'
  BY <1>1, <1>2 DEF OwnInv
<1>6. LiveInv(R)'
  BY <1>1, <1>2, <1>3 DEF LiveInv
<1>7. MemInv(R)'
  BY <1>1, <1>3 DEF MemInv
<1>8. ObjsInv'
  BY <1>1, <1>2, <1>3 DEF ObjsInv
<1>9. ASSUME NEW x \in live
      PROVE  /\ mem'[x].refs = Cardinality(HeldOf(R, own, x)) + Cardinality(UsesTo(R, live, x))
                               + IF active' = x THEN 1 ELSE 0
             /\ mem'[x].refs > 0
  <2>1. Count(R, x) \in Nat /\ Count(R, x) > 0
    BY CountPositive DEF SessionInv
  <2>2. mem'[x].refs = Count(R, x) + IF active' = x THEN 1 ELSE 0
    BY <1>3
  <2>3. mem'[x].refs > 0
    BY <2>1, <2>2
  <2> QED
    BY <2>2, <2>3 DEF Count
<1>10. CountInv(R)'
  BY <1>1, <1>2, <1>9 DEF CountInv
<1>11. RegistryInv(R)'
  BY <1>4, <1>5, <1>6, <1>7, <1>8, <1>10 DEF RegistryInv
<1>12. /\ IsSeq(enqueued)
       /\ \A i \in DOMAIN enqueued : DOMAIN enqueued[i] = {"key", "object", "current"}
  BY DEF SessionInv
<1>13. /\ DOMAIN enqueued' = DOMAIN enqueued
       /\ \A i \in DOMAIN enqueued : enqueued'[i] = [enqueued[i] EXCEPT !.current = FALSE]
  BY DEF Outdated
<1>14. \A i \in DOMAIN enqueued' :
         DOMAIN enqueued'[i] = {"key", "object", "current"} /\ ~enqueued'[i].current
  BY <1>12, <1>13
<1>15. IsSeq(enqueued')
  <2> DEFINE q == [i \in DOMAIN enqueued |-> [enqueued[i] EXCEPT !.current = FALSE]]
             N == Len(enqueued)
  <2>1. N \in Nat /\ DOMAIN enqueued = 1 .. N
    BY <1>12, SequenceDomain
  <2> HIDE DEF N
  <2>2. q \in [1 .. N -> Range(q)]
    BY <2>1 DEF Range
  <2> HIDE DEF q
  <2>3. q \in Seq(Range(q))
    BY <2>1, <2>2, FunctionIsSequence
  <2>4. enqueued' = q
    BY DEF q, Outdated
  <2> QED
    BY <2>3, <2>4 DEF IsSeq
<1>16. ASSUME a = None => IdleInv' PROVE SessionInv(R)'
  <2>1. KeysSelect(mem, rkeys)'
    BY <1>2, <1>3 DEF KeysSelect, Selects, IndexBitsFit, RenderIndex, IndexBits
  <2>2. CopiesInv' /\ up'
    BY DEF SessionInv, CopiesInv, NobodyEnqueues
  <2>3. faults' \subseteq Misfit'
    BY <1>2, BitsStay DEF Misfit
  <2> QED
    BY <1>2, <1>3, <1>14, <1>15, <1>16, <2>1, <2>2, <2>3 DEF SessionInv
<1> QED
  BY <1>11, <1>16

\* An activation, which ends the one before, keeps the invariant.
LEMMA ActivateKeeps ==
  ASSUME NEW R, RegistryInv(R), SessionInv(R), ActivateRenderPasses
  PROVE  RegistryInv(R)' /\ SessionInv(R)'
<1> DEFINE s == IF active = None THEN Now ELSE Deactivated(Now)
<1>1. PICK k \in live :
        /\ k[1] = "passes"
        /\ LET t == ActivateObjects([s EXCEPT !.mem[k].refs = @ + 1], k)
           IN Prepared(t) /\ Become(t)
        /\ active' = k /\ enqueued' = Outdated /\ up /\ NobodyEnqueues
        /\ UNCHANGED <<scene, own, up, live, objs, fields, copies, device>>
  BY DEF ActivateRenderPasses
<1>2. ActState(R, None, s)
  BY Idle, DeactivatedIs
<1> HIDE DEF s
<1> DEFINE u == [s EXCEPT !.mem[k].refs = @ + 1]
           t == ActivateObjects(u, k)
<1>3. fields \in Range(FieldSetups) /\ (active # None => active[1] = "passes")
  BY DEF SessionInv
<1>4. Count(R, k) \in Nat
  BY <1>3, CountPositive
<1>5. ActState(R, k, u)
  BY <1>2, <1>4, PassesReferred
<1> HIDE DEF u
<1>6. ActState(R, k, t)
  BY <1>1, <1>3, <1>5, ActivateObjectsKeeps
<1>7. Prepared(t) /\ Become(t)
  BY <1>1 DEF u
<1> HIDE DEF t
<1>8. t.faults \subseteq Misfit
  BY <1>6, <1>7 DEF ActState, Prepared, Unprepared
<1>9. None \notin live
  BY DEF RegistryInv, LiveInv
<1> QED
  BY <1>1, <1>6, <1>7, <1>8, <1>9, Became

\* The end of an activation keeps the invariant.
LEMMA DeactivateKeeps ==
  ASSUME NEW R, RegistryInv(R), SessionInv(R), DeactivateRenderPasses
  PROVE  RegistryInv(R)' /\ SessionInv(R)'
<1> DEFINE s == Deactivated(Now)
<1>1. /\ active # None /\ Become(s) /\ active' = None /\ enqueued' = Outdated
      /\ up /\ NobodyEnqueues
      /\ UNCHANGED <<scene, own, up, live, objs, fields, copies, device>>
  BY DEF DeactivateRenderPasses
<1>2. /\ ActState(R, None, s) /\ s.faults \subseteq Misfit
      /\ s.vps = <<>> /\ s.decls = <<>> /\ s.shdrs = <<>>
      /\ \A x \in DOMAIN mem : s.mem[x].keys = <<>> /\
           (x[1] \in {"viewport", "decl", "shader"} => s.mem[x].act = None)
  BY <1>1, DeactivatedIs DEF SessionInv
<1> HIDE DEF s
<1>3. DOMAIN s.mem = DOMAIN mem
  BY <1>2 DEF ActState
<1>4. \A i \in DOMAIN enqueued : DOMAIN enqueued[i] = {"key", "object", "current"}
  BY DEF SessionInv
<1>5. \A i \in DOMAIN enqueued' : ~enqueued'[i].current
  <2>1. /\ DOMAIN enqueued' = DOMAIN enqueued
        /\ \A i \in DOMAIN enqueued : enqueued'[i] = [enqueued[i] EXCEPT !.current = FALSE]
    BY <1>1 DEF Outdated
  <2> QED
    BY <1>4, <2>1
<1>6. IdleInv'
  BY <1>1, <1>2, <1>3, <1>5 DEF IdleInv, Become
<1> QED
  BY <1>1, <1>2, <1>6, Became

\* A sequence is one over its own range.
LEMMA SequenceOfItsRange ==
  ASSUME NEW A, NEW q \in Seq(A) PROVE IsSeq(q)
<1>1. Len(q) \in Nat /\ DOMAIN q = 1 .. Len(q) /\ q \in [1 .. Len(q) -> A]
  OBVIOUS
<1>2. q \in [1 .. Len(q) -> Range(q)]
  BY <1>1 DEF Range
<1> QED
  BY <1>1, <1>2, FunctionIsSequence DEF IsSeq

\* A step of EnqueueRenderObject or PrepareDraw, which leaves the rest alone, keeps
\* what is said of the tables and of the render keys.
LEMMA DrawingKeeps ==
  ASSUME NEW R, RegistryInv(R), SessionInv(R),
         UNCHANGED <<scene, own, up, live, mem, objs, vps, decls, shdrs, rkeys,
                     pool, active, fields, device>>,
         faults' \subseteq Misfit, CopiesInv', IsSeq(enqueued'),
         \A i \in DOMAIN enqueued' :
           /\ DOMAIN enqueued'[i] = {"key", "object", "current"}
           /\ enqueued'[i].current =>
                active # None /\ Selects(rkeys, enqueued'[i].key, enqueued'[i].object)
  PROVE  RegistryInv(R)' /\ SessionInv(R)'
<1>1. RegistryInv(R)'
  BY DEF RegistryInv, SceneInv, OwnInv, LiveInv, MemInv, ObjsInv, CountInv
<1>2. /\ rkeys' = rkeys /\ mem' = mem /\ live' = live /\ objs' = objs /\ active' = active
      /\ vps' = vps /\ decls' = decls /\ shdrs' = shdrs /\ pool' = pool /\ fields' = fields
      /\ up' = up
  OBVIOUS
<1>3. /\ IndexBitsFit' = IndexBitsFit /\ Misfit' = Misfit
      /\ \A key : RenderIndex(key)' = RenderIndex(key)
  BY <1>2, BitsStay
<1>4. \A i \in DOMAIN enqueued' :
        /\ DOMAIN enqueued'[i] = {"key", "object", "current"}
        /\ enqueued'[i].current => Selects(rkeys, enqueued[i].key, enqueued[i].object)'
  BY <1>2, <1>3 DEF Selects
<1>5. KeysSelect(mem, rkeys)'
  BY <1>2, <1>3 DEF SessionInv, KeysSelect, Selects
<1>6. IdleInv /\ active = None => IdleInv'
  BY <1>2 DEF IdleInv
<1>7. SessionInv(R)'
  BY <1>2, <1>3, <1>4, <1>5, <1>6 DEF SessionInv, ArrayOK
<1> QED
  BY <1>1, <1>7

\* The slots that a client has reserved are a range of indexes.
LEMMA ReservedRange ==
  ASSUME NEW R, RegistryInv(R), SessionInv(R), NEW c \in Clients, copies[c] # None
  PROVE  LET at == copies[c].at
             keys == mem[copies[c].object].keys
         IN  /\ at \in Nat /\ Len(keys) \in Nat /\ DOMAIN keys = 1 .. Len(keys)
             /\ copies[c].object \in live /\ active # None
             /\ at + Len(keys) <= Len(enqueued)
             /\ Reserved(c) = at + 1 .. at + Len(keys)
<1> DEFINE at == copies[c].at
           keys == mem[copies[c].object].keys
           n == Len(keys)
<1>1. /\ at \in Nat /\ copies[c].object \in live /\ active # None
      /\ at + n <= Len(enqueued)
  BY DEF SessionInv, CopiesInv
<1>2. IsSeq(keys)
  BY <1>1 DEF RegistryInv, LiveInv, MemInv, IsEntry
<1>3. n \in Nat /\ DOMAIN keys = 1 .. n
  BY <1>2, SequenceDomain
<1>4. Reserved(c) = {at + i : i \in 1 .. n}
  BY <1>3 DEF Reserved
<1> HIDE DEF n, at
<1>5. {at + i : i \in 1 .. n} = at + 1 .. at + n
  <2>1. \A x \in at + 1 .. at + n : x - at \in 1 .. n /\ x = at + (x - at)
    BY <1>1, <1>3
  <2>2. \A i \in 1 .. n : at + i \in at + 1 .. at + n
    BY <1>1, <1>3
  <2> QED
    BY <2>1, <2>2
<1> QED
  BY <1>1, <1>3, <1>4, <1>5 DEF n, at

\* Slots are reserved at the end, where nobody else has any, for no key yet.
LEMMA EnqueueReserveKeeps ==
  ASSUME NEW R, RegistryInv(R), SessionInv(R), NEW c \in Clients, EnqueueReserve(c)
  PROVE  RegistryInv(R)' /\ SessionInv(R)'
<1>1. PICK o \in live :
        /\ mem[o].keys # <<>>
        /\ enqueued' = enqueued \o [i \in DOMAIN mem[o].keys |-> Unwritten]
        /\ copies' = [copies EXCEPT ![c] = [at |-> Len(enqueued), object |-> o]]
        /\ UNCHANGED <<scene, own, up, live, mem, objs, vps, decls, shdrs, rkeys,
                       pool, active, fields, device, faults>>
  BY DEF EnqueueReserve
<1> DEFINE keys == mem[o].keys
           e == [i \in DOMAIN keys |-> Unwritten]
           N == Len(keys)
           M == Len(enqueued)
<1>2. o \in DOMAIN mem /\ IsEntry(mem[o])
  BY DEF RegistryInv, LiveInv, MemInv
<1>3. N \in Nat /\ DOMAIN keys = 1 .. N /\ M \in Nat /\ DOMAIN enqueued = 1 .. M /\ IsSeq(enqueued)
  BY <1>2, SequenceDomain DEF IsEntry, SessionInv
<1>4. enqueued' = enqueued \o e
  BY <1>1
<1>5. \A i \in DOMAIN keys : e[i] = Unwritten
  OBVIOUS
<1>6. e \in Seq(Range(e)) /\ Len(e) = N
  <2> HIDE DEF N, keys
  <2>1. e \in [1 .. N -> Range(e)]
    BY <1>3 DEF Range
  <2> HIDE DEF e
  <2> QED
    BY <1>3, <2>1, FunctionIsSequence
<1> HIDE DEF e, N, keys
<1>7. /\ enqueued \in Seq(Range(enqueued) \cup Range(e)) /\ e \in Seq(Range(enqueued) \cup Range(e))
  BY <1>3, <1>6 DEF IsSeq
<1>8. /\ DOMAIN enqueued' = 1 .. M + N /\ Len(enqueued') = M + N
      /\ enqueued' \in Seq(Range(enqueued) \cup Range(e))
      /\ \A i \in 1 .. M + N : enqueued'[i] = IF i <= M THEN enqueued[i] ELSE e[i - M]
  <2> DEFINE A == Range(enqueued) \cup Range(e)
  <2>1. enqueued \in Seq(A) /\ e \in Seq(A)
    BY <1>7
  <2> HIDE DEF A
  <2>2. /\ enqueued \o e \in Seq(A) /\ Len(enqueued \o e) = M + N
        /\ DOMAIN (enqueued \o e) = 1 .. M + N
        /\ \A i \in 1 .. M + N :
             (enqueued \o e)[i] = IF i <= M THEN enqueued[i] ELSE e[i - M]
    BY <1>6, <2>1, Joined
  <2> QED
    BY <1>4, <2>2 DEF A
<1> HIDE DEF M
<1>9. IsSeq(enqueued')
  <2>1. ASSUME NEW q, q = enqueued' PROVE IsSeq(q)
    BY <1>8, <2>1, SequenceOfItsRange
  <2> QED
    BY <2>1
<1>10. active # None
  BY <1>1, <1>2 DEF SessionInv, IdleInv
<1>11. ASSUME NEW i \in DOMAIN enqueued'
       PROVE  /\ DOMAIN enqueued'[i] = {"key", "object", "current"}
              /\ enqueued'[i].current =>
                   Selects(rkeys, enqueued'[i].key, enqueued'[i].object)
  <2>1. CASE i <= M
    <3>1. i \in DOMAIN enqueued /\ enqueued'[i] = enqueued[i]
      BY <1>3, <1>8, <2>1
    <3> QED
      BY <3>1 DEF SessionInv
  <2>2. CASE ~(i <= M)
    <3>1. i - M \in DOMAIN keys /\ enqueued'[i] = e[i - M]
      BY <1>3, <1>8, <2>2
    <3>2. enqueued'[i] = Unwritten
      BY <1>5, <3>1
    <3> QED
      BY <3>2 DEF Unwritten
  <2> QED
    BY <2>1, <2>2
<1>12. CopiesInv'
  <2>1. DOMAIN copies = Clients /\ mem' = mem /\ live' = live /\ active' = active
    BY <1>1 DEF SessionInv, CopiesInv
  <2>2. /\ DOMAIN copies' = Clients
        /\ copies'[c].at = M /\ copies'[c].object = o
        /\ \A d \in Clients : d # c => copies'[d] = copies[d]
    BY <1>1, <2>1 DEF M
  <2>3. Reserved(c)' = M + 1 .. M + N
    <3>1. Reserved(c)' = {M + i : i \in 1 .. N}
      BY <1>3, <2>1, <2>2 DEF Reserved, keys
    <3>2. {M + i : i \in 1 .. N} = M + 1 .. M + N
      <4>1. \A x \in M + 1 .. M + N : x - M \in 1 .. N /\ x = M + (x - M)
        BY <1>3
      <4>2. \A i \in 1 .. N : M + i \in M + 1 .. M + N
        BY <1>3
      <4> QED
        BY <4>1, <4>2
    <3> QED
      BY <3>1, <3>2
  <2>4. ASSUME NEW d \in Clients, d # c, copies[d] # None
        PROVE  /\ Reserved(d)' = Reserved(d) /\ Reserved(d) \subseteq 1 .. M
               /\ copies[d].object \in live /\ copies[d].at \in Nat
               /\ copies[d].at + Len(mem[copies[d].object].keys) <= M + N
    <3> DEFINE at == copies[d].at
               n == Len(mem[copies[d].object].keys)
    <3>1. /\ at \in Nat /\ n \in Nat /\ copies[d].object \in live
          /\ at + n <= Len(enqueued) /\ Reserved(d) = at + 1 .. at + n
      BY <2>4, ReservedRange
    <3>2. Reserved(d)' = Reserved(d)
      BY <2>1, <2>2, <2>4 DEF Reserved
    <3> HIDE DEF at, n
    <3>3. Reserved(d) \subseteq 1 .. M /\ at + n <= M + N
      BY <1>3, <3>1 DEF M
    <3> QED
      BY <3>1, <3>2, <3>3 DEF at, n
  <2>5. ASSUME NEW d \in Clients, copies'[d] # None
        PROVE  /\ active' # None /\ copies'[d].object \in live'
               /\ copies'[d].at \in Nat
               /\ copies'[d].at + Len(mem'[copies'[d].object].keys) <= Len(enqueued')
    <3>1. CASE d = c
      <4>1. Len(mem'[copies'[d].object].keys) = N
        BY <2>1, <2>2, <3>1 DEF N, keys
      <4> QED
        BY <1>3, <1>8, <1>10, <2>1, <2>2, <3>1, <4>1
    <3>2. CASE d # c
      BY <1>8, <1>10, <2>1, <2>2, <2>4, <2>5, <3>2
    <3> QED
      BY <3>1, <3>2
  <2>6. ASSUME NEW d \in Clients, NEW f \in Clients, d # f, copies'[d] # None, copies'[f] # None
        PROVE  Reserved(d)' \cap Reserved(f)' = {}
    <3>1. (M + 1 .. M + N) \cap (1 .. M) = {}
      BY <1>3
    <3>2. CASE d = c
      BY <2>2, <2>3, <2>4, <2>6, <3>1, <3>2
    <3>3. CASE f = c
      BY <2>2, <2>3, <2>4, <2>6, <3>1, <3>3
    <3>4. CASE d # c /\ f # c
      <4>1. Reserved(d) \cap Reserved(f) = {}
        BY <2>2, <2>6, <3>4 DEF SessionInv, CopiesInv
      <4> QED
        BY <2>2, <2>4, <2>6, <3>4, <4>1
    <3> QED
      BY <3>2, <3>3, <3>4
  <2> QED
    BY <2>2, <2>5, <2>6 DEF CopiesInv
<1>13. faults' \subseteq Misfit
  BY <1>1 DEF SessionInv
<1> QED
  BY <1>1, <1>9, <1>10, <1>11, <1>12, <1>13, DrawingKeeps

\* What is copied to the slots selects render keys of the object.
LEMMA EnqueueCopyKeeps ==
  ASSUME NEW R, RegistryInv(R), SessionInv(R), NEW c \in Clients, EnqueueCopy(c)
  PROVE  RegistryInv(R)' /\ SessionInv(R)'
<1> DEFINE at == copies[c].at
           o == copies[c].object
           keys == mem[o].keys
           N == Len(keys)
           M == Len(enqueued)
           q == [i \in DOMAIN enqueued |->
                   IF i \in Reserved(c)
                   THEN [key |-> keys[i - at], object |-> o, current |-> TRUE]
                   ELSE enqueued[i]]
<1>1. /\ copies[c] # None /\ enqueued' = q /\ copies' = [copies EXCEPT ![c] = None]
      /\ UNCHANGED <<scene, own, up, live, mem, objs, vps, decls, shdrs, rkeys,
                     pool, active, fields, device, faults>>
  BY DEF EnqueueCopy
<1>2. /\ at \in Nat /\ N \in Nat /\ DOMAIN keys = 1 .. N /\ o \in live /\ active # None
      /\ Reserved(c) = at + 1 .. at + N
  BY <1>1, ReservedRange
<1>3. M \in Nat /\ DOMAIN enqueued = 1 .. M
  BY SequenceDomain DEF SessionInv
<1>4. IsSeq(q) /\ Len(q) = M /\ DOMAIN q = DOMAIN enqueued
  <2> HIDE DEF M
  <2>1. q \in [1 .. M -> Range(q)] /\ DOMAIN q = DOMAIN enqueued
    BY <1>3 DEF Range
  <2> HIDE DEF q
  <2> QED
    BY <1>3, <2>1, FunctionIsSequence DEF IsSeq
<1>5. ASSUME NEW i \in DOMAIN enqueued
      PROVE  /\ DOMAIN q[i] = {"key", "object", "current"}
             /\ q[i].current => active # None /\ Selects(rkeys, q[i].key, q[i].object)
  <2>1. CASE i \in Reserved(c)
    <3>1. i - at \in DOMAIN keys
      <4> HIDE DEF at, N
      <4> QED
        BY <1>2, <2>1
    <3>2. Selects(rkeys, keys[i - at], o)
      BY <1>2, <3>1 DEF SessionInv, KeysSelect
    <3>3. q[i] = [key |-> keys[i - at], object |-> o, current |-> TRUE]
      BY <2>1
    <3> HIDE DEF q, keys, o, at
    <3> QED
      BY <1>2, <3>2, <3>3
  <2>2. CASE i \notin Reserved(c)
    <3>1. q[i] = enqueued[i]
      BY <2>2
    <3> HIDE DEF q
    <3> QED
      BY <1>2, <3>1 DEF SessionInv
  <2> QED
    BY <2>1, <2>2
<1> HIDE DEF q, N, keys, o, at
<1>6. CopiesInv'
  <2>1. /\ DOMAIN copies' = Clients /\ copies'[c] = None
        /\ \A d \in Clients : d # c => copies'[d] = copies[d]
    BY <1>1 DEF SessionInv, CopiesInv
  <2>2. /\ mem' = mem /\ live' = live /\ active' = active /\ Len(enqueued') = Len(enqueued)
    BY <1>1, <1>4 DEF M
  <2>3. \A d \in Clients : d # c => Reserved(d)' = Reserved(d)
    BY <2>1, <2>2 DEF Reserved
  <2>4. ASSUME NEW d \in Clients, copies'[d] # None
        PROVE  /\ active' # None /\ copies'[d].object \in live'
               /\ copies'[d].at \in Nat
               /\ copies'[d].at + Len(mem'[copies'[d].object].keys) <= Len(enqueued')
    BY <2>1, <2>2, <2>4 DEF SessionInv, CopiesInv
  <2>5. ASSUME NEW d \in Clients, NEW f \in Clients, d # f, copies'[d] # None, copies'[f] # None
        PROVE  Reserved(d)' \cap Reserved(f)' = {}
    BY <2>1, <2>3, <2>5 DEF SessionInv, CopiesInv
  <2> QED
    BY <2>1, <2>4, <2>5 DEF CopiesInv
<1>7. faults' \subseteq Misfit
  BY <1>1 DEF SessionInv
<1>8. /\ IsSeq(enqueued')
      /\ \A i \in DOMAIN enqueued' :
           /\ DOMAIN enqueued'[i] = {"key", "object", "current"}
           /\ enqueued'[i].current =>
                active # None /\ Selects(rkeys, enqueued'[i].key, enqueued'[i].object)
  BY <1>1, <1>4, <1>5
<1> QED
  BY <1>1, <1>6, <1>7, <1>8, DrawingKeeps

\* Sorting moves what is enqueued and changes none of it.
LEMMA PrepareKeeps ==
  ASSUME NEW R, RegistryInv(R), SessionInv(R), PrepareDraw
  PROVE  RegistryInv(R)' /\ SessionInv(R)'
<1>1. PICK order \in Bijection(DOMAIN enqueued, DOMAIN enqueued) :
        enqueued' = [i \in DOMAIN enqueued |-> enqueued[order[i]]]
  BY DEF PrepareDraw
<1>2. /\ UNCHANGED <<scene, own, up, live, mem, objs, vps, decls, shdrs, rkeys,
                     pool, active, fields, copies, device>>
      /\ faults' = faults \cup Misfit
  BY DEF PrepareDraw, Misfit
<1>4. \A i \in DOMAIN enqueued : order[i] \in DOMAIN enqueued
  BY <1>1 DEF Bijection, Injection
<1>5. /\ DOMAIN enqueued' = DOMAIN enqueued
      /\ \A i \in DOMAIN enqueued : enqueued'[i] = enqueued[order[i]]
  BY <1>1
<1>6. IsSeq(enqueued') /\ Len(enqueued') = Len(enqueued)
  <2> DEFINE q == [i \in DOMAIN enqueued |-> enqueued[order[i]]]
             N == Len(enqueued)
  <2>1. N \in Nat /\ DOMAIN enqueued = 1 .. N
    BY SequenceDomain DEF SessionInv
  <2> HIDE DEF N
  <2>2. q \in [1 .. N -> Range(q)]
    BY <2>1 DEF Range
  <2>3. enqueued' = q
    BY <1>1
  <2> HIDE DEF q
  <2>4. q \in Seq(Range(q)) /\ Len(q) = N
    BY <2>1, <2>2, FunctionIsSequence
  <2> QED
    BY <2>3, <2>4 DEF IsSeq, N
<1>7. ASSUME NEW i \in DOMAIN enqueued
      PROVE  /\ DOMAIN enqueued[i] = {"key", "object", "current"}
             /\ enqueued[i].current =>
                  active # None /\ Selects(rkeys, enqueued[i].key, enqueued[i].object)
  BY DEF SessionInv, IdleInv
<1>8. \A i \in DOMAIN enqueued' :
        /\ DOMAIN enqueued'[i] = {"key", "object", "current"}
        /\ enqueued'[i].current =>
             active # None /\ Selects(rkeys, enqueued'[i].key, enqueued'[i].object)
  BY <1>4, <1>5, <1>7
<1>9. faults' \subseteq Misfit
  BY <1>2 DEF SessionInv
<1>10. CopiesInv'
  <2>1. /\ mem' = mem /\ live' = live /\ active' = active /\ Len(enqueued') = Len(enqueued)
        /\ copies' = copies
    BY <1>2, <1>6
  <2>2. \A c : Reserved(c)' = Reserved(c)
    BY <2>1 DEF Reserved
  <2> QED
    BY <2>1, <2>2 DEF SessionInv, CopiesInv
<1> QED
  BY <1>2, <1>6, <1>8, <1>9, <1>10, DrawingKeeps

IInv ==
  \E S \in Scenes : RegistryInv(RegistrationsOf(S)) /\ SessionInv(RegistrationsOf(S))

\* The invariant holds before anything is registered.
LEMMA InitialInvariant == Init => IInv
<1> SUFFICES ASSUME Init PROVE IInv
  OBVIOUS
<1>1. /\ scene \in Scenes /\ own = [c \in Clients |-> {}] /\ live = {} /\ mem = <<>>
      /\ objs = <<>> /\ vps = <<>> /\ decls = <<>> /\ shdrs = <<>> /\ rkeys = <<>>
      /\ pool = <<>> /\ active = None /\ fields = FieldSetups[1] /\ enqueued = <<>>
      /\ device = EmptyBag /\ faults = {} /\ copies = [c \in Clients |-> None] /\ up = TRUE
  BY DEF Init
<1>2. PICK S \in Scenes : scene = S
  BY <1>1
<1> DEFINE R == RegistrationsOf(S)
<1>3. SceneInv(R)
  BY <1>2, RulesHold DEF SceneInv
<1>4. OwnInv(R)
  BY <1>1 DEF OwnInv
<1>5. DOMAIN mem = {}
  BY <1>1
<1>6. LiveInv(R) /\ MemInv(R) /\ ObjsInv
  BY <1>1, <1>5, EmptySequence DEF LiveInv, MemInv, ObjsInv
<1>7. CountInv(R)
  <2>1. Held(own) = {} /\ UsesBy(R, live) = {}
    BY <1>1 DEF Held, UsesBy
  <2>2. device = SetToBag(Shaders(live))
    <3>1. Shaders(live) = {}
      BY <1>1 DEF Shaders
    <3> QED
      BY <1>1, <3>1, EmptyBagIs
  <2> QED
    BY <1>1, <2>1, <2>2, FS_EmptySet DEF CountInv
<1>8. IdleInv
  BY <1>1, <1>5, EmptySequence DEF IdleInv
<1>9. \A t : ArrayOK(mem, <<>>, t)
  BY <1>5, EmptySequence DEF ArrayOK
<1>10. KeysSelect(mem, rkeys)
  BY <1>1 DEF KeysSelect
<1>11. fields \in Range(FieldSetups)
  BY <1>1, LimitAssumption DEF Range
<1>13. CopiesInv
  BY <1>1 DEF CopiesInv
<1>12. SessionInv(R)
  BY <1>1, <1>5, <1>8, <1>9, <1>10, <1>11, <1>13, EmptySequence DEF SessionInv
<1> QED
  BY <1>3, <1>4, <1>6, <1>7, <1>12 DEF RegistryInv, IInv

\* What holds of a session without an activation.
LEMMA IdleSession ==
  ASSUME NEW R, IdleInv', active' = None, IsSeq(pool'), IsSeq(rkeys'), IsSeq(enqueued'),
         \A i \in DOMAIN enqueued' : DOMAIN enqueued'[i] = {"key", "object", "current"},
         fields' \in Range(FieldSetups), faults' \subseteq Misfit', live' \subseteq DOMAIN mem',
         DOMAIN copies' = Clients, \A c \in Clients : copies'[c] = None
  PROVE  SessionInv(R)'
<1>1. /\ vps' = <<>> /\ decls' = <<>> /\ shdrs' = <<>>
      /\ \A k \in DOMAIN mem' :
           mem'[k].keys = <<>> /\ (k[1] \in {"viewport", "decl", "shader"} => mem'[k].act = None)
      /\ \A i \in DOMAIN enqueued' : ~enqueued'[i].current
  BY DEF IdleInv
<1>2. \A t \in {"viewport", "decl", "shader"} : ArrayOK(mem', <<>>, t)
  BY <1>1, EmptySequence DEF ArrayOK
<1>3. ArrayOK(mem', vps', "viewport") /\ ArrayOK(mem', decls', "decl") /\ ArrayOK(mem', shdrs', "shader")
  BY <1>1, <1>2
<1>4. KeysSelect(mem, rkeys)'
  BY <1>1, EmptySequence DEF KeysSelect
<1>5. CopiesInv'
  BY DEF CopiesInv
<1> QED
  BY <1>1, <1>3, <1>4, <1>5 DEF SessionInv

\* Without an activation nobody is enqueueing.
LEMMA NobodyIdle ==
  ASSUME NEW R, SessionInv(R), active = None
  PROVE  DOMAIN copies = Clients /\ \A c \in Clients : copies[c] = None
BY DEF SessionInv, CopiesInv

\* Registrations and releases, which clients make without an activation.
LEMMA RegistrationStep ==
  ASSUME NEW R, RegistryInv(R), SessionInv(R), NEW c \in Clients, NEW r \in scene[c],
         Register(c, r) \/ Release(c, r)
  PROVE  RegistryInv(R)' /\ SessionInv(R)'
<1>1. /\ active = None
      /\ UNCHANGED <<pool, rkeys, active, enqueued, copies, fields>>
  <2>1. CASE Register(c, r)
    <3>1. Registers(c, r)
      BY <2>1 DEF Register, RegisterItem, RegisterDrawn, RegisterShaderData, RegisterShaderArg,
                  RegisterGlobalArg, RegisterRenderObject
    <3> QED
      BY <3>1 DEF Registers, MayChange
  <2>2. CASE Release(c, r)
    <3>1. Releases(c, r)
      BY <2>2 DEF Release, ReleaseItem, ReleaseDrawn, ReleaseShaderData, ReleaseShaderArg,
                  ReleaseGlobalArg, ReleaseRenderObject
    <3> QED
      BY <3>1 DEF Releases, MayChange, activation
  <2> QED
    BY <2>1, <2>2
<1>2. IdleInv
  BY <1>1 DEF SessionInv
<1>3. RegistryInv(R)' /\ IdleInv' /\ faults' = faults
  BY <1>1, <1>2, RegisterKeeps, ReleaseKeeps
<1>4. live' \subseteq DOMAIN mem'
  BY <1>3 DEF RegistryInv, LiveInv
<1>5. /\ IsSeq(pool) /\ IsSeq(rkeys) /\ IsSeq(enqueued) /\ fields \in Range(FieldSetups)
      /\ \A i \in DOMAIN enqueued : DOMAIN enqueued[i] = {"key", "object", "current"}
      /\ faults \subseteq Misfit
  BY DEF SessionInv
<1>6. /\ IsSeq(pool') /\ IsSeq(rkeys') /\ IsSeq(enqueued') /\ fields' \in Range(FieldSetups)
      /\ \A i \in DOMAIN enqueued' : DOMAIN enqueued'[i] = {"key", "object", "current"}
      /\ faults' \subseteq Misfit'
  BY <1>1, <1>3, <1>5, BitsStay
<1>7. DOMAIN copies' = Clients /\ \A d \in Clients : copies'[d] = None
  BY <1>1, NobodyIdle
<1> QED
  BY <1>1, <1>3, <1>4, <1>6, <1>7, IdleSession

\* When the clients hold nothing, nothing is in the tables.
LEMMA NothingHeld ==
  ASSUME NEW R, RegistryInv(R), active = None, \A c \in Clients : own[c] = {}
  PROVE  live = {}
<1>1. LiveInv(R) /\ CountInv(R) /\ Rules(R)
  BY DEF RegistryInv, SceneInv
<1>2. \A x \in live : x[1] \in {"vs", "ps"}
  BY <1>1 DEF LiveInv
<1>3. \A x \in live : Uses(R, x) = <<>>
  <2>1. \A x \in live : ~Registered(R, x)
    BY <1>1, <1>2, UsesShape
  <2> QED
    BY <2>1, UsesUnregistered
<1>4. ASSUME NEW x \in live PROVE FALSE
  <2>1. Count(R, x) > 0
    BY CountPositive
  <2>2. Cardinality(HeldOf(R, own, x)) = 0
    BY <1>1, NoHolders DEF CountInv
  <2>3. Cardinality(UsesTo(R, live, x)) = 0
    BY <1>1, <1>3, NoUses, EmptySequence DEF CountInv
  <2> QED
    BY <2>1, <2>2, <2>3 DEF Count
<1> QED
  BY <1>4

\* The end of the renderer leaves empty tables and nothing at the device.
LEMMA TerminateKeeps ==
  ASSUME NEW R, RegistryInv(R), SessionInv(R), Terminate
  PROVE  RegistryInv(R)' /\ SessionInv(R)'
<1>1. /\ active = None /\ \A c \in Clients : own[c] = {}
      /\ live' = {} /\ mem' = <<>> /\ objs' = <<>> /\ vps' = <<>> /\ decls' = <<>>
      /\ shdrs' = <<>> /\ rkeys' = <<>> /\ pool' = <<>> /\ active' = None /\ enqueued' = <<>>
      /\ scene' = scene /\ own' = own /\ fields' = fields /\ device' = device /\ faults' = faults
      /\ copies' = copies
  BY DEF Terminate
<1>2. live = {}
  BY <1>1, NothingHeld
<1>3. DOMAIN mem' = {}
  BY <1>1
<1>4. SceneInv(R)'
  BY <1>1, SceneStays DEF RegistryInv
<1>5. OwnInv(R)'
  <2>1. DOMAIN own = Clients
    BY DEF RegistryInv, OwnInv
  <2> QED
    BY <1>1, <2>1 DEF OwnInv
<1>6. LiveInv(R)' /\ MemInv(R)' /\ ObjsInv'
  BY <1>1, <1>3, EmptySequence DEF LiveInv, MemInv, ObjsInv
<1>7. CountInv(R)'
  <2>1. IsFiniteSet(Held(own)) /\ IsFiniteSet(UsesBy(R, live)) /\ device = SetToBag(Shaders(live))
    BY DEF RegistryInv, CountInv
  <2> QED
    BY <1>1, <1>2, <2>1 DEF CountInv
<1>8. IdleInv'
  BY <1>1, <1>3, EmptySequence DEF IdleInv
<1>9. /\ faults' \subseteq Misfit' /\ fields \in Range(FieldSetups)
      /\ DOMAIN copies' = Clients /\ \A d \in Clients : copies'[d] = None
  BY <1>1, NobodyIdle, BitsStay DEF SessionInv
<1>10. IsSeq(pool') /\ IsSeq(rkeys') /\ IsSeq(enqueued') /\ DOMAIN enqueued' = {}
  BY <1>1, EmptySequence
<1>11. SessionInv(R)'
  BY <1>1, <1>8, <1>9, <1>10, IdleSession
<1> QED
  BY <1>4, <1>5, <1>6, <1>7, <1>11 DEF RegistryInv

\* Steps without an activation that change nothing but the fields of the render keys
\* and whether the renderer is up, and forget the assertions that failed.
LEMMA FieldsChange ==
  ASSUME NEW R, RegistryInv(R), SessionInv(R), active = None,
         fields' \in Range(FieldSetups), faults' = {},
         UNCHANGED <<scene, own, live, mem, activation, device>>
  PROVE  RegistryInv(R)' /\ SessionInv(R)'
<1>1. RegistryInv(R)'
  BY DEF activation, RegistryInv, SceneInv, OwnInv, LiveInv, MemInv, ObjsInv, CountInv
<1>2. /\ IdleInv' /\ active' = None /\ live' \subseteq DOMAIN mem'
      /\ IsSeq(pool') /\ IsSeq(rkeys') /\ IsSeq(enqueued')
      /\ \A i \in DOMAIN enqueued' : DOMAIN enqueued'[i] = {"key", "object", "current"}
  BY DEF activation, SessionInv, IdleInv, RegistryInv, LiveInv
<1>3. DOMAIN copies' = Clients /\ \A c \in Clients : copies'[c] = None
  BY NobodyIdle DEF activation
<1>4. SessionInv(R)'
  BY <1>2, <1>3, IdleSession
<1> QED
  BY <1>1, <1>4

\* Steps that change nothing.
LEMMA Stutters ==
  ASSUME NEW R, RegistryInv(R), SessionInv(R), UNCHANGED vars
  PROVE  RegistryInv(R)' /\ SessionInv(R)'
<1>1. UNCHANGED <<scene, own, up, live, mem, objs, vps, decls, shdrs, rkeys,
                  pool, active, fields, device, faults, enqueued, copies>>
  BY DEF vars, activation
<1>2. \A c : Reserved(c)' = Reserved(c)
  BY <1>1 DEF Reserved
<1>3. CopiesInv'
  BY <1>1, <1>2 DEF SessionInv, CopiesInv
<1>4. faults' \subseteq Misfit /\ IsSeq(enqueued')
  BY <1>1 DEF SessionInv
<1>5. \A i \in DOMAIN enqueued' :
        /\ DOMAIN enqueued'[i] = {"key", "object", "current"}
        /\ enqueued'[i].current =>
             active # None /\ Selects(rkeys, enqueued'[i].key, enqueued'[i].object)
  BY <1>1 DEF SessionInv, IdleInv
<1> QED
  BY <1>1, <1>3, <1>4, <1>5, DrawingKeeps

(* Every step keeps the invariant.                                           *)
LEMMA StepInvariant ==
  ASSUME IInv, [Next]_vars PROVE IInv'
<1>1. PICK S \in Scenes : RegistryInv(RegistrationsOf(S)) /\ SessionInv(RegistrationsOf(S))
  BY DEF IInv
<1> DEFINE R == RegistrationsOf(S)
<1>2. RegistryInv(R) /\ SessionInv(R) /\ fields \in Range(FieldSetups)
  BY <1>1 DEF SessionInv
<1> HIDE DEF R
<1>3. CASE Initialize
  <2>1. FieldSetups[1] \in Range(FieldSetups)
    BY LimitAssumption DEF Range
  <2>2. active = None
    BY <1>2, <1>3 DEF Initialize, SessionInv
  <2> QED
    BY <1>2, <1>3, <2>1, <2>2, FieldsChange DEF Initialize, IInv, R
<1>4. CASE Terminate
  BY <1>2, <1>4, TerminateKeeps DEF IInv, R
<1>5. CASE SetupRenderKey
  <2>1. fields' \in Range(FieldSetups)
    BY <1>5 DEF SetupRenderKey, Range
  <2>2. active = None
    BY <1>2, <1>5 DEF SetupRenderKey, SessionInv
  <2> QED
    BY <1>2, <1>5, <2>1, <2>2, FieldsChange DEF SetupRenderKey, IInv, R
<1>6. ASSUME NEW c \in Clients, NEW r \in scene[c], Register(c, r) \/ Release(c, r) PROVE IInv'
  BY <1>2, <1>6, RegistrationStep DEF IInv, R
<1>7. CASE ActivateRenderPasses
  BY <1>2, <1>7, ActivateKeeps DEF IInv, R
<1>8. CASE DeactivateRenderPasses
  BY <1>2, <1>8, DeactivateKeeps DEF IInv, R
<1>9. ASSUME NEW c \in Clients, EnqueueReserve(c) \/ EnqueueCopy(c) PROVE IInv'
  BY <1>2, <1>9, EnqueueReserveKeeps, EnqueueCopyKeeps DEF IInv, R
<1>10. CASE PrepareDraw
  BY <1>2, <1>10, PrepareKeeps DEF IInv, R
<1>11. CASE UNCHANGED vars
  BY <1>2, <1>11, Stutters DEF IInv, R
<1> QED
  BY <1>3, <1>4, <1>5, <1>6, <1>7, <1>8, <1>9, <1>10, <1>11 DEF Next

(* The invariant of the tables and of the activation holds in every state: each
   operation of the renderer takes it from the ones before
   (renderer.cpp:752-782, 928-1861).                                          *)
THEOREM InductiveInvariant == Spec => []IInv
<1>1. IInv /\ [Next]_vars => IInv'
  BY StepInvariant
<1> QED
  BY <1>1, InitialInvariant, PTL DEF Spec

------------------------------------------------------------------------------
\* The invariant implies that the tables and arrays point at memory there is.
LEMMA TypeFollows == IInv => TypeOK
<1> SUFFICES ASSUME IInv PROVE TypeOK
  OBVIOUS
<1>1. PICK S \in Scenes : RegistryInv(RegistrationsOf(S)) /\ SessionInv(RegistrationsOf(S))
  BY DEF IInv
<1> DEFINE R == RegistrationsOf(S)
<1>2. RegistryInv(R) /\ SessionInv(R)
  BY <1>1
<1> HIDE DEF R
<1>3. live \subseteq DOMAIN mem /\ \A c \in Clients : own[c] \subseteq scene[c]
  BY <1>2 DEF RegistryInv, LiveInv, OwnInv
<1>4. ASSUME NEW k \in DOMAIN mem
      PROVE  /\ mem[k].refs \in Nat /\ mem[k].act \in Nat \cup {None}
             /\ Keys(mem[k].deps) \subseteq DOMAIN mem
             /\ Range(mem[k].bufs) \subseteq DOMAIN pool
  BY <1>2 DEF RegistryInv, MemInv, IsEntry, Keys, Among
<1>5. Range(objs) \cup Range(vps) \cup Range(decls) \cup Range(shdrs) \subseteq DOMAIN mem
  BY <1>2 DEF RegistryInv, ObjsInv, SessionInv, ArrayOK, Range
<1>6. active \in live \cup {None}
  BY <1>2 DEF SessionInv
<1>7. IsABag(device)
  BY <1>2, BagOfSet DEF RegistryInv, CountInv
<1> QED
  BY <1>3, <1>4, <1>5, <1>6, <1>7 DEF TypeOK

\* The invariant counts what CountsMatch counts.
LEMMA CountsFollow == IInv => CountsMatch
<1> SUFFICES ASSUME IInv PROVE CountsMatch
  OBVIOUS
<1>1. PICK S \in Scenes : RegistryInv(RegistrationsOf(S)) /\ SessionInv(RegistrationsOf(S))
  BY DEF IInv
<1> DEFINE R == RegistrationsOf(S)
<1>2. RegistryInv(R)
  BY <1>1
<1> HIDE DEF R
<1>3. SceneInv(R) /\ OwnInv(R) /\ LiveInv(R) /\ MemInv(R) /\ CountInv(R)
  BY <1>2 DEF RegistryInv
<1>4. ASSUME NEW k PROVE Holders(k) = HeldOf(R, own, k)
  <2>1. \A h \in Held(own) : KeyOf(h[2]) = KeyIn(R, h[2])
    BY <1>3, KeyOfHeld DEF Held
  <2>2. Holders(k) = {h \in Held(own) : KeyOf(h[2]) = k}
    BY DEF Holders, Held
  <2> QED
    BY <2>1, <2>2 DEF HeldOf
<1>5. ASSUME NEW k PROVE Referrers(k) = UsesTo(R, live, k)
  <2>1. \A y \in live : mem[y].deps = Uses(R, y)
    BY <1>3 DEF LiveInv, MemInv
  <2>2. UNION {{y} \X DOMAIN mem[y].deps : y \in live} = UsesBy(R, live)
    BY <2>1 DEF UsesBy
  <2>3. \A x \in UsesBy(R, live) : mem[x[1]].deps = Uses(R, x[1])
    BY <2>1 DEF UsesBy
  <2> QED
    BY <2>2, <2>3 DEF Referrers, UsesTo
<1> QED
  BY <1>3, <1>4, <1>5 DEF CountInv, CountsMatch

\* The invariant's keys are those of KeysResolve.
LEMMA KeysFollow == IInv => KeysResolve
<1> SUFFICES ASSUME IInv PROVE KeysResolve
  OBVIOUS
<1>1. PICK S \in Scenes : RegistryInv(RegistrationsOf(S)) /\ SessionInv(RegistrationsOf(S))
  BY DEF IInv
<1> DEFINE R == RegistrationsOf(S)
<1>2. RegistryInv(R) /\ SessionInv(R)
  BY <1>1
<1> HIDE DEF R
<1>3. ASSUME NEW o \in live, NEW i \in DOMAIN mem[o].keys
      PROVE  active # None /\ Selects(rkeys, mem[o].keys[i], o)
  <2>1. active # None
    BY <1>2, <1>3, EmptySequence DEF SessionInv, IdleInv, RegistryInv, LiveInv
  <2> QED
    BY <1>2, <2>1 DEF SessionInv, KeysSelect
<1>4. \A i \in DOMAIN enqueued :
        enqueued[i].current => Selects(rkeys, enqueued[i].key, enqueued[i].object)
  BY <1>2 DEF SessionInv
<1>5. \A c, d \in Clients :
        c # d /\ None \notin {copies[c], copies[d]} => Reserved(c) \cap Reserved(d) = {}
  BY <1>2 DEF SessionInv, CopiesInv
<1> QED
  BY <1>3, <1>4, <1>5 DEF KeysResolve, Selects

(* No pointer of the renderer dangles: items in the tables, in gRenderObjArray,
   which outlive their release there, and in the arrays of an activation, point at
   slots that are in memory, and a vertex data's buffers are the pool's
   (renderer.cpp:928-1861).                                                  *)
THEOREM TypeCorrect == Spec => []TypeOK
BY InductiveInvariant, TypeFollows, PTL

(* The reference count of every item is the number of its registrations, of the
   items that use it and of the activations of it, whoever registers and releases
   in whatever order; what has a count stays, and the device has exactly the
   shaders in use (renderer.cpp:928-1666).                                    *)
THEOREM CountsMatchHolds == Spec => []CountsMatch
BY InductiveInvariant, CountsFollow, PTL

(* Clients that release what uses an item before the item, and change nothing in
   an activation, make no assertion of registration, release, activation,
   deactivation or drawing fail (renderer.cpp:752-782, 928-1901), but the one of
   PrepareDraw on the bits left for the index, and that only with fields that leave
   none or more than 31 (renderer.cpp:1887-1889).  The default fields leave 40.  *)
THEOREM ChecksHoldHolds == Spec => []ChecksHold
<1>1. IInv => ChecksHold
  BY DEF IInv, SessionInv, ChecksHold, Misfit
<1> QED
  BY <1>1, InductiveInvariant, PTL

(* The render keys of an object, and those enqueued and copied in the current
   activation, select render keys made for it in that activation of items in the
   tables; they survive sorting and there is none without an activation.  With
   fields that pass the check of PrepareDraw, the index it reads back from a key is
   the index the key was made with.  Clients that enqueue at once have slots of
   their own (renderer.cpp:624-652, 1668-1901).                                *)
THEOREM KeysResolveHolds == Spec => []KeysResolve
BY InductiveInvariant, KeysFollow, PTL

==============================================================================
