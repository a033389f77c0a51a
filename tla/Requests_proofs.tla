---------------------------- MODULE Requests_proofs ----------------------------
(***************************************************************************)
(* Proofs about the requests that overlap: the pushes to a project, the    *)
(* owner's settings, the sign-in of a terminal and the scans of the web    *)
(* server, for any number of them and any limit.                           *)
(***************************************************************************)
EXTENDS Requests, Naturals, FiniteSets, Sequences, FiniteSetTheorems, FunctionTheorems, SequenceTheorems, TLAPS

-----------------------------------------------------------------------------
(***************************************************************************)
(* Those that are under way, of finitely many.                             *)
(***************************************************************************)

LEMMA Joining ==
  ASSUME NEW Y, IsFiniteSet(Y), NEW X \in SUBSET Y
  PROVE  Cardinality(X) \in Nat /\ Cardinality(Y) \in Nat /\ Cardinality(X) <= Cardinality(Y) /\ IsFiniteSet(X)
  BY FS_Subset, FS_CardinalityType

LEMMA Leaving ==
  ASSUME NEW Y, IsFiniteSet(Y), NEW X \in SUBSET Y, NEW x \in X
  PROVE  Cardinality(X \ {x}) = Cardinality(X) - 1
  BY FS_Subset, FS_RemoveElement

-----------------------------------------------------------------------------
(***************************************************************************)
(* Projects.                                                               *)
(***************************************************************************)

Eco == P!Ecosystem
ManifestRow == [path : {PathOf[f] : f \in File}, ecosystem : Eco, file : File]
Push == [at : {"idle", "read", "loaded", "written"}, file : File \cup {P!Null},
         mirror : File \cup {P!Null}, rows : Seq(ManifestRow)]

ProjectsTypeOK ==
  /\ target \in [there : BOOLEAN, ecosystem : Eco \cup {P!Null}, mirror : File \cup {P!Null}]
  /\ manifests \in Seq(ManifestRow)
  /\ push \in [Pusher \cup WebTab -> Push]

\* A project has one ecosystem for good, and so have its manifests and what
\* is about to replace them.
OfOneEcosystem ==
  /\ \A i \in DOMAIN manifests :
       manifests[i].ecosystem = target.ecosystem /\ EcoOf[manifests[i].file] = target.ecosystem
  /\ target.there => target.ecosystem # P!Null
  /\ \A p \in Pusher \cup WebTab :
       push[p].at # "idle" => push[p].file \in File /\ target.ecosystem # P!Null
  /\ \A w \in WebTab : push[w].at # "idle" => EcoOf[push[w].file] = target.ecosystem
  /\ \A p \in Pusher :
       push[p].at = "loaded" /\ push[p].mirror # push[p].file => EcoOf[push[p].file] = target.ecosystem

ReplacingInv == ProjectsTypeOK /\ OfOneEcosystem

LEMMA IdlePush == P!Idle \in Push /\ P!Idle.at = "idle"
<1>1. <<>> \in Seq(ManifestRow)
  OBVIOUS
<1> QED
  BY <1>1 DEF P!Idle, Push

\* What a step may do to the requests and to the rows.
LEMMA ReplacingStep ==
  ASSUME ReplacingInv, ProjectsTypeOK', target'.ecosystem = target.ecosystem,
         target'.there => target.there,
         \A i \in DOMAIN manifests' :
           manifests'[i].ecosystem = target.ecosystem /\ EcoOf[manifests'[i].file] = target.ecosystem,
         \A p \in Pusher \cup WebTab :
           \/ push'[p] = push[p]
           \/ push'[p].at = "idle"
           \/ /\ push'[p].file \in File /\ target.there
              /\ p \in WebTab => EcoOf[push'[p].file] = target.ecosystem
              /\ push'[p].at = "loaded" /\ push'[p].mirror # push'[p].file
                   => EcoOf[push'[p].file] = target.ecosystem
           \/ /\ p \in WebTab /\ push[p].at # "idle"
              /\ push'[p].file = push[p].file /\ push'[p].mirror = push[p].mirror,
         Pusher \cap WebTab = {}
  PROVE  ReplacingInv'
  BY DEF ReplacingInv, OfOneEcosystem

LEMMA NewRow ==
  ASSUME P!ProjectsAssumption, NEW f \in File
  PROVE  P!Row(f) \in ManifestRow /\ P!Row(f).ecosystem = EcoOf[f] /\ P!Row(f).file = f
  BY DEF P!Row, ManifestRow, Eco, P!Ecosystem

LEMMA HeldRow ==
  ASSUME NEW f \in File, NEW r \in ManifestRow
  PROVE  P!Holding(r, f) \in ManifestRow /\ P!Holding(r, f).ecosystem = r.ecosystem /\ P!Holding(r, f).file = f
  BY DEF P!Holding, ManifestRow

\* The rows after a file was added, or put in the place of the first.
LEMMA AddedRow ==
  ASSUME P!ProjectsAssumption, ReplacingInv, NEW f \in File, EcoOf[f] = target.ecosystem,
         NEW m, m = Append(manifests, P!Row(f))
  PROVE  /\ m \in Seq(ManifestRow)
         /\ \A i \in DOMAIN m : m[i].ecosystem = target.ecosystem /\ EcoOf[m[i].file] = target.ecosystem
<1> DEFINE r == P!Row(f)
<1>1. r \in ManifestRow /\ r.ecosystem = EcoOf[f] /\ r.file = f
  BY NewRow
<1>2. manifests \in Seq(ManifestRow)
  BY DEF ReplacingInv, ProjectsTypeOK
<1> HIDE DEF r
<1>3. /\ Append(manifests, r) \in Seq(ManifestRow) /\ Len(Append(manifests, r)) = Len(manifests) + 1
      /\ \A i \in 1..Len(manifests) : Append(manifests, r)[i] = manifests[i]
      /\ Append(manifests, r)[Len(manifests) + 1] = r
  BY <1>1, <1>2, AppendProperties
<1>4. m = Append(manifests, r)
  BY DEF r
<1>5. Len(manifests) \in Nat /\ DOMAIN manifests = 1..Len(manifests) /\ DOMAIN m = 1..Len(m)
  BY <1>2, <1>3, <1>4, LenProperties
<1>6. \A i \in DOMAIN m : m[i] = r \/ (i \in DOMAIN manifests /\ m[i] = manifests[i])
  BY <1>3, <1>4, <1>5
<1> QED
  BY <1>1, <1>3, <1>4, <1>6 DEF ReplacingInv, OfOneEcosystem

LEMMA FirstRow ==
  ASSUME ReplacingInv, NEW f \in File, EcoOf[f] = target.ecosystem,
         NEW m, m = [i \in DOMAIN manifests |-> IF i = 1 THEN P!Holding(manifests[i], f) ELSE manifests[i]]
  PROVE  /\ m \in Seq(ManifestRow)
         /\ \A i \in DOMAIN m : m[i].ecosystem = target.ecosystem /\ EcoOf[m[i].file] = target.ecosystem
<1>1. manifests \in Seq(ManifestRow) /\ Len(manifests) \in Nat /\ DOMAIN manifests = 1..Len(manifests)
  BY LenProperties DEF ReplacingInv, ProjectsTypeOK
<1>2. ASSUME NEW i \in 1..Len(manifests)
      PROVE  /\ m[i] \in ManifestRow /\ m[i].ecosystem = manifests[i].ecosystem
             /\ m[i].file = f \/ m[i].file = manifests[i].file
  <2>1. manifests[i] \in ManifestRow
    BY <1>1
  <2>2. m[i] = P!Holding(manifests[i], f) \/ m[i] = manifests[i]
    BY <1>1
  <2> QED
    BY <2>1, <2>2, HeldRow
<1>3. m \in [1..Len(manifests) -> ManifestRow]
  BY <1>1, <1>2
<1>4. m \in Seq(ManifestRow) /\ DOMAIN m = DOMAIN manifests
  BY <1>1, <1>3, SeqDef
<1> QED
  BY <1>1, <1>2, <1>4 DEF ReplacingInv, OfOneEcosystem

LEMMA PushTyped ==
  ASSUME ProjectsTypeOK, NEW p \in Pusher \cup WebTab, NEW e \in Push, push' = [push EXCEPT ![p] = e]
  PROVE  /\ push' \in [Pusher \cup WebTab -> Push] /\ push'[p] = e
         /\ \A q \in Pusher \cup WebTab : q # p => push'[q] = push[q]
  BY DEF ProjectsTypeOK

\* A request is read, or ends, and the project stays.
LEMMA RequestStep ==
  ASSUME P!ProjectsAssumption, ReplacingInv, UNCHANGED <<target, manifests>>, NEW p \in Pusher \cup WebTab,
         \/ p \in Pusher /\ \E f \in File : P!authenticate_push(p, f)
         \/ p \in Pusher /\ (P!load_manifests(p) \/ P!refuse_push(p) \/ P!scan_unchanged(p) \/ P!push_fails(p))
         \/ p \in WebTab /\ \E f \in File : P!WebReads(p, f)
         \/ p \in WebTab /\ (P!WebFinds(p) \/ P!WebFails(p))
  PROVE  ReplacingInv'
<1>1. /\ ProjectsTypeOK /\ push[p] \in Push /\ manifests \in Seq(ManifestRow)
      /\ target \in [there : BOOLEAN, ecosystem : Eco \cup {P!Null}, mirror : File \cup {P!Null}]
  BY DEF ReplacingInv, ProjectsTypeOK
<1>2. Pusher \cap WebTab = {}
  BY DEF P!ProjectsAssumption
<1>3. ASSUME NEW e \in Push, push' = [push EXCEPT ![p] = e],
             \/ e.at = "idle"
             \/ /\ e.file \in File /\ target.there
                /\ p \in WebTab => EcoOf[e.file] = target.ecosystem
                /\ e.at = "loaded" /\ e.mirror # e.file => EcoOf[e.file] = target.ecosystem
             \/ p \in WebTab /\ push[p].at # "idle" /\ e.file = push[p].file /\ e.mirror = push[p].mirror
      PROVE  ReplacingInv'
  <2>1. /\ push' \in [Pusher \cup WebTab -> Push] /\ push'[p] = e
        /\ \A q \in Pusher \cup WebTab : q # p => push'[q] = push[q]
    BY <1>1, <1>3, PushTyped
  <2>2. ProjectsTypeOK'
    BY <1>1, <2>1 DEF ProjectsTypeOK
  <2>3. \A i \in DOMAIN manifests' :
           manifests'[i].ecosystem = target.ecosystem /\ EcoOf[manifests'[i].file] = target.ecosystem
    BY DEF ReplacingInv, OfOneEcosystem
  <2> QED
    BY <1>2, <1>3, <2>1, <2>2, <2>3, ReplacingStep
<1>4. CASE push' = [push EXCEPT ![p] = P!Idle]
  BY <1>3, <1>4, IdlePush
<1>5. ASSUME NEW f \in File, p \in Pusher, P!authenticate_push(p, f)
      PROVE  ReplacingInv'
  <2> DEFINE e == [P!Idle EXCEPT !.at = "read", !.file = f, !.mirror = target.mirror]
  <2>1. push' = [push EXCEPT ![p] = e] /\ target.there
    BY <1>5 DEF P!authenticate_push
  <2>2. target.mirror \in File \cup {P!Null}
    BY <1>1
  <2>3. e \in Push /\ e.at = "read" /\ e.file = f
    BY <2>2, IdlePush DEF Push
  <2> HIDE DEF e
  <2> QED
    BY <1>2, <1>3, <1>5, <2>1, <2>3
<1>6. CASE p \in Pusher /\ P!load_manifests(p)
  <2> DEFINE e == [push[p] EXCEPT !.at = "loaded", !.rows = manifests]
  <2>1. push' = [push EXCEPT ![p] = e] /\ target.there /\ push[p].at = "read"
    BY <1>1, <1>6 DEF P!load_manifests, ProjectsTypeOK
  <2>2. e \in Push /\ e.file = push[p].file /\ e.mirror = push[p].mirror
    BY <1>1 DEF Push
  <2>3. push[p].mirror = push[p].file \/ EcoOf[push[p].file] = (IF manifests = <<>> THEN target.ecosystem ELSE manifests[1].ecosystem)
    BY <1>6 DEF P!load_manifests, P!Unchanged, P!Accepted
  <2>4. manifests = <<>> \/ 1 \in DOMAIN manifests
    BY <1>1, EmptySeq, LenProperties
  <2>5. push[p].mirror = push[p].file \/ EcoOf[push[p].file] = target.ecosystem
    BY <2>3, <2>4 DEF ReplacingInv, OfOneEcosystem
  <2>6. push[p].file \in File /\ p \notin WebTab
    BY <1>2, <1>6, <2>1 DEF ReplacingInv, OfOneEcosystem
  <2> HIDE DEF e
  <2> QED
    BY <1>3, <2>1, <2>2, <2>5, <2>6
<1>7. ASSUME NEW f \in File, p \in WebTab, P!WebReads(p, f)
      PROVE  ReplacingInv'
  <2> DEFINE e == [P!Idle EXCEPT !.at = "read", !.file = f]
  <2>1. push' = [push EXCEPT ![p] = e] /\ target.there /\ EcoOf[f] = target.ecosystem
    BY <1>7 DEF P!WebReads
  <2>2. e \in Push /\ e.at = "read" /\ e.file = f
    BY IdlePush DEF Push
  <2> HIDE DEF e
  <2> QED
    BY <1>3, <2>1, <2>2
<1>8. CASE p \in WebTab /\ P!WebFinds(p)
  <2> DEFINE e == [push[p] EXCEPT !.at = "loaded", !.rows = manifests]
  <2>1. push' = [push EXCEPT ![p] = e] /\ push[p].at = "read"
    BY <1>1, <1>8 DEF P!WebFinds, ProjectsTypeOK
  <2>2. e \in Push /\ e.file = push[p].file /\ e.mirror = push[p].mirror
    BY <1>1 DEF Push
  <2> HIDE DEF e
  <2> QED
    BY <1>3, <1>8, <2>1, <2>2
<1> QED
  BY <1>4, <1>5, <1>6, <1>7, <1>8 DEF P!refuse_push, P!scan_unchanged, P!push_fails, P!Answered, P!WebFails

\* The rows change, or the project does.
LEMMA ProjectStep ==
  ASSUME P!ProjectsAssumption, ReplacingInv,
         \/ \E e \in Eco : P!create_empty_target(e)
         \/ \E f \in File : P!create_target(f)
         \/ P!delete_target
         \/ UNCHANGED <<target, manifests, push>>
  PROVE  ReplacingInv'
<1>1. /\ ProjectsTypeOK /\ manifests \in Seq(ManifestRow) /\ push \in [Pusher \cup WebTab -> Push]
      /\ target \in [there : BOOLEAN, ecosystem : Eco \cup {P!Null}, mirror : File \cup {P!Null}]
  BY DEF ReplacingInv, ProjectsTypeOK
<1>2. <<>> \in Seq(ManifestRow) /\ DOMAIN <<>> = {}
  OBVIOUS
<1>3. UNCHANGED push
  BY DEF P!create_empty_target, P!create_target, P!delete_target
<1>4. ASSUME NEW e \in Eco, P!create_empty_target(e)
      PROVE  ReplacingInv'
  <2>1. /\ ~target.there /\ target.ecosystem = P!Null
        /\ target' = [there |-> TRUE, ecosystem |-> e, mirror |-> P!Null] /\ UNCHANGED manifests
    BY <1>4 DEF P!create_empty_target
  <2>2. e # P!Null
    BY DEF P!ProjectsAssumption, Eco
  <2>3. ProjectsTypeOK'
    BY <1>1, <1>3, <2>1 DEF ProjectsTypeOK
  <2>4. \A p \in Pusher \cup WebTab : push[p].at = "idle"
    BY <2>1 DEF ReplacingInv, OfOneEcosystem
  <2>5. ASSUME NEW i \in DOMAIN manifests
        PROVE  FALSE
    <3>1. manifests[i] \in ManifestRow
      BY <1>1, LenProperties
    <3>2. manifests[i].ecosystem \in Eco
      BY <3>1 DEF ManifestRow
    <3>3. manifests[i].ecosystem = P!Null
      BY <2>1 DEF ReplacingInv, OfOneEcosystem
    <3> QED
      BY <3>2, <3>3 DEF P!ProjectsAssumption, Eco
  <2> QED
    BY <1>3, <2>1, <2>2, <2>3, <2>4, <2>5 DEF ReplacingInv, OfOneEcosystem
<1>5. ASSUME NEW f \in File, P!create_target(f)
      PROVE  ReplacingInv'
  <2> DEFINE r == P!Row(f)
  <2>1. /\ ~target.there /\ target.ecosystem = P!Null
        /\ target' = [there |-> TRUE, ecosystem |-> EcoOf[f], mirror |-> f] /\ manifests' = <<r>>
    BY <1>5 DEF P!create_target
  <2>2. EcoOf[f] \in Eco /\ EcoOf[f] # P!Null
    BY DEF P!ProjectsAssumption, Eco
  <2>3. r \in ManifestRow /\ r.ecosystem = EcoOf[f] /\ r.file = f
    BY NewRow
  <2> HIDE DEF r
  <2>4. manifests' \in Seq(ManifestRow) /\ DOMAIN manifests' = {1} /\ manifests'[1] = r
    BY <2>1, <2>3
  <2>5. ProjectsTypeOK'
    BY <1>1, <1>3, <2>1, <2>2, <2>4 DEF ProjectsTypeOK
  <2>6. \A p \in Pusher \cup WebTab : push[p].at = "idle"
    BY <2>1 DEF ReplacingInv, OfOneEcosystem
  <2> QED
    BY <1>3, <2>1, <2>2, <2>3, <2>4, <2>5, <2>6 DEF ReplacingInv, OfOneEcosystem
<1>6. CASE P!delete_target
  <2>1. target' = [target EXCEPT !.there = FALSE] /\ manifests' = <<>>
    BY <1>6 DEF P!delete_target
  <2>2. ProjectsTypeOK'
    BY <1>1, <1>2, <1>3, <2>1 DEF ProjectsTypeOK
  <2> QED
    BY <1>1, <1>2, <1>3, <2>1, <2>2 DEF ReplacingInv, OfOneEcosystem
<1>7. CASE UNCHANGED <<target, manifests, push>>
  BY <1>7 DEF ReplacingInv, OfOneEcosystem, ProjectsTypeOK
<1> QED
  BY <1>4, <1>5, <1>6, <1>7

LEMMA WritingStep ==
  ASSUME P!ProjectsAssumption, ReplacingInv,
         \/ \E p \in Pusher : P!replace_manifest(p)
         \/ \E w \in WebTab : P!WebWrites(w) \/ P!WebMirrors(w)
  PROVE  ReplacingInv'
<1>1. /\ ProjectsTypeOK /\ manifests \in Seq(ManifestRow) /\ push \in [Pusher \cup WebTab -> Push]
      /\ target \in [there : BOOLEAN, ecosystem : Eco \cup {P!Null}, mirror : File \cup {P!Null}]
  BY DEF ReplacingInv, ProjectsTypeOK
<1>2. Pusher \cap WebTab = {}
  BY DEF P!ProjectsAssumption
<1>3. ASSUME NEW p \in Pusher \cup WebTab, NEW e \in Push, push' = [push EXCEPT ![p] = e],
             \/ e.at = "idle"
             \/ p \in WebTab /\ push[p].at # "idle" /\ e.file = push[p].file /\ e.mirror = push[p].mirror,
             manifests' \in Seq(ManifestRow),
             \A i \in DOMAIN manifests' :
               manifests'[i].ecosystem = target.ecosystem /\ EcoOf[manifests'[i].file] = target.ecosystem,
             target' = target \/ \E f \in File : target' = [target EXCEPT !.mirror = f]
      PROVE  ReplacingInv'
  <2>1. /\ push' \in [Pusher \cup WebTab -> Push] /\ push'[p] = e
        /\ \A q \in Pusher \cup WebTab : q # p => push'[q] = push[q]
    BY <1>1, <1>3, PushTyped
  <2>2. /\ target' \in [there : BOOLEAN, ecosystem : Eco \cup {P!Null}, mirror : File \cup {P!Null}]
        /\ target'.ecosystem = target.ecosystem /\ target'.there = target.there
    BY <1>1, <1>3
  <2>3. ProjectsTypeOK'
    BY <1>3, <2>1, <2>2 DEF ProjectsTypeOK
  <2> QED
    BY <1>2, <1>3, <2>1, <2>2, <2>3, ReplacingStep
<1>4. ASSUME NEW p \in Pusher, P!replace_manifest(p)
      PROVE  ReplacingInv'
  <2> DEFINE f == push[p].file
             old == push[p].rows
  <2>1. /\ push[p].at = "loaded" /\ push[p].mirror # push[p].file
        /\ target' = [target EXCEPT !.mirror = f] /\ push' = [push EXCEPT ![p] = P!Idle]
        /\ manifests' = IF old = <<>> THEN Append(manifests, P!Row(f))
                        ELSE IF old[1].file = f THEN manifests
                        ELSE [manifests EXCEPT ![1] = P!Holding(manifests[1], f)]
    BY <1>4 DEF P!replace_manifest, P!Unchanged, P!Answered
  <2>2. f \in File /\ EcoOf[f] = target.ecosystem
    BY <2>1 DEF ReplacingInv, OfOneEcosystem
  <2> HIDE DEF f, old
  <2>3. [manifests EXCEPT ![1] = P!Holding(manifests[1], f)] =
          [i \in DOMAIN manifests |-> IF i = 1 THEN P!Holding(manifests[i], f) ELSE manifests[i]]
    BY <1>1
  <2>4. /\ manifests' \in Seq(ManifestRow)
        /\ \A i \in DOMAIN manifests' :
              manifests'[i].ecosystem = target.ecosystem /\ EcoOf[manifests'[i].file] = target.ecosystem
    <3>1. CASE manifests' = manifests
      BY <1>1, <3>1 DEF ReplacingInv, OfOneEcosystem
    <3>2. CASE manifests' = Append(manifests, P!Row(f))
      BY <2>2, <3>2, AddedRow
    <3>3. CASE manifests' = [i \in DOMAIN manifests |-> IF i = 1 THEN P!Holding(manifests[i], f) ELSE manifests[i]]
      BY <2>2, <3>3, FirstRow
    <3> QED
      BY <2>1, <2>3, <3>1, <3>2, <3>3
  <2> QED
    BY <1>3, <2>1, <2>2, <2>4, IdlePush
<1>5. ASSUME NEW w \in WebTab, P!WebWrites(w)
      PROVE  ReplacingInv'
  <2> DEFINE f == push[w].file
             e == [push[w] EXCEPT !.at = "written"]
  <2>1. /\ push[w].at = "loaded" /\ UNCHANGED target /\ push' = [push EXCEPT ![w] = e]
        /\ \/ manifests' = Append(manifests, P!Row(f))
           \/ manifests' = [i \in DOMAIN manifests |-> IF i = 1 THEN P!Holding(manifests[i], f) ELSE manifests[i]]
    BY <1>1, <1>5 DEF P!WebWrites
  <2>2. f \in File /\ EcoOf[f] = target.ecosystem
    BY <2>1 DEF ReplacingInv, OfOneEcosystem
  <2>3. e \in Push /\ e.file = push[w].file /\ e.mirror = push[w].mirror
    BY <1>1 DEF Push
  <2> HIDE DEF f, e
  <2>4. /\ manifests' \in Seq(ManifestRow)
        /\ \A i \in DOMAIN manifests' :
              manifests'[i].ecosystem = target.ecosystem /\ EcoOf[manifests'[i].file] = target.ecosystem
    <3>1. CASE manifests' = Append(manifests, P!Row(f))
      BY <2>2, <3>1, AddedRow
    <3>2. CASE manifests' = [i \in DOMAIN manifests |-> IF i = 1 THEN P!Holding(manifests[i], f) ELSE manifests[i]]
      BY <2>2, <3>2, FirstRow
    <3> QED
      BY <2>1, <3>1, <3>2
  <2> QED
    BY <1>3, <2>1, <2>3, <2>4
<1>6. ASSUME NEW w \in WebTab, P!WebMirrors(w)
      PROVE  ReplacingInv'
  <2>1. /\ push[w].at = "written" /\ UNCHANGED manifests /\ push' = [push EXCEPT ![w] = P!Idle]
        /\ target' = target \/ target' = [target EXCEPT !.mirror = push[w].file]
    BY <1>6 DEF P!WebMirrors
  <2>2. push[w].file \in File
    BY <2>1 DEF ReplacingInv, OfOneEcosystem
  <2>3. \A i \in DOMAIN manifests' :
          manifests'[i].ecosystem = target.ecosystem /\ EcoOf[manifests'[i].file] = target.ecosystem
    BY <2>1 DEF ReplacingInv, OfOneEcosystem
  <2> QED
    BY <1>1, <1>3, <2>1, <2>2, <2>3, IdlePush
<1> QED
  BY <1>4, <1>5, <1>6

LEMMA InitReplacing ==
  ASSUME P!Init
  PROVE  ReplacingInv
<1>1. <<>> \in Seq(ManifestRow) /\ DOMAIN <<>> = {}
  OBVIOUS
<1> QED
  BY <1>1, IdlePush DEF P!Init, ReplacingInv, ProjectsTypeOK, OfOneEcosystem

LEMMA ReplacingInvariance ==
  ASSUME P!ProjectsAssumption, ReplacingInv, [P!Next]_(P!vars)
  PROVE  ReplacingInv'
  BY RequestStep, ProjectStep, WritingStep
     DEF P!Next, P!vars, Eco, P!HourPasses, P!authenticate_push, P!load_manifests, P!refuse_push, P!scan_unchanged,
         P!push_fails, P!WebReads, P!WebFinds, P!WebFails

\* For any number of pushes, of any servers, by key or by the web page.
THEOREM ManifestsKeepTheirEcosystem ==
  ASSUME P!ProjectsAssumption
  PROVE  P!Spec => []NothingIsReinterpreted
<1>1. P!Init => ReplacingInv
  BY InitReplacing
<1>2. ReplacingInv /\ [P!Next]_(P!vars) => ReplacingInv'
  BY ReplacingInvariance
<1>3. ReplacingInv => NothingIsReinterpreted
  BY DEF ReplacingInv, OfOneEcosystem, NothingIsReinterpreted, P!NothingIsReinterpreted
<1> QED
  BY <1>1, <1>2, <1>3, PTL DEF P!Spec

\* Busy pipelines: each of them may have been counted before the others ended.
Busy == {p \in Pusher : push[p].at # "idle"}
Limit == api_scan_rate_limit_per_hour

RationingInv ==
  /\ runs \in Nat /\ pushed \in Nat
  /\ runs <= Limit /\ (runs < Limit => pushed <= runs)
  /\ pushed + Cardinality(Busy) <= Limit + Cardinality(Pusher) - 1

LEMMA CountedAlike == \A X : (P!IsFiniteSet(X) <=> IsFiniteSet(X)) /\ P!Cardinality(X) = Cardinality(X)
<1> SUFFICES ASSUME NEW X PROVE (P!IsFiniteSet(X) <=> IsFiniteSet(X)) /\ P!Cardinality(X) = Cardinality(X)
  OBVIOUS
<1>1. P!IsFiniteSet(X) <=> IsFiniteSet(X)
  BY DEF P!IsFiniteSet, IsFiniteSet
<1>2. P!Cardinality(X) = Cardinality(X)
  BY DEF P!Cardinality, Cardinality
<1> QED
  BY <1>1, <1>2

LEMMA RationingStep ==
  ASSUME P!ProjectsAssumption, ProjectsTypeOK, RationingInv, [P!Next]_(P!vars)
  PROVE  RationingInv'
<1>1. IsFiniteSet(Pusher) /\ Limit \in Nat \ {0} /\ Pusher \cap WebTab = {}
  BY CountedAlike DEF P!ProjectsAssumption, Limit
<1>2. /\ runs \in Nat /\ pushed \in Nat /\ runs <= Limit /\ (runs < Limit => pushed <= runs)
      /\ pushed + Cardinality(Busy) <= Limit + Cardinality(Pusher) - 1
  BY DEF RationingInv
<1>3. Busy \in SUBSET Pusher /\ Busy' \in SUBSET Pusher
  BY DEF Busy
<1>4. /\ Cardinality(Busy) \in Nat /\ Cardinality(Busy') \in Nat /\ Cardinality(Pusher) \in Nat
      /\ Cardinality(Busy) <= Cardinality(Pusher) /\ Cardinality(Busy') <= Cardinality(Pusher)
  BY <1>1, <1>3, Joining
<1>5. push \in [Pusher \cup WebTab -> Push]
  BY DEF ProjectsTypeOK
<1>6. ASSUME NEW p \in Pusher, NEW e, push' = [push EXCEPT ![p] = e], e.at = "idle", push[p].at # "idle"
      PROVE  Cardinality(Busy') = Cardinality(Busy) - 1
  <2>1. Busy' = Busy \ {p} /\ p \in Busy
    BY <1>5, <1>6 DEF Busy
  <2> QED
    BY <1>1, <1>3, <2>1, Leaving
<1>7. ASSUME NEW p \in Pusher \cup WebTab, NEW e, push' = [push EXCEPT ![p] = e],
             p \in Pusher => push[p].at # "idle" /\ e.at # "idle"
      PROVE  Busy' = Busy
  BY <1>1, <1>5, <1>7 DEF Busy
<1>8. ASSUME runs' = P!Counted(runs)
      PROVE  runs' \in Nat /\ runs' <= Limit /\ runs' >= runs /\ (runs < Limit => runs' = runs + 1)
  BY <1>1, <1>2, <1>8 DEF P!Counted, Limit
<1>9. ASSUME NEW p \in Pusher, NEW f \in File, P!authenticate_push(p, f)
      PROVE  RationingInv'
  <2>1. runs < Limit /\ UNCHANGED <<runs, pushed>>
    BY <1>9 DEF P!authenticate_push, P!check_rate_limit, Limit
  <2> QED
    BY <1>1, <1>2, <1>4, <2>1 DEF RationingInv, Limit
<1>10. ASSUME NEW p \in Pusher, P!load_manifests(p)
       PROVE  RationingInv'
  <2> DEFINE e == [push[p] EXCEPT !.at = "loaded", !.rows = manifests]
  <2>1. push' = [push EXCEPT ![p] = e] /\ push[p].at # "idle" /\ UNCHANGED <<runs, pushed>>
    BY <1>5, <1>10 DEF P!load_manifests
  <2>2. push[p] \in Push
    BY <1>5
  <2>3. e.at # "idle"
    BY <2>2 DEF Push
  <2> HIDE DEF e
  <2>4. Busy' = Busy
    BY <1>7, <2>1, <2>3
  <2> QED
    BY <1>2, <2>1, <2>4 DEF RationingInv, Limit
<1>11. ASSUME NEW p \in Pusher, P!refuse_push(p) \/ P!push_fails(p)
       PROVE  RationingInv'
  <2>1. push' = [push EXCEPT ![p] = P!Idle] /\ push[p].at # "idle" /\ UNCHANGED <<runs, pushed>>
    BY <1>11 DEF P!refuse_push, P!push_fails
  <2>2. Cardinality(Busy') = Cardinality(Busy) - 1
    BY <1>6, <2>1, IdlePush
  <2> QED
    BY <1>1, <1>2, <1>4, <2>1, <2>2 DEF RationingInv, Limit
<1>12. ASSUME NEW p \in Pusher, P!scan_unchanged(p) \/ P!replace_manifest(p)
       PROVE  RationingInv'
  <2>1. /\ push' = [push EXCEPT ![p] = P!Idle] /\ push[p].at # "idle"
        /\ runs' = P!Counted(runs) /\ pushed' = pushed + 1
    BY <1>12 DEF P!scan_unchanged, P!replace_manifest, P!Answered
  <2>2. Cardinality(Busy') = Cardinality(Busy) - 1
    BY <1>6, <2>1, IdlePush
  <2>3. runs' \in Nat /\ runs' <= Limit /\ runs' >= runs /\ (runs < Limit => runs' = runs + 1)
    BY <1>8, <2>1
  <2> QED
    BY <1>1, <1>2, <1>4, <2>1, <2>2, <2>3 DEF RationingInv, Limit
<1>13. ASSUME NEW w \in WebTab,
              (\E f \in File : P!WebReads(w, f)) \/ P!WebFinds(w) \/ P!WebWrites(w) \/ P!WebFails(w) \/ P!WebMirrors(w)
       PROVE  RationingInv'
  <2>1. PICK e : push' = [push EXCEPT ![w] = e]
    <3>1. \A x, y : [push EXCEPT ![w].at = x] = [push EXCEPT ![w] = [push[w] EXCEPT !.at = x]]
      BY <1>5
    <3>2. \A x, y : [push EXCEPT ![w].at = x, ![w].rows = y] = [push EXCEPT ![w] = [push[w] EXCEPT !.at = x, !.rows = y]]
      BY <1>5
    <3> QED
      BY <1>13, <3>1, <3>2 DEF P!WebReads, P!WebFinds, P!WebWrites, P!WebFails, P!WebMirrors
  <2>2. Busy' = Busy
    BY <1>1, <1>7, <2>1
  <2>3. UNCHANGED pushed /\ (UNCHANGED runs \/ runs' = P!Counted(runs))
    BY <1>13 DEF P!WebReads, P!WebFinds, P!WebWrites, P!WebFails, P!WebMirrors
  <2>4. runs' \in Nat /\ runs' <= Limit /\ runs' >= runs
    BY <1>2, <1>8, <2>3
  <2> QED
    BY <1>1, <1>2, <2>2, <2>3, <2>4 DEF RationingInv, Limit
<1>14. CASE P!HourPasses
  <2>1. runs' = 0 /\ pushed' = 0
    BY <1>14 DEF P!HourPasses
  <2> QED
    BY <1>1, <1>4, <2>1 DEF RationingInv, Limit
<1>15. CASE (\E e \in P!Ecosystem : P!create_empty_target(e)) \/ (\E f \in File : P!create_target(f))
            \/ P!delete_target \/ UNCHANGED P!vars
  <2>1. UNCHANGED <<push, runs, pushed>>
    BY <1>15 DEF P!create_empty_target, P!create_target, P!delete_target, P!vars
  <2> QED
    BY <1>2, <2>1 DEF RationingInv, Busy, Limit
<1> QED
  BY <1>9, <1>10, <1>11, <1>12, <1>13, <1>14, <1>15 DEF P!Next

\* No more pushes pass in an hour than the limit and those in flight with the last.
LEMMA PushesAreRationed ==
  ASSUME P!ProjectsAssumption
  PROVE  P!Spec => []P!PushesAreRationed
<1>1. P!Init => ReplacingInv /\ RationingInv
  <2> SUFFICES ASSUME P!Init PROVE ReplacingInv /\ RationingInv
    OBVIOUS
  <2>1. Busy = {}
    BY IdlePush DEF P!Init, Busy
  <2>2. Cardinality(Busy) = 0
    BY <2>1, FS_EmptySet
  <2>3. runs = 0 /\ pushed = 0 /\ Limit \in Nat \ {0} /\ Cardinality(Pusher) \in Nat
    BY CountedAlike, FS_CardinalityType DEF P!Init, P!ProjectsAssumption, Limit
  <2>4. RationingInv
    BY <2>2, <2>3 DEF RationingInv
  <2> QED
    BY <2>4, InitReplacing
<1>2. ReplacingInv /\ RationingInv /\ [P!Next]_(P!vars) => (ReplacingInv /\ RationingInv)'
  BY ReplacingInvariance, RationingStep DEF ReplacingInv
<1>3. ReplacingInv /\ RationingInv => P!PushesAreRationed
  <2> SUFFICES ASSUME RationingInv PROVE P!PushesAreRationed
    OBVIOUS
  <2>1. IsFiniteSet(Pusher) /\ Busy \in SUBSET Pusher /\ Limit \in Nat
    BY CountedAlike DEF P!ProjectsAssumption, Limit, Busy
  <2>2. Cardinality(Busy) \in Nat /\ Cardinality(Pusher) \in Nat
    BY <2>1, Joining
  <2>3. pushed <= Limit + Cardinality(Pusher) - 1
    BY <2>1, <2>2 DEF RationingInv
  <2> QED
    BY <2>3, CountedAlike DEF P!PushesAreRationed, Limit
<1> QED
  BY <1>1, <1>2, <1>3, PTL DEF P!Spec

-----------------------------------------------------------------------------
(***************************************************************************)
(* ProjectSettings: the keys.                                              *)
(***************************************************************************)

Asked ==
  {r \in [of : {"none", "key", "rotation", "profile", "web profile"}, profile : Profile \cup {S!Null}, others : Nat] :
     r.of \in {"profile", "web profile"} => r.profile \in Profile}

Rules == [own : Profile \cup {S!Null}, rules : Profile \cup {S!Null}]
Reading == [at : {"none", "read", "chosen", "asked"}, seen : Profile \cup {S!Null},
            inforce : SUBSET Rules, choice : Profile \cup {S!Null}]

\* Requests that have counted the keys, and may each add one.
Counting == {i \in Request : request[i].of \in {"key", "rotation"}}

SettingsTypeOK ==
  /\ stored \in SUBSET Profile
  /\ default \in stored \cup {S!Null} /\ assigned \in stored \cup {S!Null} /\ unset \in BOOLEAN
  /\ keys \in Nat /\ request \in [Request -> Asked]
  /\ scan \in [ScanJob -> Reading]

KeysInv ==
  /\ SettingsTypeOK
  /\ keys + Cardinality(Counting) <= MAX_ACTIVE_KEYS_PER_TARGET + Cardinality(Request) - 1

LEMMA SettingsCountAlike == \A X : (S!IsFiniteSet(X) <=> IsFiniteSet(X)) /\ S!Cardinality(X) = Cardinality(X)
<1> SUFFICES ASSUME NEW X PROVE (S!IsFiniteSet(X) <=> IsFiniteSet(X)) /\ S!Cardinality(X) = Cardinality(X)
  OBVIOUS
<1>1. S!IsFiniteSet(X) <=> IsFiniteSet(X)
  BY DEF S!IsFiniteSet, IsFiniteSet
<1>2. S!Cardinality(X) = Cardinality(X)
  BY DEF S!Cardinality, Cardinality
<1> QED
  BY <1>1, <1>2

LEMMA NobodyAsked == S!NoRequest \in Asked /\ S!NoRequest.of = "none"
  BY DEF S!NoRequest, Asked

LEMMA NothingRead == S!NoScan \in Reading /\ S!NoScan.at = "none"
  BY DEF S!NoScan, Reading

LEMMA AskedTyped ==
  ASSUME SettingsTypeOK, NEW i \in Request, NEW e \in Asked, request' = [request EXCEPT ![i] = e]
  PROVE  request' \in [Request -> Asked]
  BY DEF SettingsTypeOK

LEMMA WatchedTyped ==
  ASSUME SettingsTypeOK, default' \in Profile \cup {S!Null}, assigned' \in Profile \cup {S!Null}, scan' = S!Watched
  PROVE  scan' \in [ScanJob -> Reading]
<1>1. S!InForce' \in Rules
  BY DEF S!InForce, Rules
<1>2. ASSUME NEW s \in ScanJob
      PROVE  scan'[s] \in Reading
  <2>1. scan[s] \in Reading
    BY DEF SettingsTypeOK
  <2>2. CASE scan[s].at = "read"
    <3>1. scan'[s] = [scan[s] EXCEPT !.inforce = scan[s].inforce \cup {S!InForce'}]
      BY <2>2 DEF S!Watched
    <3> QED
      BY <1>1, <2>1, <3>1 DEF Reading
  <2>3. CASE scan[s].at # "read"
    BY <2>1, <2>3 DEF S!Watched
  <2> QED
    BY <2>2, <2>3
<1> QED
  BY <1>2 DEF S!Watched

LEMMA SettingsTyped ==
  ASSUME S!SettingsAssumption, SettingsTypeOK, [S!Next]_(S!vars)
  PROVE  SettingsTypeOK'
<1>1. /\ IsFiniteSet(Profile) /\ S!Null \notin Profile
      /\ stored \in SUBSET Profile /\ default \in stored \cup {S!Null} /\ assigned \in stored \cup {S!Null}
      /\ unset \in BOOLEAN /\ keys \in Nat /\ request \in [Request -> Asked] /\ scan \in [ScanJob -> Reading]
  BY SettingsCountAlike DEF S!SettingsAssumption, SettingsTypeOK
<1>2. S!Cardinality(stored) \in Nat
  BY <1>1, Joining, SettingsCountAlike
<1>3. ASSUME NEW i \in Request, NEW of \in {"key", "rotation"}, S!issue_api_key(i, of)
      PROVE  SettingsTypeOK'
  <2> DEFINE e == [S!NoRequest EXCEPT !.of = of, !.others = keys]
  <2>1. e \in Asked
    BY <1>1, NobodyAsked DEF Asked
  <2>2. request' = [request EXCEPT ![i] = e] /\ UNCHANGED <<stored, default, assigned, unset, keys, scan>>
    BY <1>3 DEF S!issue_api_key
  <2> HIDE DEF e
  <2> QED
    BY <1>1, <2>1, <2>2, AskedTyped DEF SettingsTypeOK
<1>4. ASSUME NEW i \in Request, S!create_key(i) \/ S!regenerate_key(i) \/ S!ProfileRefused(i)
      PROVE  SettingsTypeOK'
  <2>1. request' = [request EXCEPT ![i] = S!NoRequest] /\ UNCHANGED <<stored, default, assigned, unset, scan>>
    BY <1>4 DEF S!create_key, S!regenerate_key, S!ProfileRefused
  <2>2. keys' \in {keys, keys + 1}
    BY <1>4 DEF S!create_key, S!regenerate_key, S!ProfileRefused
  <2>3. keys' \in Nat
    BY <1>1, <2>2
  <2> QED
    BY <1>1, <2>1, <2>3, NobodyAsked, AskedTyped DEF SettingsTypeOK
<1>5. CASE S!revoke_api_key
  BY <1>1, <1>5 DEF S!revoke_api_key, SettingsTypeOK
<1>6. ASSUME NEW i \in Request, NEW p \in Profile, NEW of \in {"profile", "web profile"}, S!ReadProfiles(i, of, p)
      PROVE  SettingsTypeOK'
  <2> DEFINE e == [of |-> of, profile |-> p, others |-> S!Cardinality(stored)]
  <2>1. e \in Asked
    BY <1>2 DEF Asked
  <2>2. request' = [request EXCEPT ![i] = e] /\ UNCHANGED <<stored, default, assigned, unset, keys, scan>>
    BY <1>6 DEF S!ReadProfiles
  <2> HIDE DEF e
  <2> QED
    BY <1>1, <2>1, <2>2, AskedTyped DEF SettingsTypeOK
<1>7. ASSUME NEW i \in Request, S!create_profile(i) \/ S!WebCreatesProfile(i)
      PROVE  SettingsTypeOK'
  <2> DEFINE p == request[i].profile
  <2>1. /\ request' = [request EXCEPT ![i] = S!NoRequest] /\ UNCHANGED <<assigned, keys>> /\ scan' = S!Watched
        /\ stored' = stored \cup {p} /\ default' \in {p, default} /\ unset' \in BOOLEAN
    BY <1>1, <1>7 DEF S!create_profile, S!WebCreatesProfile, S!DefaultWith
  <2>2. p \in Profile
    BY <1>1, <1>7 DEF Asked, S!create_profile, S!WebCreatesProfile
  <2> HIDE DEF p
  <2>3. /\ stored' \in SUBSET Profile /\ default' \in stored' \cup {S!Null} /\ assigned' \in stored' \cup {S!Null}
    BY <1>1, <2>1, <2>2
  <2>4. request' \in [Request -> Asked] /\ scan' \in [ScanJob -> Reading]
    BY <2>1, <2>3, NobodyAsked, AskedTyped, WatchedTyped
  <2> QED
    BY <1>1, <2>1, <2>3, <2>4 DEF SettingsTypeOK
<1>8. ASSUME NEW p \in Profile \cup {S!Null}, S!set_default(p) \/ S!delete_profile(p) \/ S!set_project_profile(p)
      PROVE  SettingsTypeOK'
  <2>1. UNCHANGED <<keys, request>> /\ scan' = S!Watched
    BY <1>8 DEF S!set_default, S!delete_profile, S!set_project_profile
  <2>2. /\ stored' \in SUBSET Profile /\ default' \in stored' \cup {S!Null} /\ assigned' \in stored' \cup {S!Null}
        /\ unset' \in BOOLEAN
    BY <1>1, <1>8 DEF S!set_default, S!delete_profile, S!set_project_profile
  <2>3. scan' \in [ScanJob -> Reading]
    BY <2>1, <2>2, WatchedTyped
  <2> QED
    BY <1>1, <2>1, <2>2, <2>3 DEF SettingsTypeOK
<1>9. ASSUME NEW s \in ScanJob, S!ScanReads(s) \/ S!ScanChooses(s) \/ S!ScanEnds(s) \/ \E p \in Profile : S!ScanAsked(s, p)
      PROVE  SettingsTypeOK'
  <2>1. UNCHANGED <<stored, default, assigned, unset, keys, request>>
    BY <1>9 DEF S!ScanReads, S!ScanChooses, S!ScanEnds, S!ScanAsked
  <2>2. ASSUME NEW e \in Reading, scan' = [scan EXCEPT ![s] = e]
        PROVE  SettingsTypeOK'
    BY <1>1, <2>1, <2>2 DEF SettingsTypeOK
  <2>3. CASE S!ScanReads(s)
    <3> DEFINE e == [S!NoScan EXCEPT !.at = "read", !.seen = assigned, !.inforce = {S!InForce}]
    <3>1. S!InForce \in Rules
      BY <1>1 DEF S!InForce, Rules
    <3>2. e \in Reading
      BY <1>1, <3>1, NothingRead DEF Reading
    <3>3. scan' = [scan EXCEPT ![s] = e]
      BY <2>3 DEF S!ScanReads
    <3> QED
      BY <2>2, <3>2, <3>3
  <2>4. ASSUME NEW at \in {"chosen", "asked"}, NEW c \in Profile \cup {S!Null},
               scan' = [scan EXCEPT ![s].at = at, ![s].choice = c]
        PROVE  SettingsTypeOK'
    <3> DEFINE e == [scan[s] EXCEPT !.at = at, !.choice = c]
    <3>1. e \in Reading
      BY <1>1 DEF Reading
    <3>2. scan' = [scan EXCEPT ![s] = e]
      BY <1>1, <2>4
    <3> QED
      BY <2>2, <3>1, <3>2
  <2>5. CASE S!ScanChooses(s)
    <3>1. scan[s].seen \in Profile \cup {S!Null}
      BY <1>1 DEF Reading
    <3>2. S!profile_for_scan(scan[s].seen) \in Profile \cup {S!Null}
      BY <1>1, <3>1 DEF S!profile_for_scan
    <3> QED
      BY <2>4, <2>5, <3>2 DEF S!ScanChooses
  <2>6. ASSUME NEW p \in Profile, S!ScanAsked(s, p)
        PROVE  SettingsTypeOK'
    BY <2>4, <2>6 DEF S!ScanAsked
  <2>7. CASE S!ScanEnds(s)
    BY <2>2, <2>7, NothingRead DEF S!ScanEnds
  <2> QED
    BY <1>9, <2>3, <2>5, <2>6, <2>7
<1>10. CASE UNCHANGED S!vars
  BY <1>10 DEF S!vars, SettingsTypeOK
<1> QED
  BY <1>3, <1>4, <1>5, <1>6, <1>7, <1>8, <1>9, <1>10 DEF S!Next, S!KeysNext, S!ProfilesNext

\* What a step does to the requests: one is read, or one ends.
LEMMA CountingStep ==
  ASSUME S!SettingsAssumption, SettingsTypeOK, NEW i \in Request, NEW e, request' = [request EXCEPT ![i] = e]
  PROVE  /\ Cardinality(Counting') \in Nat /\ Cardinality(Counting') <= Cardinality(Request)
         /\ e.of \notin {"key", "rotation"} /\ request[i].of \in {"key", "rotation"}
              => Cardinality(Counting') = Cardinality(Counting) - 1
         /\ e.of \notin {"key", "rotation"} /\ request[i].of \notin {"key", "rotation"}
              => Counting' = Counting
<1>1. IsFiniteSet(Request) /\ request \in [Request -> Asked]
  BY SettingsCountAlike DEF S!SettingsAssumption, SettingsTypeOK
<1>2. Counting \in SUBSET Request /\ Counting' \in SUBSET Request
  BY DEF Counting
<1>3. Cardinality(Counting') \in Nat /\ Cardinality(Counting') <= Cardinality(Request)
  BY <1>1, <1>2, Joining
<1>4. ASSUME e.of \notin {"key", "rotation"}, request[i].of \in {"key", "rotation"}
      PROVE  Cardinality(Counting') = Cardinality(Counting) - 1
  <2>1. Counting' = Counting \ {i} /\ i \in Counting
    BY <1>1, <1>4 DEF Counting
  <2> QED
    BY <1>1, <1>2, <2>1, Leaving
<1>5. ASSUME e.of \notin {"key", "rotation"}, request[i].of \notin {"key", "rotation"}
      PROVE  Counting' = Counting
  BY <1>1, <1>5 DEF Counting
<1> QED
  BY <1>3, <1>4, <1>5

LEMMA KeysStep ==
  ASSUME S!SettingsAssumption, KeysInv, SettingsTypeOK', [S!Next]_(S!vars)
  PROVE  KeysInv'
<1>1. /\ IsFiniteSet(Request) /\ MAX_ACTIVE_KEYS_PER_TARGET \in Nat \ {0}
      /\ SettingsTypeOK /\ keys \in Nat /\ keys' \in Nat
      /\ keys + Cardinality(Counting) <= MAX_ACTIVE_KEYS_PER_TARGET + Cardinality(Request) - 1
  BY SettingsCountAlike DEF S!SettingsAssumption, KeysInv, SettingsTypeOK
<1>2. Counting \in SUBSET Request
  BY DEF Counting
<1>3. Cardinality(Counting) \in Nat /\ Cardinality(Request) \in Nat
  BY <1>1, <1>2, Joining
<1>4. ASSUME NEW i \in Request, NEW of \in {"key", "rotation"}, S!issue_api_key(i, of)
      PROVE  KeysInv'
  <2> DEFINE e == [S!NoRequest EXCEPT !.of = of, !.others = keys]
  <2>1. request' = [request EXCEPT ![i] = e] /\ keys < MAX_ACTIVE_KEYS_PER_TARGET /\ UNCHANGED keys
    BY <1>4 DEF S!issue_api_key, S!RoomForOne
  <2> HIDE DEF e
  <2>2. Cardinality(Counting') \in Nat /\ Cardinality(Counting') <= Cardinality(Request)
    BY <1>1, <2>1, CountingStep
  <2> QED
    BY <1>1, <1>3, <2>1, <2>2 DEF KeysInv
<1>5. ASSUME NEW i \in Request, S!create_key(i) \/ S!regenerate_key(i)
      PROVE  KeysInv'
  <2>1. /\ request' = [request EXCEPT ![i] = S!NoRequest] /\ keys' \in {keys, keys + 1}
        /\ request[i].of \in {"key", "rotation"}
    BY <1>5 DEF S!create_key, S!regenerate_key
  <2>2. Cardinality(Counting') = Cardinality(Counting) - 1
    BY <1>1, <2>1, NobodyAsked, CountingStep
  <2> QED
    BY <1>1, <1>3, <2>1, <2>2 DEF KeysInv
<1>6. CASE S!revoke_api_key
  <2>1. keys' = keys - 1 /\ UNCHANGED request
    BY <1>6 DEF S!revoke_api_key
  <2> QED
    BY <1>1, <1>3, <2>1 DEF KeysInv, Counting
<1>7. ASSUME NEW i \in Request, S!create_profile(i) \/ S!WebCreatesProfile(i) \/ S!ProfileRefused(i)
      PROVE  KeysInv'
  <2>1. /\ request' = [request EXCEPT ![i] = S!NoRequest] /\ UNCHANGED keys
        /\ request[i].of \notin {"key", "rotation"}
    BY <1>7 DEF S!create_profile, S!WebCreatesProfile, S!ProfileRefused
  <2>2. Counting' = Counting
    BY <1>1, <2>1, NobodyAsked, CountingStep
  <2> QED
    BY <1>1, <2>1, <2>2 DEF KeysInv
<1>8. ASSUME NEW i \in Request, NEW p \in Profile, NEW of \in {"profile", "web profile"}, S!ReadProfiles(i, of, p)
      PROVE  KeysInv'
  <2> DEFINE e == [of |-> of, profile |-> p, others |-> S!Cardinality(stored)]
  <2>1. request' = [request EXCEPT ![i] = e] /\ UNCHANGED keys /\ request[i] = S!NoRequest
    BY <1>8 DEF S!ReadProfiles
  <2>2. e.of \notin {"key", "rotation"}
    OBVIOUS
  <2> HIDE DEF e
  <2>3. Counting' = Counting
    BY <1>1, <2>1, <2>2, NobodyAsked, CountingStep
  <2> QED
    BY <1>1, <2>1, <2>3 DEF KeysInv
<1>9. CASE UNCHANGED <<request, keys>>
  BY <1>1, <1>9 DEF KeysInv, Counting
<1> QED
  BY <1>4, <1>5, <1>6, <1>7, <1>8, <1>9
     DEF S!Next, S!KeysNext, S!ProfilesNext, S!set_default, S!delete_profile, S!set_project_profile, S!ScanReads,
         S!ScanChooses, S!ScanAsked, S!ScanEnds, S!vars

LEMMA InitSettings ==
  ASSUME S!SettingsAssumption, S!Init
  PROVE  SettingsTypeOK /\ KeysInv
<1>1. SettingsTypeOK
  BY NobodyAsked, NothingRead DEF S!Init, SettingsTypeOK
<1>2. Counting = {}
  BY NobodyAsked DEF S!Init, Counting
<1>3. /\ Cardinality(Counting) = 0 /\ keys = 0 /\ Cardinality(Request) \in Nat
      /\ MAX_ACTIVE_KEYS_PER_TARGET \in Nat \ {0}
  BY <1>2, FS_EmptySet, FS_CardinalityType, SettingsCountAlike DEF S!Init, S!SettingsAssumption
<1> QED
  BY <1>1, <1>3 DEF KeysInv

\* The keys of a project: the cap, and the requests that counted them together.
LEMMA KeysAreCapped ==
  ASSUME S!SettingsAssumption
  PROVE  S!Spec => []S!KeysAreCapped
<1>1. S!Init => KeysInv
  BY InitSettings
<1>2. KeysInv /\ [S!Next]_(S!vars) => KeysInv'
  BY SettingsTyped, KeysStep DEF KeysInv
<1>3. KeysInv => S!KeysAreCapped
  <2> SUFFICES ASSUME KeysInv PROVE S!KeysAreCapped
    OBVIOUS
  <2>1. /\ IsFiniteSet(Request) /\ Counting \in SUBSET Request /\ MAX_ACTIVE_KEYS_PER_TARGET \in Nat
        /\ keys \in Nat
    BY SettingsCountAlike DEF S!SettingsAssumption, Counting, KeysInv, SettingsTypeOK
  <2>2. Cardinality(Counting) \in Nat /\ Cardinality(Request) \in Nat
    BY <2>1, Joining
  <2>3. keys <= MAX_ACTIVE_KEYS_PER_TARGET + Cardinality(Request) - 1
    BY <2>1, <2>2 DEF KeysInv
  <2> QED
    BY <2>3, SettingsCountAlike DEF S!KeysAreCapped
<1> QED
  BY <1>1, <1>2, <1>3, PTL DEF S!Spec

-----------------------------------------------------------------------------
(***************************************************************************)
(* ProjectSettings: the rules.                                             *)
(***************************************************************************)

\* A scan that reads has seen what was in force when it began, and sees the
\* rules of this moment; a default is missing only if it was deleted.
RulesInv ==
  /\ SettingsTypeOK
  /\ \A s \in ScanJob :
       scan[s].at = "read" =>
         /\ S!InForce \in scan[s].inforce
         /\ \E x \in scan[s].inforce : x.own = scan[s].seen
  /\ \A i \in Request :
       request[i].of \in {"profile", "web profile"} /\ request[i].others # 0 /\ ~unset => stored # {}
  /\ S!RulesInForceApply /\ S!SomeProfileApplies

\* One owner is seen: the one of this moment.
LEMMA OneOwner ==
  ASSUME S!SettingsAssumption, RulesInv, NEW s \in ScanJob, scan[s].at = "read",
         S!Cardinality({x.own : x \in scan[s].inforce}) = 1
  PROVE  scan[s].seen = assigned
<1> DEFINE O == {x.own : x \in scan[s].inforce}
<1>1. O \subseteq Profile \cup {S!Null}
  <2>1. scan[s] \in Reading
    BY DEF RulesInv, SettingsTypeOK
  <2>2. \A x \in scan[s].inforce : x.own \in Profile \cup {S!Null}
    BY <2>1 DEF Reading, Rules
  <2> QED
    BY <2>2
<1>2. IsFiniteSet(Profile \cup {S!Null})
  BY FS_AddElement, SettingsCountAlike DEF S!SettingsAssumption
<1>3. IsFiniteSet(O) /\ Cardinality(O) = 1
  BY <1>1, <1>2, FS_Subset, SettingsCountAlike
<1>4. scan[s].seen \in O
  BY DEF RulesInv
<1>5. assigned \in O
  <2>1. S!InForce \in scan[s].inforce
    BY DEF RulesInv
  <2>2. S!InForce.own = assigned
    BY DEF S!InForce
  <2> QED
    BY <2>1, <2>2
<1> HIDE DEF O
<1> QED
  BY <1>3, <1>4, <1>5, FS_Singleton

\* The requests change, the rules stay.
LEMMA RequestsChange ==
  ASSUME RulesInv, SettingsTypeOK', UNCHANGED <<stored, default, assigned, unset, scan>>,
         \A i \in Request : \/ request'[i] = request[i]
                            \/ request'[i].of \notin {"profile", "web profile"}
                            \/ request'[i].others # 0 => stored # {}
  PROVE  RulesInv'
<1>1. S!InForce' = S!InForce
  BY DEF S!InForce
<1>2. S!RulesInForceApply' /\ S!SomeProfileApplies'
  BY DEF RulesInv, S!RulesInForceApply, S!SomeProfileApplies
<1> QED
  BY <1>1, <1>2 DEF RulesInv

\* The rules change: the scans that read see them.
LEMMA RulesChange ==
  ASSUME RulesInv, SettingsTypeOK', S!SomeProfileApplies', scan' = S!Watched,
         ~unset' => stored' # {} \/ (~unset /\ stored' = stored),
         \A i \in Request : request'[i] = request[i] \/ request'[i].of = "none"
  PROVE  RulesInv'
<1>1. ASSUME NEW s \in ScanJob
      PROVE  \/ /\ scan[s].at = "read" /\ scan'[s].at = "read" /\ scan'[s].seen = scan[s].seen
                /\ scan'[s].inforce = scan[s].inforce \cup {S!InForce'}
             \/ scan[s].at # "read" /\ scan'[s] = scan[s]
  <2>1. scan[s] \in Reading
    BY DEF RulesInv, SettingsTypeOK
  <2>2. CASE scan[s].at = "read"
    <3>1. scan'[s] = [scan[s] EXCEPT !.inforce = scan[s].inforce \cup {S!InForce'}]
      BY <2>2 DEF S!Watched
    <3> QED
      BY <2>1, <2>2, <3>1 DEF Reading
  <2>3. CASE scan[s].at # "read"
    BY <2>3 DEF S!Watched
  <2> QED
    BY <2>2, <2>3
<1>2. ASSUME NEW s \in ScanJob, scan'[s].at = "read"
      PROVE  /\ S!InForce' \in scan'[s].inforce
             /\ \E x \in scan'[s].inforce : x.own = scan'[s].seen
  BY <1>1, <1>2 DEF RulesInv
<1>3. S!RulesInForceApply'
  BY <1>1 DEF RulesInv, S!RulesInForceApply
<1>4. \A i \in Request :
        request'[i].of \in {"profile", "web profile"} /\ request'[i].others # 0 /\ ~unset' => stored' # {}
  BY DEF RulesInv
<1> QED
  BY <1>2, <1>3, <1>4 DEF RulesInv

\* A scan reads, chooses, or ends.
LEMMA ScansChange ==
  ASSUME RulesInv, SettingsTypeOK', UNCHANGED <<stored, default, assigned, unset, request>>,
         NEW s \in ScanJob, \A r \in ScanJob : r # s => scan'[r] = scan[r],
         scan'[s].at = "read" => /\ S!InForce \in scan'[s].inforce
                                 /\ \E x \in scan'[s].inforce : x.own = scan'[s].seen,
         scan'[s].at = "chosen" /\ S!Cardinality({x.own : x \in scan'[s].inforce}) = 1
           => \E x \in scan'[s].inforce : scan'[s].choice = x.rules
  PROVE  RulesInv'
<1>1. S!InForce' = S!InForce
  BY DEF S!InForce
<1>2. S!SomeProfileApplies'
  BY DEF RulesInv, S!SomeProfileApplies
<1>3. S!RulesInForceApply'
  BY DEF RulesInv, S!RulesInForceApply
<1>4. ASSUME NEW r \in ScanJob, scan'[r].at = "read"
      PROVE  /\ S!InForce' \in scan'[r].inforce
             /\ \E x \in scan'[r].inforce : x.own = scan'[r].seen
  BY <1>1, <1>4 DEF RulesInv
<1> QED
  BY <1>2, <1>3, <1>4 DEF RulesInv

LEMMA RulesStep ==
  ASSUME S!SettingsAssumption, RulesInv, SettingsTypeOK', [S!Next]_(S!vars)
  PROVE  RulesInv'
<1>1. /\ IsFiniteSet(Profile) /\ S!Null \notin Profile /\ SettingsTypeOK
      /\ stored \in SUBSET Profile /\ default \in stored \cup {S!Null} /\ assigned \in stored \cup {S!Null}
      /\ request \in [Request -> Asked] /\ scan \in [ScanJob -> Reading]
  BY SettingsCountAlike DEF S!SettingsAssumption, RulesInv, SettingsTypeOK
<1>2. ASSUME NEW i \in Request,
             \/ \E of \in {"key", "rotation"} : S!issue_api_key(i, of)
             \/ S!create_key(i) \/ S!regenerate_key(i) \/ S!ProfileRefused(i)
      PROVE  RulesInv'
  <2>1. UNCHANGED <<stored, default, assigned, unset, scan>>
    BY <1>2 DEF S!issue_api_key, S!create_key, S!regenerate_key, S!ProfileRefused
  <2>2. PICK e : request' = [request EXCEPT ![i] = e] /\ e.of \notin {"profile", "web profile"}
    <3>1. ASSUME NEW of \in {"key", "rotation"}, S!issue_api_key(i, of)
          PROVE  request' = [request EXCEPT ![i] = [S!NoRequest EXCEPT !.of = of, !.others = keys]]
      BY <3>1 DEF S!issue_api_key
    <3>2. \A of \in {"key", "rotation"} : [S!NoRequest EXCEPT !.of = of, !.others = keys].of = of
      BY DEF S!NoRequest
    <3>3. CASE S!create_key(i) \/ S!regenerate_key(i) \/ S!ProfileRefused(i)
      BY <3>3, NobodyAsked DEF S!create_key, S!regenerate_key, S!ProfileRefused
    <3>4. CASE \E of \in {"key", "rotation"} : S!issue_api_key(i, of)
      <4>1. PICK of \in {"key", "rotation"} : S!issue_api_key(i, of)
        BY <3>4
      <4> DEFINE d == [S!NoRequest EXCEPT !.of = of, !.others = keys]
      <4>2. request' = [request EXCEPT ![i] = d] /\ d.of = of
        BY <3>1, <3>2, <4>1
      <4> HIDE DEF d
      <4> QED
        BY <4>2
    <3> QED
      BY <1>2, <3>3, <3>4
  <2> QED
    BY <1>1, <2>1, <2>2, RequestsChange
<1>3. ASSUME NEW i \in Request, NEW p \in Profile, NEW of \in {"profile", "web profile"}, S!ReadProfiles(i, of, p)
      PROVE  RulesInv'
  <2> DEFINE e == [of |-> of, profile |-> p, others |-> S!Cardinality(stored)]
  <2>1. request' = [request EXCEPT ![i] = e] /\ UNCHANGED <<stored, default, assigned, unset, scan>>
    BY <1>3 DEF S!ReadProfiles
  <2>2. e.others # 0 => stored # {}
    BY FS_EmptySet, SettingsCountAlike
  <2> HIDE DEF e
  <2> QED
    BY <1>1, <2>1, <2>2, RequestsChange
<1>4. CASE S!revoke_api_key \/ UNCHANGED S!vars
  <2>1. UNCHANGED <<stored, default, assigned, unset, scan, request>>
    BY <1>4 DEF S!revoke_api_key, S!vars
  <2> QED
    BY <2>1, RequestsChange
<1>5. ASSUME NEW i \in Request, S!create_profile(i) \/ S!WebCreatesProfile(i)
      PROVE  RulesInv'
  <2> DEFINE p == request[i].profile
  <2>1. /\ request' = [request EXCEPT ![i] = S!NoRequest] /\ scan' = S!Watched
        /\ stored' = stored \cup {p} /\ default' = (IF request[i].others = 0 THEN p ELSE default)
        /\ unset' = (unset /\ default' = S!Null)
    BY <1>5 DEF S!create_profile, S!WebCreatesProfile, S!DefaultWith
  <2>2. request[i].of \in {"profile", "web profile"}
    BY <1>5 DEF S!create_profile, S!WebCreatesProfile
  <2> HIDE DEF p
  <2>3. S!SomeProfileApplies'
    <3>1. CASE request[i].others = 0
      BY <2>1, <3>1 DEF S!SomeProfileApplies
    <3>2. CASE request[i].others # 0 /\ default # S!Null
      BY <1>1, <2>1, <3>2 DEF S!SomeProfileApplies
    <3>3. CASE request[i].others # 0 /\ default = S!Null
      <4>1. unset' <=> unset
        BY <2>1, <3>3
      <4>2. ~unset => stored # {}
        BY <2>2, <3>3 DEF RulesInv
      <4> QED
        BY <1>1, <3>3, <4>1, <4>2 DEF RulesInv, S!SomeProfileApplies
    <3> QED
      BY <3>1, <3>2, <3>3
  <2>4. \A j \in Request : request'[j] = request[j] \/ request'[j].of = "none"
    BY <1>1, <2>1, NobodyAsked
  <2>5. stored' # {}
    BY <2>1
  <2> QED
    BY <2>1, <2>3, <2>4, <2>5, RulesChange
<1>6. ASSUME NEW p \in Profile, S!set_default(p)
      PROVE  RulesInv'
  <2>1. UNCHANGED <<request, stored>> /\ scan' = S!Watched /\ p \in stored /\ default' = p
    BY <1>6 DEF S!set_default
  <2>2. S!SomeProfileApplies' /\ stored' # {}
    BY <2>1 DEF S!SomeProfileApplies
  <2> QED
    BY <2>1, <2>2, RulesChange
<1>7. ASSUME NEW p \in Profile, S!delete_profile(p)
      PROVE  RulesInv'
  <2>1. /\ UNCHANGED request /\ scan' = S!Watched /\ p \in stored /\ stored' = stored \ {p}
        /\ default' = (IF default = p THEN S!Null ELSE default) /\ unset' = (unset \/ default = p)
    BY <1>7 DEF S!delete_profile
  <2>2. ~unset' => default \in stored' /\ default' = default
    BY <2>1 DEF RulesInv, S!SomeProfileApplies
  <2>3. S!SomeProfileApplies' /\ (~unset' => stored' # {})
    BY <2>2 DEF S!SomeProfileApplies
  <2> QED
    BY <2>1, <2>3, RulesChange
<1>8. ASSUME NEW p \in Profile \cup {S!Null}, S!set_project_profile(p)
      PROVE  RulesInv'
  <2>1. UNCHANGED <<request, stored, default, unset>> /\ scan' = S!Watched
    BY <1>8 DEF S!set_project_profile
  <2>2. S!SomeProfileApplies'
    BY <2>1 DEF RulesInv, S!SomeProfileApplies
  <2> QED
    BY <2>1, <2>2, RulesChange
<1>9. ASSUME NEW s \in ScanJob, S!ScanReads(s)
      PROVE  RulesInv'
  <2> DEFINE e == [S!NoScan EXCEPT !.at = "read", !.seen = assigned, !.inforce = {S!InForce}]
  <2>1. scan' = [scan EXCEPT ![s] = e] /\ UNCHANGED <<stored, default, assigned, unset, request>>
    BY <1>9 DEF S!ScanReads
  <2>2. e.at = "read" /\ e.seen = assigned /\ e.inforce = {S!InForce} /\ S!InForce.own = assigned
    BY DEF S!NoScan, S!InForce
  <2> HIDE DEF e
  <2> QED
    BY <1>1, <2>1, <2>2, ScansChange
<1>10. ASSUME NEW s \in ScanJob, S!ScanChooses(s)
       PROVE  RulesInv'
  <2> DEFINE e == [scan[s] EXCEPT !.at = "chosen", !.choice = S!profile_for_scan(scan[s].seen)]
  <2>1. /\ scan' = [scan EXCEPT ![s] = e] /\ scan[s].at = "read"
        /\ UNCHANGED <<stored, default, assigned, unset, request>>
    BY <1>1, <1>10 DEF S!ScanChooses
  <2>2. e.at = "chosen" /\ e.inforce = scan[s].inforce /\ e.choice = S!profile_for_scan(scan[s].seen)
    BY <1>1 DEF Reading
  <2> HIDE DEF e
  <2>3. ASSUME S!Cardinality({x.own : x \in e.inforce}) = 1
        PROVE  \E x \in e.inforce : e.choice = x.rules
    <3>1. scan[s].seen = assigned
      BY <2>1, <2>2, <2>3, OneOwner
    <3>2. e.choice = S!InForce.rules
      BY <1>1, <2>2, <3>1 DEF S!profile_for_scan, S!InForce
    <3>3. S!InForce \in e.inforce
      BY <2>1, <2>2 DEF RulesInv
    <3> QED
      BY <3>2, <3>3
  <2> QED
    BY <1>1, <2>1, <2>2, <2>3, ScansChange
<1>11. ASSUME NEW s \in ScanJob, S!ScanEnds(s) \/ \E p \in Profile : S!ScanAsked(s, p)
       PROVE  RulesInv'
  <2>1. UNCHANGED <<stored, default, assigned, unset, request>>
    BY <1>11 DEF S!ScanEnds, S!ScanAsked
  <2>2. \A r \in ScanJob : r # s => scan'[r] = scan[r]
    BY <1>1, <1>11 DEF S!ScanEnds, S!ScanAsked
  <2>3. scan'[s].at \in {"none", "asked"}
    <3>1. CASE S!ScanEnds(s)
      BY <1>1, <3>1, NothingRead DEF S!ScanEnds
    <3>2. ASSUME NEW p \in Profile, S!ScanAsked(s, p)
          PROVE  scan'[s].at = "asked"
      <4>1. scan'[s] = [scan[s] EXCEPT !.at = "asked", !.choice = p] /\ scan[s] \in Reading
        BY <1>1, <3>2 DEF S!ScanAsked
      <4> QED
        BY <4>1 DEF Reading
    <3> QED
      BY <1>11, <3>1, <3>2
  <2> QED
    BY <2>1, <2>2, <2>3, ScansChange
<1> QED
  BY <1>2, <1>3, <1>4, <1>5, <1>6, <1>7, <1>8, <1>9, <1>10, <1>11 DEF S!Next, S!KeysNext, S!ProfilesNext

\* However many profiles, and whatever is saved, chosen or deleted meanwhile.
THEOREM RulesInForceAreChosen ==
  ASSUME S!SettingsAssumption
  PROVE  S!Spec => []ProfilesApply
<1>1. S!Init => RulesInv
  <2> SUFFICES ASSUME S!Init PROVE RulesInv
    OBVIOUS
  <2>1. SettingsTypeOK /\ stored = {} /\ (\A s \in ScanJob : scan[s].at = "none") /\ \A i \in Request : request[i].of = "none"
    BY InitSettings, NobodyAsked, NothingRead DEF S!Init
  <2> QED
    BY <2>1 DEF RulesInv, S!RulesInForceApply, S!SomeProfileApplies
<1>2. RulesInv /\ [S!Next]_(S!vars) => RulesInv'
  BY SettingsTyped, RulesStep DEF RulesInv
<1>3. RulesInv => ProfilesApply
  BY DEF RulesInv, ProfilesApply, S!ProfilesApply
<1> QED
  BY <1>1, <1>2, <1>3, PTL DEF S!Spec

-----------------------------------------------------------------------------
(***************************************************************************)
(* CliAuth: the credentials of an account.                                 *)
(***************************************************************************)

Row == [row : BOOLEAN, approved : BOOLEAN, denied : BOOLEAN, collected : BOOLEAN, expired : BOOLEAN]
Poll == [of : Terminal \cup {"none"}, web : BOOLEAN, seen : Row, active : SUBSET Nat]

CliTypeOK ==
  /\ asked \in [Terminal -> Row] /\ poll \in [Poller -> Poll]
  /\ tokens \in Seq(BOOLEAN) /\ uncounted \in SUBSET Nat
  /\ \A p \in Poller : poll[p].active \subseteq DOMAIN tokens

LEMMA CliCountsAlike == \A X : (C!IsFiniteSet(X) <=> IsFiniteSet(X)) /\ C!Cardinality(X) = Cardinality(X)
<1> SUFFICES ASSUME NEW X PROVE (C!IsFiniteSet(X) <=> IsFiniteSet(X)) /\ C!Cardinality(X) = Cardinality(X)
  OBVIOUS
<1>1. C!IsFiniteSet(X) <=> IsFiniteSet(X)
  BY DEF C!IsFiniteSet, IsFiniteSet
<1>2. C!Cardinality(X) = Cardinality(X)
  BY DEF C!Cardinality, Cardinality
<1> QED
  BY <1>1, <1>2

Newer(Y, i) == {k \in Y : k > i}

\* Of two that are active, the older one has more newer ones.
LEMMA OlderHasMore ==
  ASSUME NEW Y \in SUBSET Nat, IsFiniteSet(Y), NEW i \in Y, NEW j \in Y, i < j
  PROVE  Cardinality(Newer(Y, j)) < Cardinality(Newer(Y, i))
<1>1. Newer(Y, i) \in SUBSET Y /\ Newer(Y, j) \subseteq Newer(Y, i) /\ j \in Newer(Y, i) /\ j \notin Newer(Y, j)
  <2>1. i \in Nat /\ j \in Nat /\ \A k \in Y : k \in Nat
    OBVIOUS
  <2>2. \A k \in Y : k > j => k > i
    BY <2>1
  <2>3. j > i /\ ~(j > j)
    BY <2>1
  <2> QED
    BY <2>2, <2>3, Zenon DEF Newer
<1>2. IsFiniteSet(Newer(Y, i))
  BY <1>1, Joining
<1>3. /\ Newer(Y, j) \in SUBSET (Newer(Y, i)) /\ Newer(Y, j) # Newer(Y, i)
  BY <1>1
<1>4. /\ Cardinality(Newer(Y, j)) \in Nat /\ Cardinality(Newer(Y, i)) \in Nat
      /\ Cardinality(Newer(Y, j)) <= Cardinality(Newer(Y, i))
  BY <1>2, <1>3, Joining
<1>5. Cardinality(Newer(Y, i)) # Cardinality(Newer(Y, j))
  BY <1>2, <1>3, FS_Subset
<1> QED
  BY <1>4, <1>5

\* Of those that are active, fewer stay than the cap allows.
LEMMA FewerStay ==
  ASSUME NEW Y \in SUBSET Nat, IsFiniteSet(Y), MAX_TOKENS_PER_ACCOUNT \in Nat \ {0}
  PROVE  Cardinality(Y \ C!Evicted(Y)) <= MAX_TOKENS_PER_ACCOUNT - 1
<1> DEFINE B == Y \ C!Evicted(Y)
           T == 0..(MAX_TOKENS_PER_ACCOUNT - 2)
           f == [i \in B |-> Cardinality(Newer(Y, i))]
<1>1. B \in SUBSET Y /\ IsFiniteSet(B) /\ Cardinality(B) \in Nat
  BY FS_Subset, FS_CardinalityType
<1>2. IsFiniteSet(T) /\ Cardinality(T) = MAX_TOKENS_PER_ACCOUNT - 1
  BY FS_Interval
<1>3. \A i \in Y : Newer(Y, i) \in SUBSET Y /\ Cardinality(Newer(Y, i)) \in Nat
  BY Joining DEF Newer
<1>4. \A i \in B : Cardinality(Newer(Y, i)) < MAX_TOKENS_PER_ACCOUNT - 1
  BY <1>3, CliCountsAlike DEF C!Evicted, Newer
<1>5. f \in [B -> T]
  <2>1. \A i \in B : Cardinality(Newer(Y, i)) \in T
    BY <1>1, <1>3, <1>4
  <2> HIDE DEF B, T
  <2> QED
    BY <2>1
<1>6. \A x, y \in B : x # y => f[x] # f[y]
  <2> TAKE x, y \in B
  <2>1. x \in Y /\ y \in Y /\ (x # y => x < y \/ y < x)
    BY <1>1
  <2> QED
    BY <1>3, <2>1, OlderHasMore
<1> HIDE DEF B, T, f
<1>7. f \in Injection(B, T)
  BY <1>5, <1>6, Fun_IsInj
<1>8. Cardinality(B) <= MAX_TOKENS_PER_ACCOUNT - 1
  BY <1>2, <1>7, FS_Injection
<1> QED
  BY <1>8 DEF B

\* The polls of the service that have found an approval will mint, each after
\* revoking what it has counted as too old: whichever of them do, this many
\* stay, but for what the web server minted and none of them has counted.
Ready == {p \in Poller : ~poll[p].web /\ C!Found(poll[p]) = "approved"}
Doomed(Q) == {i \in DOMAIN tokens : \E q \in Q : i \in C!Evicted(poll[q].active)}
Unseen(Q) == {i \in uncounted : \A q \in Q : i \notin poll[q].active}
Left(Q) == {i \in C!Active : i \notin Doomed(Q) /\ i \notin Unseen(Q)}
CapInv ==
  /\ CliTypeOK
  /\ \A Q \in SUBSET Ready :
       Cardinality(Left(Q)) + Cardinality(Q) <= MAX_TOKENS_PER_ACCOUNT + Cardinality(Poller) - 1

LEMMA NobodyPolls ==
  /\ C!NoPoll \in Poll /\ C!Found(C!NoPoll) = "expired" /\ ~C!NoPoll.seen.denied
  /\ C!NoPoll.active = {}
<1>1. C!NoRow \in Row /\ ~C!NoRow.row /\ ~C!NoRow.denied
  BY DEF C!NoRow, Row
<1>2. C!NoPoll \in Poll /\ C!NoPoll.seen = C!NoRow /\ ~C!NoPoll.web /\ C!NoPoll.active = {}
  BY <1>1 DEF C!NoPoll, Poll
<1>3. C!State(C!NoRow) = "expired"
  BY <1>1 DEF C!State
<1> QED
  BY <1>1, <1>2, <1>3 DEF C!Found

LEMMA ActiveFinite ==
  ASSUME CliTypeOK
  PROVE  C!Active \in SUBSET Nat /\ C!Active \in SUBSET (DOMAIN tokens) /\ IsFiniteSet(C!Active)
<1>1. Len(tokens) \in Nat /\ DOMAIN tokens = 1..Len(tokens)
  BY LenProperties DEF CliTypeOK
<1>2. IsFiniteSet(1..Len(tokens))
  BY <1>1, FS_Interval
<1>3. C!Active \in SUBSET (1..Len(tokens))
  BY <1>1 DEF C!Active
<1>4. IsFiniteSet(C!Active)
  BY <1>2, <1>3, Joining
<1> QED
  BY <1>1, <1>3, <1>4

\* Credentials are revoked, polls end, and what is minted is minted by the web
\* server.
LEMMA FewerActive ==
  ASSUME C!CliAuthAssumption, CapInv, CliTypeOK',
         \A i \in C!Active' : \/ i \in C!Active /\ (i \in uncounted => i \in uncounted')
                              \/ i \in uncounted' /\ i \notin DOMAIN tokens,
         \A p \in Poller : poll'[p] = poll[p] \/ p \notin Ready'
  PROVE  CapInv'
<1>1. ASSUME NEW Q \in SUBSET (Ready')
      PROVE  Cardinality(Left(Q)') + Cardinality(Q) <= MAX_TOKENS_PER_ACCOUNT + Cardinality(Poller) - 1
  <2>1. Q \in SUBSET Poller /\ Q \in SUBSET Ready /\ \A q \in Q : poll'[q] = poll[q]
    BY DEF Ready
  <2>2. \A q \in Q : poll[q].active \subseteq DOMAIN tokens
    BY <2>1 DEF CapInv, CliTypeOK
  <2>3. ASSUME NEW i \in Left(Q)'
        PROVE  i \in Left(Q)
    <3>1. i \in C!Active' /\ i \in DOMAIN tokens' /\ i \notin Doomed(Q)' /\ i \notin Unseen(Q)'
      BY DEF Left, C!Active
    <3>2. \A q \in Q : i \notin C!Evicted(poll[q].active)
      BY <2>1, <3>1 DEF Doomed, C!Evicted
    <3>3. i \in uncounted' => \E q \in Q : i \in poll[q].active
      BY <2>1, <3>1 DEF Unseen
    <3>4. i \in C!Active /\ (i \in uncounted => i \in uncounted')
      BY <2>2, <3>1, <3>3
    <3> QED
      BY <3>2, <3>3, <3>4 DEF Left, Doomed, Unseen
  <2>4. IsFiniteSet(C!Active) /\ IsFiniteSet(Poller) /\ MAX_TOKENS_PER_ACCOUNT \in Nat \ {0}
    BY ActiveFinite, CliCountsAlike DEF CapInv, C!CliAuthAssumption
  <2>5. Left(Q) \in SUBSET C!Active /\ Left(Q)' \in SUBSET Left(Q)
    BY <2>3 DEF Left
  <2>6. IsFiniteSet(Left(Q)) /\ Cardinality(Left(Q)) \in Nat
    BY <2>4, <2>5, Joining
  <2>7. Cardinality(Left(Q)') \in Nat /\ Cardinality(Left(Q)') <= Cardinality(Left(Q))
    BY <2>5, <2>6, Joining
  <2>8. Cardinality(Left(Q)) + Cardinality(Q) <= MAX_TOKENS_PER_ACCOUNT + Cardinality(Poller) - 1
    BY <2>1 DEF CapInv
  <2>9. Cardinality(Q) \in Nat /\ Cardinality(Poller) \in Nat
    BY <2>1, <2>4, Joining
  <2> QED
    BY <2>4, <2>6, <2>7, <2>8, <2>9
<1> QED
  BY <1>1 DEF CapInv

\* A poll reads, and one of the service counts the credentials of this moment.
LEMMA PollStep ==
  ASSUME C!CliAuthAssumption, CapInv, NEW p \in Poller, NEW t \in Terminal, C!PollReads(p, t)
  PROVE  CapInv'
<1> PICK byWeb \in BOOLEAN :
      poll' = [poll EXCEPT ![p] =
        [of |-> t, web |-> byWeb, seen |-> asked[t],
         active |-> IF ~byWeb /\ C!State(asked[t]) = "approved" THEN C!Active ELSE {}]]
  BY DEF C!PollReads
<1> DEFINE e == [of |-> t, web |-> byWeb, seen |-> asked[t],
                 active |-> IF ~byWeb /\ C!State(asked[t]) = "approved" THEN C!Active ELSE {}]
<1>1. CliTypeOK /\ asked[t] \in Row /\ poll \in [Poller -> Poll]
  BY DEF CapInv, CliTypeOK
<1>2. poll' = [poll EXCEPT ![p] = e] /\ UNCHANGED <<asked, tokens, uncounted>>
  BY DEF C!PollReads
<1>3. C!Active \in SUBSET Nat /\ IsFiniteSet(C!Active) /\ C!Active \subseteq DOMAIN tokens
  BY <1>1, ActiveFinite
<1>4. /\ e \in Poll /\ e.active \subseteq DOMAIN tokens
      /\ ~e.web /\ C!Found(e) = "approved" => e.active = C!Active
  BY <1>1, <1>3 DEF Poll, C!Found
<1> HIDE DEF e
<1>5. CliTypeOK'
  BY <1>1, <1>2, <1>4 DEF CliTypeOK
<1>6. C!Active' = C!Active
  BY <1>2 DEF C!Active
<1>7. /\ IsFiniteSet(Poller) /\ MAX_TOKENS_PER_ACCOUNT \in Nat \ {0} /\ Cardinality(Poller) \in Nat
  BY CliCountsAlike, FS_CardinalityType DEF C!CliAuthAssumption
<1>8. ASSUME NEW Q \in SUBSET (Ready')
      PROVE  Cardinality(Left(Q)') + Cardinality(Q) <= MAX_TOKENS_PER_ACCOUNT + Cardinality(Poller) - 1
  <2>1. CASE p \notin Q
    <3>1. Q \in SUBSET Ready /\ \A q \in Q : poll'[q] = poll[q]
      BY <1>1, <1>2, <2>1 DEF Ready
    <3>2. Doomed(Q)' = Doomed(Q) /\ Unseen(Q)' = Unseen(Q)
      BY <1>2, <3>1 DEF Doomed, Unseen, C!Evicted
    <3>3. Left(Q)' = Left(Q)
      BY <1>6, <3>2 DEF Left
    <3> QED
      BY <3>1, <3>3 DEF CapInv
  <2>2. CASE p \in Q
    <3>1. poll'[p] = e /\ ~e.web /\ C!Found(e) = "approved"
      BY <1>1, <1>2, <2>2 DEF Ready
    <3>2. C!Evicted(C!Active) \subseteq Doomed(Q)'
      <4>1. C!Evicted(C!Active) \subseteq DOMAIN tokens'
        BY <1>2 DEF C!Evicted, C!Active
      <4>2. poll'[p].active = C!Active
        BY <1>4, <3>1
      <4>3. \A i : i \in C!Evicted(C!Active) => i \in C!Evicted(poll'[p].active)
        BY <4>2
      <4> QED
        BY <2>2, <4>1, <4>3 DEF Doomed, C!Evicted
    <3> DEFINE stay == C!Active \ C!Evicted(C!Active)
               new == Left(Q)'
    <3>3. IsFiniteSet(stay) /\ Cardinality(stay) \in Nat /\ Cardinality(stay) <= MAX_TOKENS_PER_ACCOUNT - 1
      BY <1>3, <1>7, FewerStay, Joining
    <3>4. new \in SUBSET stay
      BY <1>6, <3>2 DEF Left
    <3> HIDE DEF stay, new
    <3>5. Cardinality(new) \in Nat /\ Cardinality(new) <= Cardinality(stay)
      BY <3>3, <3>4, Joining
    <3>6. Q \in SUBSET Poller
      BY DEF Ready
    <3>7. Cardinality(Q) \in Nat /\ Cardinality(Q) <= Cardinality(Poller)
      BY <1>7, <3>6, Joining
    <3>8. Cardinality(new) + Cardinality(Q) <= MAX_TOKENS_PER_ACCOUNT + Cardinality(Poller) - 1
      BY <1>7, <3>3, <3>5, <3>7
    <3> QED
      BY <3>8 DEF new
  <2> QED
    BY <2>1, <2>2
<1> QED
  BY <1>5, <1>8 DEF CapInv

\* Marking one's request leaves the rows what they are.
LEMMA AskedRows ==
  ASSUME CliTypeOK, NEW t,
         asked' \in {asked, [asked EXCEPT ![t].approved = TRUE], [asked EXCEPT ![t].denied = TRUE],
                    [asked EXCEPT ![t].collected = TRUE], [asked EXCEPT ![t].row = TRUE],
                    [asked EXCEPT ![t].expired = TRUE]}
  PROVE  asked' \in [Terminal -> Row]
<1>1. asked \in [Terminal -> Row]
  BY DEF CliTypeOK
<1>2. ASSUME NEW r \in Row
      PROVE  /\ [r EXCEPT !.approved = TRUE] \in Row /\ [r EXCEPT !.denied = TRUE] \in Row
             /\ [r EXCEPT !.collected = TRUE] \in Row /\ [r EXCEPT !.row = TRUE] \in Row
             /\ [r EXCEPT !.expired = TRUE] \in Row
  BY DEF Row
<1>3. CASE asked' = [asked EXCEPT ![t].approved = TRUE]
  BY <1>1, <1>2, <1>3
<1>4. CASE asked' = [asked EXCEPT ![t].denied = TRUE]
  BY <1>1, <1>2, <1>4
<1>5. CASE asked' = [asked EXCEPT ![t].collected = TRUE]
  BY <1>1, <1>2, <1>5
<1>6. CASE asked' = [asked EXCEPT ![t].row = TRUE]
  BY <1>1, <1>2, <1>6
<1>7. CASE asked' = [asked EXCEPT ![t].expired = TRUE]
  BY <1>1, <1>2, <1>7
<1> QED
  BY <1>1, <1>3, <1>4, <1>5, <1>6, <1>7

\* One credential is added behind the others.
LEMMA Minted ==
  ASSUME NEW kept \in Seq(BOOLEAN), NEW next, next = Append(kept, TRUE)
  PROVE  /\ next \in Seq(BOOLEAN) /\ Len(kept) \in Nat
         /\ Len(next) = Len(kept) + 1 /\ DOMAIN next = 1..(Len(kept) + 1)
         /\ \A i \in 1..Len(kept) : next[i] = kept[i]
<1> DEFINE live == TRUE
<1>1. live \in BOOLEAN /\ next = Append(kept, live)
  OBVIOUS
<1> HIDE DEF live
<1>2. Append(kept, live) \in Seq(BOOLEAN)
  BY <1>1, AppendProperties
<1>3. Len(Append(kept, live)) = Len(kept) + 1
  BY <1>1, AppendProperties
<1>4. \A i \in 1..Len(kept) : Append(kept, live)[i] = kept[i]
  BY <1>1, AppendProperties
<1>5. next \in Seq(BOOLEAN) /\ Len(next) = Len(kept) + 1
  BY <1>1, <1>2, <1>3
<1>6. DOMAIN next = 1..(Len(kept) + 1)
  BY <1>5, LenProperties
<1>7. Len(kept) \in Nat
  BY LenProperties
<1> QED
  BY <1>1, <1>4, <1>5, <1>6, <1>7

\* A poll mints: the request is collected, and what the other polls have counted
\* is there as before.
LEMMA MintedIsTyped ==
  ASSUME CliTypeOK, NEW p \in Poller, poll' = [poll EXCEPT ![p] = C!NoPoll],
         asked' \in [Terminal -> Row],
         tokens' \in Seq(BOOLEAN), DOMAIN tokens \subseteq DOMAIN tokens', uncounted' \in SUBSET Nat
  PROVE  CliTypeOK'
<1>1. poll' \in [Poller -> Poll] /\ \A q \in Poller : q # p => poll'[q] = poll[q]
  BY NobodyPolls DEF CliTypeOK
<1>2. \A q \in Poller : poll'[q].active \subseteq DOMAIN tokens'
  BY <1>1, NobodyPolls DEF CliTypeOK
<1> QED
  BY <1>1, <1>2 DEF CliTypeOK

\* A poll of the service mints: what it has counted as too old is revoked.
LEMMA CollectStep ==
  ASSUME C!CliAuthAssumption, CapInv, NEW p \in Poller, C!collect(p)
  PROVE  CapInv'
<1> DEFINE ended == C!Evicted(poll[p].active)
           kept == [i \in DOMAIN tokens |-> tokens[i] /\ i \notin ended]
           n == Len(tokens) + 1
<1>1. /\ CliTypeOK /\ poll \in [Poller -> Poll] /\ tokens \in Seq(BOOLEAN)
      /\ Len(tokens) \in Nat /\ DOMAIN tokens = 1..Len(tokens)
  BY LenProperties DEF CapInv, CliTypeOK
<1>2. /\ ~poll[p].web /\ C!Found(poll[p]) = "approved" /\ tokens' = Append(kept, TRUE)
      /\ poll' = [poll EXCEPT ![p] = C!NoPoll] /\ asked' = [asked EXCEPT ![poll[p].of].collected = TRUE]
      /\ uncounted' = uncounted \ poll[p].active
  BY DEF C!collect, C!issue_token, C!Tell
<1>3. /\ kept \in Seq(BOOLEAN) /\ Len(kept) = Len(tokens)
      /\ \A i \in DOMAIN tokens : kept[i] => tokens[i] /\ i \notin ended
  <2>1. kept \in [1..Len(tokens) -> BOOLEAN]
    BY <1>1
  <2>2. kept \in Seq(BOOLEAN)
    BY <1>1, <2>1, SeqDef
  <2>3. Len(kept) = Len(tokens)
    BY <1>1, <2>1, <2>2, LenProperties
  <2> QED
    BY <2>2, <2>3
<1> HIDE DEF kept
<1>4. /\ tokens' \in Seq(BOOLEAN) /\ DOMAIN tokens' = 1..n
      /\ \A i \in 1..Len(tokens) : tokens'[i] = kept[i]
  <2>1. tokens' = Append(kept, TRUE) /\ kept \in Seq(BOOLEAN) /\ Len(kept) = Len(tokens)
    BY <1>2, <1>3
  <2>2. /\ tokens' \in Seq(BOOLEAN) /\ DOMAIN tokens' = 1..(Len(kept) + 1)
        /\ \A i \in 1..Len(kept) : tokens'[i] = kept[i]
    BY <2>1, Minted, Zenon
  <2> QED
    BY <2>1, <2>2
<1>5. \A i \in C!Active' : i = n \/ (i \in C!Active /\ i \notin ended)
  <2>1. \A i \in 1..n : i \in 1..Len(tokens) \/ i = n
    BY <1>1
  <2>2. \A i \in 1..Len(tokens) : tokens'[i] => tokens[i] /\ i \notin ended
    BY <1>1, <1>3, <1>4
  <2>3. \A i \in C!Active' : i \in 1..n /\ tokens'[i]
    BY <1>4 DEF C!Active
  <2> QED
    BY <1>1, <2>1, <2>2, <2>3 DEF C!Active
<1>6. CliTypeOK'
  <2> DEFINE t == poll[p].of
  <2>1. DOMAIN tokens \subseteq DOMAIN tokens' /\ uncounted' \in SUBSET Nat
    BY <1>1, <1>2, <1>4 DEF CliTypeOK
  <2>2. asked' \in {asked, [asked EXCEPT ![t].collected = TRUE]}
    BY <1>2
  <2> HIDE DEF t
  <2>3. asked' \in [Terminal -> Row]
    BY <1>1, <2>2, AskedRows
  <2>4. poll' = [poll EXCEPT ![p] = C!NoPoll] /\ tokens' \in Seq(BOOLEAN)
    BY <1>2, <1>4
  <2> QED
    BY <1>1, <2>1, <2>3, <2>4, MintedIsTyped
<1>7. /\ IsFiniteSet(Poller) /\ MAX_TOKENS_PER_ACCOUNT \in Nat \ {0} /\ Cardinality(Poller) \in Nat
      /\ IsFiniteSet(C!Active)
  BY <1>1, ActiveFinite, CliCountsAlike, FS_CardinalityType DEF C!CliAuthAssumption
<1> HIDE DEF ended, n
<1>8. ASSUME NEW Q \in SUBSET (Ready')
      PROVE  Cardinality(Left(Q)') + Cardinality(Q) <= MAX_TOKENS_PER_ACCOUNT + Cardinality(Poller) - 1
  <2> DEFINE R == Q \cup {p}
             old == Left(R)
             new == Left(Q)'
  <2>1. p \notin Q /\ Q \in SUBSET Poller /\ R \in SUBSET Ready /\ \A q \in Q : poll'[q] = poll[q]
    BY <1>1, <1>2, NobodyPolls DEF Ready
  <2>2. new \subseteq old \cup {n}
    <3> SUFFICES ASSUME NEW i \in new, i # n PROVE i \in old
      OBVIOUS
    <3>1. i \in C!Active' /\ i \in DOMAIN tokens' /\ i \notin Doomed(Q)' /\ i \notin Unseen(Q)'
      BY DEF Left, C!Active
    <3>2. i \in C!Active /\ i \notin ended
      BY <1>5, <3>1
    <3>3. \A q \in Q : i \notin C!Evicted(poll[q].active)
      BY <2>1, <3>1 DEF Doomed, C!Evicted
    <3>4. i \notin Doomed(R)
      BY <3>2, <3>3 DEF Doomed, ended
    <3>5. i \notin Unseen(R)
      BY <1>2, <2>1, <3>1 DEF Unseen
    <3> QED
      BY <3>2, <3>4, <3>5 DEF Left
  <2>3. IsFiniteSet(old) /\ Cardinality(old) \in Nat
    <3>1. old \in SUBSET C!Active
      BY DEF Left
    <3> QED
      BY <1>7, <3>1, Joining
  <2>4. Cardinality(old) + Cardinality(R) <= MAX_TOKENS_PER_ACCOUNT + Cardinality(Poller) - 1
    BY <2>1 DEF CapInv
  <2> HIDE DEF old, new
  <2>5. IsFiniteSet(Q) /\ Cardinality(Q) \in Nat
    BY <1>7, <2>1, Joining
  <2>6. Cardinality(R) = Cardinality(Q) + 1
    BY <2>1, <2>5, FS_AddElement
  <2>7. /\ IsFiniteSet(old \cup {n}) /\ Cardinality(old \cup {n}) \in Nat
        /\ Cardinality(old \cup {n}) <= Cardinality(old) + 1
    <3>1. IsFiniteSet(old \cup {n}) /\ (Cardinality(old \cup {n}) = Cardinality(old) + 1
                                       \/ Cardinality(old \cup {n}) = Cardinality(old))
      BY <2>3, FS_AddElement
    <3> QED
      BY <2>3, <3>1
  <2>8. Cardinality(new) \in Nat /\ Cardinality(new) <= Cardinality(old \cup {n})
    BY <2>2, <2>7, Joining
  <2> HIDE DEF R
  <2>9. Cardinality(new) + Cardinality(Q) <= MAX_TOKENS_PER_ACCOUNT + Cardinality(Poller) - 1
    BY <1>7, <2>3, <2>4, <2>5, <2>6, <2>7, <2>8
  <2> QED
    BY <2>9 DEF new
<1> QED
  BY <1>6, <1>8 DEF CapInv

\* The web server mints: no poll has counted its credential yet.
LEMMA WebCollectStep ==
  ASSUME C!CliAuthAssumption, CapInv, NEW p \in Poller, C!WebCollect(p)
  PROVE  CapInv'
<1> DEFINE n == Len(tokens) + 1
<1>1. CliTypeOK /\ tokens \in Seq(BOOLEAN) /\ Len(tokens) \in Nat /\ DOMAIN tokens = 1..Len(tokens)
  BY LenProperties DEF CapInv, CliTypeOK
<1>2. /\ tokens' = Append(tokens, TRUE) /\ uncounted' = uncounted \cup {Len(tokens')}
      /\ poll' = [poll EXCEPT ![p] = C!NoPoll]
      /\ asked' \in {asked, [asked EXCEPT ![poll[p].of].collected = TRUE]}
  BY DEF C!WebCollect, C!Tell
<1>3. /\ tokens' \in Seq(BOOLEAN) /\ Len(tokens') = n /\ DOMAIN tokens' = 1..n
      /\ \A i \in 1..Len(tokens) : tokens'[i] = tokens[i]
  BY <1>1, <1>2, Minted
<1>4. n \in Nat /\ n \notin DOMAIN tokens /\ \A i \in 1..n : i \in 1..Len(tokens) \/ i = n
  BY <1>1
<1>5. CliTypeOK'
  <2> DEFINE t == poll[p].of
  <2>1. DOMAIN tokens \subseteq DOMAIN tokens' /\ uncounted' \in SUBSET Nat
    BY <1>1, <1>2, <1>3, <1>4 DEF CliTypeOK
  <2>2. asked' \in {asked, [asked EXCEPT ![t].collected = TRUE]}
    BY <1>2
  <2> HIDE DEF t
  <2>3. asked' \in [Terminal -> Row]
    BY <1>1, <2>2, AskedRows
  <2>4. poll' = [poll EXCEPT ![p] = C!NoPoll] /\ tokens' \in Seq(BOOLEAN)
    BY <1>2, <1>3
  <2> QED
    BY <1>1, <2>1, <2>3, <2>4, MintedIsTyped
<1>6. ASSUME NEW i \in C!Active'
      PROVE  \/ i \in C!Active /\ (i \in uncounted => i \in uncounted')
             \/ i \in uncounted' /\ i \notin DOMAIN tokens
  BY <1>1, <1>2, <1>3, <1>4 DEF C!Active
<1>7. \A q \in Poller : poll'[q] = poll[q] \/ q \notin Ready'
  BY <1>1, <1>2, NobodyPolls DEF Ready, CliTypeOK
<1> QED
  BY <1>5, <1>6, <1>7, FewerActive

LEMMA CliStep ==
  ASSUME C!CliAuthAssumption, CapInv, [C!Next]_(C!vars)
  PROVE  CapInv'
<1>1. /\ CliTypeOK /\ poll \in [Poller -> Poll] /\ tokens \in Seq(BOOLEAN) /\ asked \in [Terminal -> Row]
      /\ Len(tokens) \in Nat /\ DOMAIN tokens = 1..Len(tokens)
  BY LenProperties DEF CapInv, CliTypeOK
<1>2. ASSUME asked' \in [Terminal -> Row], UNCHANGED <<poll, tokens, uncounted>>
      PROVE  CapInv'
  <2>1. CliTypeOK' /\ C!Active' = C!Active
    BY <1>1, <1>2 DEF CliTypeOK, C!Active
  <2> QED
    BY <1>2, <2>1, FewerActive
<1>3. ASSUME NEW t \in Terminal, C!start_request(t) \/ C!Expire(t) \/ C!WebDecide(t)
      PROVE  CapInv'
  <2>1. asked' \in {[asked EXCEPT ![t].row = TRUE], [asked EXCEPT ![t].expired = TRUE],
                    [asked EXCEPT ![t].approved = TRUE], [asked EXCEPT ![t].denied = TRUE]}
    BY <1>3 DEF C!start_request, C!Expire, C!WebDecide
  <2>2. asked' \in [Terminal -> Row]
    BY <1>1, <2>1, AskedRows
  <2> QED
    BY <1>2, <1>3, <2>2 DEF C!start_request, C!Expire, C!WebDecide
<1>4. CASE C!purge_expired_auth_requests
  <2>1. C!Deleted \in Row
    BY DEF C!Deleted, C!NoRow, Row
  <2>2. asked' \in [Terminal -> Row]
    BY <1>1, <1>4, <2>1 DEF C!purge_expired_auth_requests
  <2> QED
    BY <1>2, <1>4, <2>2 DEF C!purge_expired_auth_requests
<1>5. ASSUME NEW b \in Tab, C!Decide(b) \/ \E t \in Terminal : C!find_pending(b, t)
      PROVE  CapInv'
  <2>1. asked' \in [Terminal -> Row]
    <3>1. CASE C!Decide(b)
      <4> DEFINE t == decision[b].of
      <4>1. asked' \in {asked, [asked EXCEPT ![t].approved = TRUE], [asked EXCEPT ![t].denied = TRUE]}
        BY <3>1 DEF C!Decide
      <4> HIDE DEF t
      <4> QED
        BY <1>1, <4>1, AskedRows
    <3>2. CASE \E t \in Terminal : C!find_pending(b, t)
      BY <1>1, <3>2 DEF C!find_pending
    <3> QED
      BY <1>5, <3>1, <3>2
  <2> QED
    BY <1>2, <1>5, <2>1 DEF C!Decide, C!find_pending
<1>6. ASSUME NEW i \in DOMAIN tokens, C!revoke_token(i)
      PROVE  CapInv'
  <2>1. tokens' = [tokens EXCEPT ![i] = FALSE] /\ UNCHANGED <<asked, poll, uncounted>>
    BY <1>6 DEF C!revoke_token
  <2>2. tokens' \in [1..Len(tokens) -> BOOLEAN]
    BY <1>1, <2>1
  <2>3. tokens' \in Seq(BOOLEAN) /\ DOMAIN tokens' = DOMAIN tokens
    BY <1>1, <2>2, SeqDef
  <2>4. CliTypeOK' /\ C!Active' \subseteq C!Active
    BY <1>1, <2>1, <2>3 DEF CliTypeOK, C!Active
  <2> QED
    BY <2>1, <2>4, FewerActive
<1>7. CASE C!DeleteAccount
  <2>1. /\ tokens' = [i \in DOMAIN tokens |-> FALSE] /\ UNCHANGED <<poll, uncounted>>
        /\ asked' = [t \in Terminal |-> IF asked[t].approved THEN C!Deleted ELSE asked[t]]
    BY <1>7 DEF C!DeleteAccount
  <2>2. tokens' \in [1..Len(tokens) -> BOOLEAN]
    BY <1>1, <2>1
  <2>3. tokens' \in Seq(BOOLEAN) /\ DOMAIN tokens' = DOMAIN tokens
    BY <1>1, <2>1, <2>2, SeqDef
  <2>4. C!Deleted \in Row
    BY DEF C!Deleted, C!NoRow, Row
  <2>5. asked' \in [Terminal -> Row]
    BY <1>1, <2>1, <2>4
  <2>6. CliTypeOK' /\ C!Active' \subseteq C!Active
    BY <1>1, <2>1, <2>3, <2>5 DEF CliTypeOK, C!Active
  <2> QED
    BY <2>1, <2>6, FewerActive
<1>8. ASSUME NEW p \in Poller, C!Answer(p) \/ C!OwnerGone(p) \/ C!PollFails(p)
      PROVE  CapInv'
  <2>1. poll' = [poll EXCEPT ![p] = C!NoPoll] /\ UNCHANGED <<asked, tokens, uncounted>>
    BY <1>8 DEF C!Answer, C!OwnerGone, C!PollFails, C!Tell
  <2>2. CliTypeOK' /\ C!Active' = C!Active
    BY <1>1, <2>1, NobodyPolls DEF CliTypeOK, C!Active
  <2>3. \A q \in Poller : poll'[q] = poll[q] \/ q \notin Ready'
    BY <1>1, <2>1, NobodyPolls DEF Ready
  <2> QED
    BY <2>1, <2>2, <2>3, FewerActive
<1>9. ASSUME NEW p \in Poller, NEW t \in Terminal, C!Poll(p, t) \/ C!PollAgain(p, t)
      PROVE  CapInv'
  BY <1>9, PollStep DEF C!Poll, C!PollAgain
<1>10. ASSUME NEW p \in Poller, C!collect(p) \/ C!WebCollect(p)
       PROVE  CapInv'
  BY <1>10, CollectStep, WebCollectStep
<1>11. CASE UNCHANGED C!vars
  BY <1>1, <1>2, <1>11 DEF C!vars
<1> QED
  BY <1>3, <1>4, <1>5, <1>6, <1>7, <1>8, <1>9, <1>10, <1>11 DEF C!Next, C!PollEnds

LEMMA InitCli ==
  ASSUME C!CliAuthAssumption, C!Init
  PROVE  CapInv
<1> DEFINE all == Machines + WebMachines
<1>1. /\ Machines \in Nat /\ Machines <= MAX_TOKENS_PER_ACCOUNT /\ MAX_TOKENS_PER_ACCOUNT \in Nat \ {0}
      /\ WebMachines \in Nat /\ all \in Nat
      /\ IsFiniteSet(Poller) /\ Poller # {}
  BY CliCountsAlike DEF C!CliAuthAssumption
<1>2. /\ tokens = [i \in 1..all |-> TRUE] /\ DOMAIN tokens = 1..all
      /\ uncounted = (Machines + 1)..all
  BY DEF C!Init
<1> HIDE DEF all
<1>3. C!NoRow \in Row
  BY DEF C!NoRow, Row
<1>4. tokens \in Seq(BOOLEAN)
  BY <1>1, <1>2, SeqDef
<1>5. CliTypeOK
  BY <1>1, <1>2, <1>3, <1>4, NobodyPolls DEF C!Init, CliTypeOK
<1>6. Ready = {}
  BY NobodyPolls DEF C!Init, Ready
<1>7. Cardinality(Poller) \in Nat /\ Cardinality(Poller) # 0
  BY <1>1, FS_EmptySet, FS_CardinalityType
<1>8. \A i \in C!Active : i \in 1..Machines \/ i \in uncounted
  BY <1>1, <1>2 DEF C!Active, all
<1>9. IsFiniteSet(1..Machines) /\ Cardinality(1..Machines) = Machines
  BY <1>1, FS_Interval
<1>10. ASSUME NEW Q \in SUBSET Ready
       PROVE  Cardinality(Left(Q)) + Cardinality(Q) <= MAX_TOKENS_PER_ACCOUNT + Cardinality(Poller) - 1
  <2>1. Left(Q) \in SUBSET (1..Machines)
    BY <1>6, <1>8 DEF Left, Unseen
  <2>2. Cardinality(Left(Q)) \in Nat /\ Cardinality(Left(Q)) <= Machines
    BY <1>9, <2>1, Joining
  <2>3. Cardinality(Q) = 0
    BY <1>6, FS_EmptySet
  <2> QED
    BY <1>1, <1>7, <2>2, <2>3
<1> QED
  BY <1>5, <1>10 DEF CapInv

\* The credentials of an account: the cap, and the polls that counted them
\* at the same time.
LEMMA TokensAreCapped ==
  ASSUME C!CliAuthAssumption
  PROVE  C!Spec => []C!TokensAreCapped
<1>1. C!Init => CapInv
  BY InitCli
<1>2. CapInv /\ [C!Next]_(C!vars) => CapInv'
  BY CliStep
<1>3. CapInv => C!TokensAreCapped
  <2> SUFFICES ASSUME CapInv PROVE C!TokensAreCapped
    OBVIOUS
  <2>1. Left({}) = C!Active \ uncounted
    BY DEF Left, Doomed, Unseen
  <2>2. Cardinality({}) = 0
    BY FS_EmptySet
  <2>3. Cardinality(Left({})) + Cardinality({}) <= MAX_TOKENS_PER_ACCOUNT + Cardinality(Poller) - 1
    BY DEF CapInv
  <2>4. Cardinality(C!Active \ uncounted) \in Nat
    BY ActiveFinite, Joining DEF CapInv
  <2>5. MAX_TOKENS_PER_ACCOUNT \in Nat /\ Cardinality(Poller) \in Nat
    BY FS_CardinalityType, CliCountsAlike DEF C!CliAuthAssumption
  <2>6. Cardinality(C!Active \ uncounted) + 0 <= MAX_TOKENS_PER_ACCOUNT + Cardinality(Poller) - 1
    BY <2>1, <2>2, <2>3
  <2>7. Cardinality(C!Active \ uncounted) <= MAX_TOKENS_PER_ACCOUNT + Cardinality(Poller) - 1
    BY <2>4, <2>5, <2>6
  <2> QED
    BY <2>7, CliCountsAlike DEF C!TokensAreCapped
<1> QED
  BY <1>1, <1>2, <1>3, PTL DEF C!Spec

\* For any number of polls and accounts, and any limit on their tokens.
THEOREM DenialsHold ==
  ASSUME C!CliAuthAssumption
  PROVE  C!Spec => DeniedMeansDenied
<1>1. C!Init => CapInv
  BY InitCli
<1>2. CapInv /\ [C!Next]_(C!vars) => CapInv'
  BY CliStep
<1>3. CapInv /\ [C!Next]_(C!vars) =>
        [\A p \in Poller : poll[p].seen.denied /\ poll'[p] # poll[p] => Len(tokens') = Len(tokens)]_(C!vars)
  <2> SUFFICES ASSUME CapInv, C!Next, NEW p \in Poller, poll[p].seen.denied, poll'[p] # poll[p]
               PROVE  Len(tokens') = Len(tokens)
    OBVIOUS
  <2>1. poll \in [Poller -> Poll] /\ poll[p].seen \in Row
    BY DEF CapInv, CliTypeOK, Poll
  <2>2. C!Found(poll[p]) # "approved"
    BY <2>1 DEF C!Found, C!State, C!WebState, Row
  <2>3. ASSUME NEW q \in Poller, C!collect(q) \/ C!WebCollect(q)
        PROVE  FALSE
    <3>1. poll' = [poll EXCEPT ![q] = C!NoPoll] /\ C!Found(poll[q]) = "approved"
      BY <2>3 DEF C!collect, C!WebCollect, C!Tell
    <3> QED
      BY <2>1, <2>2, <3>1
  <2>4. UNCHANGED poll \/ UNCHANGED tokens
    BY <2>3 DEF C!Next, C!purge_expired_auth_requests, C!DeleteAccount, C!start_request, C!Expire, C!Decide, C!WebDecide,
       C!find_pending, C!revoke_token, C!PollEnds, C!Answer, C!OwnerGone, C!PollFails, C!Poll, C!PollAgain, C!PollReads
  <2> QED
    BY <2>4
<1> QED
  BY <1>1, <1>2, <1>3, PTL DEF C!Spec, DeniedMeansDenied, C!DeniedMeansDenied

-----------------------------------------------------------------------------
\* For any limits and any number of requests at once: each counts before it
\* adds, so what passes a limit is never more than the requests that overlapped.
\* Of tokens, those are meant that the service minted, or has counted since the
\* web server did, which itself counts none.
THEOREM OverlapIsAllThatPasses ==
  ASSUME P!ProjectsAssumption, S!SettingsAssumption, C!CliAuthAssumption
  PROVE  P!Spec /\ S!Spec /\ C!Spec => []CapsHold
<1>1. P!PushesAreRationed /\ S!KeysAreCapped /\ C!TokensAreCapped => CapsHold
  BY DEF CapsHold
<1> QED
  BY <1>1, PushesAreRationed, KeysAreCapped, TokensAreCapped, PTL

-----------------------------------------------------------------------------
(***************************************************************************)
(* The web server's own scan, for any set of findings and of scans:        *)
(* statement by statement, and next to anybody else, it implements the     *)
(* life of a finding, and one that comes to its end undisturbed leaves the *)
(* rows as it was told.                                                    *)
(***************************************************************************)

Statuses == {"none", "open", "filtered", "dismissed", "resolved"}
Scan == [at : {"idle", "answered", "writing"}, sees : [Finding -> W!Seen],
         read : [Finding -> Statuses], todo : SUBSET Finding, alone : BOOLEAN]

TypeOK ==
  /\ status \in [Finding -> Statuses]
  /\ verdict \in [Finding -> W!Seen \ {"absent"}]
  /\ web \in [WebTab -> Scan]

\* What is left to write follows from what was read, and a row that was there
\* when it was read is there still.
ToldFromRead ==
  \A w \in WebTab, f \in Finding : web[w].at = "writing" =>
    /\ web[w].read[f] # "none" => status[f] # "none"
    /\ f \in web[w].todo => web[w].sees[f] # "absent" \/ web[w].read[f] \notin {"none", "resolved"}

\* A finding that is as an undisturbed scan was told.
AsTold(w, f) ==
  /\ web[w].sees[f] = "absent" => status[f] \in {"none", "resolved"}
  /\ web[w].sees[f] # "absent" => /\ status[f] \in {"dismissed", W!StatusFor(web[w].sees[f])}
                                  /\ verdict[f] = web[w].sees[f]

\* Until somebody else writes, what was read of a finding still to be written
\* is what is stored, and the others are as they should be.
AloneMends ==
  \A w \in WebTab, f \in Finding : web[w].at = "writing" /\ web[w].alone =>
    IF f \in web[w].todo THEN web[w].read[f] = status[f] ELSE AsTold(w, f)

WebInv == TypeOK /\ ToldFromRead /\ AloneMends

-----------------------------------------------------------------------------
(***************************************************************************)
(* The steps, one kind after the other.                                    *)
(***************************************************************************)

LEMMA InitWeb == W!Init => WebInv
  BY DEF W!Init, WebInv, TypeOK, ToldFromRead, AloneMends, W!Idle, Scan, W!Seen, Statuses

\* What the writing scans keep when somebody else writes.
LEMMA DisturbedScan ==
  ASSUME TypeOK, NEW Others \in SUBSET WebTab, NEW w \in WebTab
  PROVE  /\ W!Disturbed(Others) \in [WebTab -> Scan]
         /\ W!Disturbed(Others)[w].at = web[w].at /\ W!Disturbed(Others)[w].sees = web[w].sees
         /\ W!Disturbed(Others)[w].read = web[w].read /\ W!Disturbed(Others)[w].todo = web[w].todo
         /\ W!Disturbed(Others)[w].alone = (web[w].alone /\ w \notin Others)
  BY DEF TypeOK, W!Disturbed, Scan

LEMMA WrittenScan ==
  ASSUME TypeOK, NEW w \in WebTab, NEW f \in Finding
  PROVE  /\ W!Written(w, f) \in [WebTab -> Scan]
         /\ W!Written(w, f)[w].at = web[w].at /\ W!Written(w, f)[w].sees = web[w].sees
         /\ W!Written(w, f)[w].read = [web[w].read EXCEPT ![f] = "none"]
         /\ W!Written(w, f)[w].todo = web[w].todo \ {f}
         /\ W!Written(w, f)[w].alone = web[w].alone
<1> DEFINE D == W!Disturbed(W!Writing \ {w})
<1>1. W!Writing \ {w} \in SUBSET WebTab
  BY DEF W!Writing
<1>2. \A u \in WebTab : /\ D \in [WebTab -> Scan]
                        /\ D[u].at = web[u].at /\ D[u].sees = web[u].sees
                        /\ D[u].read = web[u].read /\ D[u].todo = web[u].todo
                        /\ D[u].alone = (web[u].alone /\ u \notin W!Writing \ {w})
  BY <1>1, DisturbedScan
<1> HIDE DEF D
<1>3. W!Written(w, f) = [D EXCEPT ![w].todo = web[w].todo \ {f}, ![w].read[f] = "none"]
  BY DEF W!Written, D
<1>4. web[w].todo \ {f} \in SUBSET Finding /\ "none" \in Statuses
  BY DEF TypeOK, Scan, Statuses
<1>5. D[w] \in Scan /\ D[w].read \in [Finding -> Statuses]
  BY <1>2 DEF Scan
<1>6. /\ W!Written(w, f)[w].at = D[w].at /\ W!Written(w, f)[w].sees = D[w].sees
      /\ W!Written(w, f)[w].read = [D[w].read EXCEPT ![f] = "none"]
      /\ W!Written(w, f)[w].todo = web[w].todo \ {f}
      /\ W!Written(w, f)[w].alone = D[w].alone
      /\ W!Written(w, f)[w] \in Scan
  <2> DEFINE e == [D[w] EXCEPT !.todo = web[w].todo \ {f}, !.read[f] = "none"]
  <2>1. W!Written(w, f)[w] = e
    BY <1>2, <1>3
  <2>2. /\ e.at = D[w].at /\ e.sees = D[w].sees /\ e.alone = D[w].alone
        /\ e.todo = web[w].todo \ {f} /\ e.read = [D[w].read EXCEPT ![f] = "none"]
    BY <1>5 DEF Scan
  <2>3. [D[w].read EXCEPT ![f] = "none"] \in [Finding -> Statuses]
    BY <1>4, <1>5
  <2>4. e \in Scan
    BY <1>4, <1>5, <2>3 DEF Scan
  <2> HIDE DEF e
  <2> QED
    BY <2>1, <2>2, <2>4
<1>7. \A u \in WebTab : u # w => W!Written(w, f)[u] = D[u]
  BY <1>2, <1>3
<1>8. W!Written(w, f) \in [WebTab -> Scan]
  BY <1>2, <1>3, <1>6, <1>7
<1>9. D[w].alone = web[w].alone /\ D[w].alone \in BOOLEAN
  BY <1>2, <1>5 DEF TypeOK, Scan
<1> QED
  BY <1>2, <1>6, <1>7, <1>8, <1>9

LEMMA WrittenOther ==
  ASSUME TypeOK, NEW w \in WebTab, NEW f \in Finding, NEW u \in WebTab, u # w
  PROVE  /\ W!Written(w, f)[u].at = web[u].at /\ W!Written(w, f)[u].sees = web[u].sees
         /\ W!Written(w, f)[u].read = web[u].read /\ W!Written(w, f)[u].todo = web[u].todo
         /\ W!Written(w, f)[u].alone = (web[u].alone /\ u \notin W!Writing)
<1>1. W!Writing \ {w} \in SUBSET WebTab
  BY DEF W!Writing
<1>2. W!Disturbed(W!Writing \ {w}) \in [WebTab -> Scan]
  BY <1>1, DisturbedScan
<1>3. W!Written(w, f)[u] = W!Disturbed(W!Writing \ {w})[u]
  BY <1>2 DEF W!Written
<1> QED
  BY <1>1, <1>3, DisturbedScan

\* The rows stay, and the scans with them, but for w.
LEMMA QuietStep ==
  ASSUME WebInv, NEW w \in WebTab, UNCHANGED <<status, verdict>>,
         web' \in [WebTab -> Scan], \A v \in WebTab \ {w} : web'[v] = web[v],
         web'[w].at # "writing" \/ W!ReadStored(w)
  PROVE  WebInv'
<1>1. TypeOK'
  BY DEF WebInv, TypeOK
<1>2. ASSUME W!ReadStored(w)
      PROVE  /\ web'[w].at = "writing" /\ web'[w].sees = web[w].sees /\ web'[w].read = status
             /\ web'[w].todo = W!ToWrite(web[w].sees, status)
  BY <1>2 DEF WebInv, TypeOK, W!ReadStored, Scan
<1>3. ToldFromRead'
  BY <1>2 DEF WebInv, ToldFromRead, W!ToWrite
<1>4. AloneMends'
  <2> SUFFICES ASSUME NEW u \in WebTab, NEW g \in Finding,
                      (web[u].at = "writing")', web'[u].alone
               PROVE  IF g \in web'[u].todo THEN web'[u].read[g] = status[g] ELSE AsTold(u, g)'
    BY DEF AloneMends
  <2>1. CASE u = w
    BY <1>2, <2>1 DEF W!ToWrite, AsTold
  <2>2. CASE u # w
    BY <2>2 DEF WebInv, AloneMends, AsTold
  <2> QED
    BY <2>1, <2>2
<1> QED
  BY <1>1, <1>3, <1>4 DEF WebInv

\* A statement of w writes f.
LEMMA ScanWrites ==
  ASSUME WebInv, NEW w \in WebTab, NEW f \in Finding,
         W!Turn(w, f), web' = W!Written(w, f),
         NEW s \in Statuses \ {"none"}, NEW v \in W!Seen \ {"absent"},
         status' = [status EXCEPT ![f] = s], verdict' = [verdict EXCEPT ![f] = v],
         web[w].sees[f] = "absent" => s = "resolved",
         web[w].sees[f] # "absent" => s \in {"dismissed", W!StatusFor(v)} /\ v = web[w].sees[f]
  PROVE  WebInv'
<1>0. TypeOK
  BY DEF WebInv
<1>1. TypeOK'
  BY <1>0, WrittenScan DEF TypeOK
<1>2. ToldFromRead'
  <2> SUFFICES ASSUME NEW u \in WebTab, NEW g \in Finding, (web[u].at = "writing")'
               PROVE  /\ web'[u].read[g] # "none" => status'[g] # "none"
                      /\ g \in web'[u].todo =>
                           web'[u].sees[g] # "absent" \/ web'[u].read[g] \notin {"none", "resolved"}
    BY DEF ToldFromRead
  <2>1. status[g] # "none" => status'[g] # "none"
    BY DEF WebInv, TypeOK
  <2>2. web[u].read \in [Finding -> Statuses]
    BY <1>0 DEF TypeOK, Scan
  <2>3. CASE u = w
    <3>1. /\ web[w].at = "writing" /\ web'[w].sees = web[w].sees
          /\ web'[w].todo = web[w].todo \ {f}
          /\ web'[w].read = [web[w].read EXCEPT ![f] = "none"]
      BY <1>0, <2>3, WrittenScan
    <3> QED
      BY <2>1, <2>2, <2>3, <3>1 DEF WebInv, ToldFromRead
  <2>4. CASE u # w
    <3>1. /\ web'[u].at = web[u].at /\ web'[u].sees = web[u].sees
          /\ web'[u].todo = web[u].todo /\ web'[u].read = web[u].read
      BY <1>0, <2>4, WrittenOther
    <3> QED
      BY <2>1, <3>1 DEF WebInv, ToldFromRead
  <2> QED
    BY <2>3, <2>4
<1>3. AloneMends'
  <2> SUFFICES ASSUME NEW u \in WebTab, NEW g \in Finding,
                      (web[u].at = "writing")', web'[u].alone
               PROVE  IF g \in web'[u].todo THEN web'[u].read[g] = status'[g] ELSE AsTold(u, g)'
    BY DEF AloneMends
  <2>1. u = w
    <3>1. u # w => web'[u].at = web[u].at /\ web'[u].alone = (web[u].alone /\ u \notin W!Writing)
      BY <1>0, WrittenOther
    <3> QED
      BY <3>1 DEF W!Writing
  <2>2. /\ web[w].at = "writing" /\ web[w].alone /\ web'[w].sees = web[w].sees
        /\ web'[w].todo = web[w].todo \ {f}
        /\ web'[w].read = [web[w].read EXCEPT ![f] = "none"]
    BY <1>0, <2>1, WrittenScan
  <2>3. web[w].read \in [Finding -> Statuses]
    BY DEF WebInv, TypeOK, Scan
  <2>4. CASE g = f
    BY <2>1, <2>2, <2>4 DEF WebInv, TypeOK, AsTold
  <2>5. CASE g # f
    <3>1. status'[g] = status[g] /\ verdict'[g] = verdict[g] /\ web'[w].read[g] = web[w].read[g]
      BY <2>2, <2>3, <2>5 DEF WebInv, TypeOK
    <3>2. g \in web'[w].todo <=> g \in web[w].todo
      BY <2>2, <2>5
    <3>3. AsTold(w, g) => AsTold(w, g)'
      BY <2>2, <3>1 DEF AsTold
    <3> QED
      BY <2>1, <2>2, <3>1, <3>2, <3>3 DEF WebInv, AloneMends
  <2> QED
    BY <2>4, <2>5
<1> QED
  BY <1>1, <1>2, <1>3 DEF WebInv

\* Somebody else writes, and no scan can count on what it has read.
LEMMA OthersStep ==
  ASSUME WebInv, web' = W!Disturbed(W!Writing),
         status' \in [Finding -> Statuses], verdict' \in [Finding -> W!Seen \ {"absent"}],
         \A f \in Finding : status[f] # "none" => status'[f] # "none"
  PROVE  WebInv'
<1>0. TypeOK
  BY DEF WebInv
<1>1. /\ web' \in [WebTab -> Scan]
      /\ \A w \in WebTab : /\ web'[w].at = web[w].at /\ web'[w].sees = web[w].sees
                           /\ web'[w].read = web[w].read /\ web'[w].todo = web[w].todo
                           /\ web'[w].alone = (web[w].alone /\ w \notin W!Writing)
  <2>1. W!Writing \in SUBSET WebTab
    BY DEF W!Writing
  <2>2. W!Disturbed(W!Writing) \in [WebTab -> Scan]
    BY <1>0, <2>1 DEF TypeOK, W!Disturbed, Scan
  <2> QED
    BY <1>0, <2>1, <2>2, DisturbedScan
<1>2. TypeOK'
  BY <1>1 DEF TypeOK
<1>3. ToldFromRead'
  BY <1>1 DEF WebInv, ToldFromRead
<1>4. AloneMends'
  BY <1>1 DEF AloneMends, W!Writing
<1> QED
  BY <1>2, <1>3, <1>4 DEF WebInv

-----------------------------------------------------------------------------
LEMMA StatementStep ==
  ASSUME WebInv, NEW w \in WebTab, NEW f \in Finding,
         W!Insert(w, f) \/ W!Update(w, f) \/ W!Resolve(w, f)
  PROVE  /\ W!Turn(w, f) /\ web' = W!Written(w, f)
         /\ web[w].sees[f] # "absent" => W!Insert(w, f) \/ W!Update(w, f)
         /\ \E s \in Statuses \ {"none"}, v \in W!Seen \ {"absent"} :
              /\ status' = [status EXCEPT ![f] = s] /\ verdict' = [verdict EXCEPT ![f] = v]
              /\ web[w].sees[f] = "absent" => s = "resolved" /\ v = verdict[f]
              /\ web[w].sees[f] # "absent" => /\ s \in {"dismissed", W!StatusFor(v)}
                                              /\ v = web[w].sees[f]
              /\ status[f] = "dismissed" => s \in {"dismissed", "resolved"}
              /\ s = "dismissed" => status[f] = "dismissed"
<1> DEFINE v == web[w].sees[f]
<1>1. web[w].sees[f] \in W!Seen /\ verdict[f] \in W!Seen \ {"absent"} /\ verdict = [verdict EXCEPT ![f] = verdict[f]]
  BY DEF WebInv, TypeOK, Scan
<1>2. W!StatusFor(v) \in {"open", "filtered"}
  BY DEF W!StatusFor
<1>3. CASE W!Insert(w, f)
  <2>1. v # "absent" /\ status[f] = "none" /\ W!Turn(w, f) /\ web' = W!Written(w, f)
        /\ status' = [status EXCEPT ![f] = W!StatusFor(v)] /\ verdict' = [verdict EXCEPT ![f] = v]
    BY <1>3 DEF W!Insert
  <2>2. W!StatusFor(v) \in Statuses \ {"none"} /\ v \in W!Seen \ {"absent"}
    BY <1>1, <1>2, <2>1 DEF Statuses
  <2> QED
    BY <1>2, <1>3, <2>1, <2>2
<1>4. CASE W!Update(w, f)
  <2>1. v # "absent" /\ W!Turn(w, f) /\ web' = W!Written(w, f)
        /\ status' = [status EXCEPT ![f] = W!NewStatus(w, f)] /\ verdict' = [verdict EXCEPT ![f] = v]
    BY <1>4 DEF W!Update
  <2>2. W!NewStatus(w, f) = IF status[f] = "dismissed" THEN "dismissed" ELSE W!StatusFor(v)
    BY DEF W!NewStatus
  <2>3. W!NewStatus(w, f) \in Statuses \ {"none"} /\ v \in W!Seen \ {"absent"}
    BY <1>1, <1>2, <2>1, <2>2 DEF Statuses
  <2> QED
    BY <1>2, <1>4, <2>1, <2>2, <2>3
<1>5. CASE W!Resolve(w, f)
  <2>1. v = "absent" /\ W!Turn(w, f) /\ web' = W!Written(w, f)
        /\ status' = [status EXCEPT ![f] = "resolved"] /\ verdict' = verdict
    BY <1>5 DEF W!Resolve
  <2>2. "resolved" \in Statuses \ {"none"}
    BY DEF Statuses
  <2> QED
    BY <1>1, <2>1, <2>2
<1> QED
  BY <1>3, <1>4, <1>5

LEMMA WebStep ==
  ASSUME WebInv, [W!Next]_(W!vars)
  PROVE  WebInv'
<1>1. ASSUME NEW sees \in [Finding -> W!Seen], NEW F \in SUBSET Finding, W!OtherScan(F, sees)
      PROVE  WebInv'
  <2>1. status' \in [Finding -> Statuses] /\ verdict' \in [Finding -> W!Seen \ {"absent"}]
    BY <1>1 DEF W!OtherScan, WebInv, TypeOK, W!StatusFor, Statuses, W!Seen
  <2>2. \A f \in Finding : status[f] # "none" => status'[f] # "none"
    BY <1>1 DEF W!OtherScan, W!StatusFor
  <2> QED
    BY <1>1, <2>1, <2>2, OthersStep DEF W!OtherScan
<1>2. ASSUME NEW sees \in [Finding -> W!Seen], NEW w \in WebTab, W!scanProject(w, sees)
      PROVE  WebInv'
  <2>1. [W!Idle EXCEPT !.at = "answered", !.sees = sees] \in Scan
    BY DEF W!Idle, Scan, Statuses
  <2>2. web' \in [WebTab -> Scan] /\ web'[w].at = "answered" /\ \A u \in WebTab \ {w} : web'[u] = web[u]
    BY <1>2, <2>1 DEF W!scanProject, WebInv, TypeOK, W!Idle
  <2> QED
    BY <1>2, <2>2, QuietStep DEF W!scanProject
<1>3. ASSUME NEW f \in Finding, W!Decide(f, "dismissed") \/ W!Decide(f, "open")
      PROVE  WebInv'
  BY <1>3, OthersStep DEF W!Decide, WebInv, TypeOK, Statuses
<1>4. ASSUME NEW w \in WebTab, W!ReadStored(w) PROVE WebInv'
  <2> DEFINE e == [web[w] EXCEPT !.at = "writing", !.read = status,
                                 !.todo = W!ToWrite(web[w].sees, status)]
  <2>1. web \in [WebTab -> Scan] /\ status \in [Finding -> Statuses]
        /\ W!ToWrite(web[w].sees, status) \in SUBSET Finding
    BY DEF WebInv, TypeOK, W!ToWrite
  <2>2. e \in Scan
    BY <2>1 DEF Scan
  <2>3. web' = [web EXCEPT ![w] = e]
    BY <1>4, <2>1 DEF W!ReadStored
  <2> HIDE DEF e
  <2>4. web' \in [WebTab -> Scan] /\ \A u \in WebTab \ {w} : web'[u] = web[u]
    BY <2>1, <2>2, <2>3
  <2> QED
    BY <1>4, <2>4, QuietStep DEF W!ReadStored
<1>5. ASSUME NEW w \in WebTab, W!ScanFails(w) \/ W!ScanEnds(w) PROVE WebInv'
  <2>1. W!Idle \in Scan /\ W!Idle.at = "idle"
    BY DEF W!Idle, Scan, Statuses, W!Seen
  <2>2. web' \in [WebTab -> Scan] /\ web'[w] = W!Idle /\ \A u \in WebTab \ {w} : web'[u] = web[u]
    BY <1>5, <2>1 DEF W!ScanFails, W!ScanEnds, WebInv, TypeOK
  <2> QED
    BY <1>5, <2>1, <2>2, QuietStep DEF W!ScanFails, W!ScanEnds
<1>6. ASSUME NEW w \in WebTab, NEW f \in Finding, W!Insert(w, f) \/ W!Update(w, f) \/ W!Resolve(w, f)
      PROVE  WebInv'
  BY <1>6, StatementStep, ScanWrites
<1>7. CASE UNCHANGED W!vars
  BY <1>7 DEF W!vars, WebInv, TypeOK, ToldFromRead, AloneMends, AsTold
<1> QED
  BY <1>1, <1>2, <1>3, <1>4, <1>5, <1>6, <1>7 DEF W!Next

LEMMA WebInvariance == W!Spec => []WebInv
  BY InitWeb, WebStep, PTL DEF W!Spec

\* Wherever earlier scans stopped half way, one that comes to its end without
\* anyone else leaves the rows as the engine sees the project.
THEOREM ScansMend == W!Spec => []HalfScansAreMended
<1>1. WebInv => HalfScansAreMended
  BY DEF WebInv, AloneMends, AsTold, HalfScansAreMended, W!HalfScansAreMended, W!Done
<1> QED
  BY <1>1, WebInvariance, PTL

-----------------------------------------------------------------------------
(***************************************************************************)
(* The refinement of FindingLife.                                          *)
(***************************************************************************)

LEMMA StatementIsCheck ==
  ASSUME WebInv, NEW w \in WebTab, NEW f \in Finding,
         W!Insert(w, f) \/ W!Update(w, f) \/ W!Resolve(w, f)
  PROVE  W!Life!Check
<1>1. PICK s \in Statuses \ {"none"}, v \in W!Seen \ {"absent"} :
        /\ status' = [status EXCEPT ![f] = s] /\ verdict' = [verdict EXCEPT ![f] = v]
        /\ web[w].sees[f] = "absent" => s = "resolved" /\ v = verdict[f]
        /\ web[w].sees[f] # "absent" => /\ s \in {"dismissed", W!StatusFor(v)}
                                        /\ v = web[w].sees[f]
        /\ s = "dismissed" => status[f] = "dismissed"
  BY StatementStep
<1>2. /\ status \in [Finding -> Statuses] /\ verdict \in [Finding -> W!Seen \ {"absent"}]
      /\ web[w].sees[f] \in {"actionable", "suppressed", "absent"}
  BY DEF WebInv, TypeOK, Scan, W!Seen
<1>3. web[w].sees[f] = "absent" => status[f] # "none"
  BY DEF WebInv, ToldFromRead, W!Insert, W!Update, W!Resolve, W!Turn
<1>4. W!Life!Checked(f, web[w].sees[f])
  <2>1. status'[f] = s /\ verdict'[f] = v
    BY <1>1, <1>2
  <2>2. s \in W!Life!After(status[f], web[w].sees[f])
    BY <1>1, <1>2, <1>3 DEF W!Life!After, W!Life!Decided, W!StatusFor
  <2> QED
    BY <1>1, <2>1, <2>2 DEF W!Life!Checked
<1>5. \A g \in Finding : g # f => W!Life!Unchecked(g)
  BY <1>1, <1>2 DEF W!Life!Unchecked
<1>6. DOMAIN status' = Finding /\ DOMAIN verdict' = Finding
  BY <1>1, <1>2
<1> QED
  BY <1>2, <1>4, <1>5, <1>6 DEF W!Life!Check

LEMMA OtherScanIsCheck ==
  ASSUME WebInv, NEW sees \in [Finding -> W!Seen], NEW F \in SUBSET Finding, W!OtherScan(F, sees)
  PROVE  W!Life!Check
<1>1. DOMAIN status' = Finding /\ DOMAIN verdict' = Finding
  BY DEF W!OtherScan
<1>2. ASSUME NEW f \in Finding
      PROVE  W!Life!Unchecked(f) \/ \E v \in {"actionable", "suppressed", "absent"} : W!Life!Checked(f, v)
  <2>1. sees[f] \in {"actionable", "suppressed", "absent"}
    BY DEF W!Seen
  <2>2. CASE f \notin F \/ (sees[f] = "absent" /\ status[f] = "none")
    BY <2>2 DEF W!OtherScan, W!Life!Unchecked
  <2>3. CASE f \in F /\ (sees[f] # "absent" \/ status[f] # "none")
    <3>1. /\ status'[f] = IF sees[f] = "absent" THEN "resolved"
                          ELSE IF status[f] = "dismissed" THEN "dismissed" ELSE W!StatusFor(sees[f])
          /\ verdict'[f] = IF sees[f] = "absent" THEN verdict[f] ELSE sees[f]
      BY <2>3 DEF W!OtherScan
    <3>2. status'[f] \in W!Life!After(status[f], sees[f])
      BY <2>1, <2>3, <3>1 DEF W!Life!After, W!Life!Decided, W!StatusFor
    <3> QED
      BY <2>1, <3>1, <3>2 DEF W!Life!Checked
  <2> QED
    BY <2>2, <2>3
<1> QED
  BY <1>1, <1>2 DEF W!Life!Check

\* Statement by statement, and next to the owner and to other scans, the web
\* server's scan implements the life of a finding, and takes no dismissal back.
THEOREM WebScanIsLife == W!Spec => WebScanKeepsTheLife
<1>1. W!Init => W!Life!LifeInit
  BY DEF W!Init, W!Life!LifeInit
<1>2. WebInv /\ [W!Next]_(W!vars) => [W!Life!LifeNext]_(W!Life!lifeVars)
  <2> SUFFICES ASSUME WebInv, [W!Next]_(W!vars) PROVE [W!Life!LifeNext]_(W!Life!lifeVars)
    OBVIOUS
  <2>1. ASSUME NEW sees \in [Finding -> W!Seen], NEW F \in SUBSET Finding, W!OtherScan(F, sees)
        PROVE  W!Life!LifeNext
    BY <2>1, OtherScanIsCheck DEF W!Life!LifeNext
  <2>2. ASSUME NEW f \in Finding, W!Decide(f, "dismissed") \/ W!Decide(f, "open")
        PROVE  W!Life!LifeNext
    BY <2>2 DEF W!Decide, W!Life!LifeNext, W!Life!Decide, W!Life!Decided
  <2>3. ASSUME NEW w \in WebTab, NEW f \in Finding, W!Insert(w, f) \/ W!Update(w, f) \/ W!Resolve(w, f)
        PROVE  W!Life!LifeNext
    BY <2>3, StatementIsCheck DEF W!Life!LifeNext
  <2>4. ASSUME NEW w \in WebTab,
               \/ \E sees \in [Finding -> W!Seen] : W!scanProject(w, sees)
               \/ W!ReadStored(w) \/ W!ScanFails(w) \/ W!ScanEnds(w)
        PROVE  UNCHANGED W!Life!lifeVars
    BY <2>4 DEF W!scanProject, W!ReadStored, W!ScanFails, W!ScanEnds, W!Life!lifeVars
  <2>5. CASE UNCHANGED W!vars
    BY <2>5 DEF W!vars, W!Life!lifeVars
  <2> QED
    BY <2>1, <2>2, <2>3, <2>4, <2>5 DEF W!Next
<1>3. WebInv /\ [W!Next]_(W!vars) => [W!DismissalStands]_(W!vars)
  <2> SUFFICES ASSUME WebInv, W!Next,
                      NEW w \in WebTab, NEW f \in Finding,
                      web[w].at = "writing", f \in web[w].todo, f \notin web'[w].todo,
                      status[f] = "dismissed", web'[w] # W!Idle
               PROVE  status'[f] \in {"dismissed", "resolved"}
    BY DEF W!DismissalStands
  <2>0. TypeOK
    BY DEF WebInv
  <2>1. web' # W!Disturbed(W!Writing)
    <3>1. W!Writing \in SUBSET WebTab
      BY DEF W!Writing
    <3>2. W!Disturbed(W!Writing)[w].todo = web[w].todo
      BY <2>0, <3>1, DisturbedScan
    <3> QED
      BY <3>2
  <2>2. /\ ~ \E sees \in [Finding -> W!Seen], F \in SUBSET Finding : W!OtherScan(F, sees)
        /\ ~ \E g \in Finding : W!Decide(g, "dismissed") \/ W!Decide(g, "open")
    BY <2>1 DEF W!OtherScan, W!Decide
  <2>3. ASSUME NEW u \in WebTab
        PROVE  /\ ~ \E sees \in [Finding -> W!Seen] : W!scanProject(u, sees)
               /\ ~W!ReadStored(u) /\ ~W!ScanFails(u) /\ ~W!ScanEnds(u)
    BY <2>0 DEF TypeOK, W!scanProject, W!ReadStored, W!ScanFails, W!ScanEnds, W!Done
  <2>4. PICK u \in WebTab, g \in Finding : W!Insert(u, g) \/ W!Update(u, g) \/ W!Resolve(u, g)
    BY <2>2, <2>3 DEF W!Next
  <2>5. web' = W!Written(u, g)
    BY <2>4, StatementStep
  <2>6. u = w
    BY <2>0, <2>5, WrittenOther
  <2>7. g = f
    <3>1. W!Written(w, g)[w].todo = web[w].todo \ {g}
      BY <2>0, WrittenScan
    <3> QED
      BY <2>5, <2>6, <3>1
  <2> QED
    BY <2>0, <2>4, <2>6, <2>7, StatementStep DEF TypeOK
<1> QED
  BY <1>1, <1>2, <1>3, WebInvariance, PTL DEF W!Spec, WebScanKeepsTheLife, W!WebScanKeepsTheLife, W!Life!LifeSpec
=============================================================================
