---------------------------- MODULE Startup_proofs ----------------------------
(***************************************************************************)
(* Theorems about Startup for any containers, servers, scripts and         *)
(* directories.                                                            *)
(***************************************************************************)
EXTENDS Startup, TLAPS

LEMMA TypeStep == TypeOK /\ [Next]_vars => TypeOK'
<1> SUFFICES ASSUME TypeOK, [Next]_vars PROVE TypeOK'
  OBVIOUS
<1> USE KindsAssumption, DirAssumption, BoundsAssumption
    DEF TypeOK, Versions, Index, Procs, Builders, Move, NoIndex
<1>1. ASSUME NEW c \in Containers, StartContainer(c) \/ IndexFound(c) \/ CheckVersion(c)
      PROVE  TypeOK'
  BY <1>1 DEF StartContainer, IndexFound, CheckVersion
<1>2. ASSUME NEW b \in Builders, NEW from \in {"index", "down"}, Build(b, from)
      PROVE  TypeOK'
  BY <1>2 DEF Build
<1>3. ASSUME NEW ps \in SUBSET Procs, GoDown(ps), UNCHANGED <<docs, schema>>,
             clash' \subseteq Dirs, faults' \in 0 .. MaxFaults
      PROVE  TypeOK'
  BY <1>3 DEF GoDown
<1>4. ASSUME NEW p \in Procs PROVE Family(p) \subseteq Procs
  BY DEF Family
<1>5. ASSUME NEW c \in Containers, WriteRefused(c) \/ ConnectRefused(c) PROVE TypeOK'
  BY <1>3, <1>4, <1>5 DEF WriteRefused, ConnectRefused
<1>6. ASSUME NEW p \in Containers \cup Servers, CreateFails(p) PROVE TypeOK'
  BY <1>3, <1>4, <1>6 DEF CreateFails
<1>7. ASSUME NEW p \in Procs, Crash(p) PROVE TypeOK'
  <2>1. clash' \subseteq Dirs /\ faults' \in 0 .. MaxFaults
    BY <1>7 DEF Crash
  <2> QED
    BY <1>3, <1>4, <1>7, <2>1 DEF Crash
<1>8. ASSUME NEW b \in Builders, WriteFaiss(b) PROVE TypeOK'
  BY <1>8 DEF WriteFaiss
<1>9. ASSUME NEW b \in Builders, WritePkl(b) PROVE TypeOK'
  BY <1>9 DEF WritePkl
<1>10. ASSUME NEW s \in Servers, StartServer(s) PROVE TypeOK'
  BY <1>10 DEF StartServer
<1>11. ASSUME NEW s \in Servers, LoadFaiss(s) PROVE TypeOK'
  BY <1>11 DEF LoadFaiss
<1>12. ASSUME NEW s \in Servers, LoadPkl(s) PROVE TypeOK'
  BY <1>12 DEF LoadPkl
<1>13. ASSUME NEW p \in Containers \cup Servers, CreateTables(p) PROVE TypeOK'
  BY <1>13 DEF CreateTables
<1>14. ASSUME NEW p \in Containers \cup Servers, CommitDDL(p) PROVE TypeOK'
  BY <1>14 DEF CommitDDL, Wanted
<1>15. CASE EditDocs
  BY <1>15 DEF EditDocs
<1>16. CASE UNCHANGED vars
  BY <1>16 DEF vars
<1> QED
  BY <1>1, <1>2, <1>5, <1>6, <1>7, <1>8, <1>9, <1>10, <1>11, <1>12, <1>13, <1>14, <1>15, <1>16
     DEF Next, ContainerStep, BuilderStep, SchemaStep, IndexMissing, RunBuildIndex

(* The variables keep their types in every instance. *)
THEOREM TypeCorrect == Spec => []TypeOK
<1>1. Init => TypeOK
  BY KindsAssumption, BoundsAssumption
     DEF Init, TypeOK, Versions, Index, NoIndex, Procs, Builders
<1> QED
  BY <1>1, TypeStep, PTL DEF Spec

-----------------------------------------------------------------------------
(* The schema: at most one transaction holds the new tables, and what it   *)
(* creates is not there before it commits.                                 *)
SchemaInv ==
  /\ TypeOK
  /\ SchemaBeforeService
  /\ \A p, q \in Procs : job[p] = "ddl" /\ job[q] = "ddl" => p = q
  /\ \A p \in Procs : job[p] = "ddl" => Wanted(p) \cap schema = {}

LEMMA SchemaStepInv == SchemaInv /\ [Next]_vars => SchemaInv'
<1> SUFFICES ASSUME SchemaInv, [Next]_vars PROVE SchemaInv'
  OBVIOUS
<1>0. TypeOK /\ TypeOK'
  BY TypeStep DEF SchemaInv
<1> USE KindsAssumption DEF SchemaInv, SchemaBeforeService, Serves, Procs, Builders
(* Most steps leave the schema alone and start neither service nor DDL. *)
<1>1. ASSUME UNCHANGED schema,
             \A p \in Procs : job'[p] = job[p] \/ job'[p] \notin {"ddl", "uvicorn", "serving", "loading"}
      PROVE  SchemaInv'
  BY <1>0, <1>1 DEF TypeOK, Wanted
<1>2. ASSUME NEW ps \in SUBSET Procs, GoDown(ps), UNCHANGED schema PROVE SchemaInv'
  BY <1>1, <1>2 DEF GoDown
<1>3. ASSUME NEW p \in Procs PROVE Family(p) \subseteq Procs
  BY DEF Family
<1>4. ASSUME NEW c \in Containers, StartContainer(c) \/ IndexFound(c) \/ IndexMissing(c)
      PROVE  SchemaInv'
  BY <1>0, <1>1, <1>4 DEF StartContainer, IndexFound, IndexMissing, Build, Move, TypeOK
<1>5. ASSUME NEW c \in Containers, WriteRefused(c) \/ ConnectRefused(c) PROVE SchemaInv'
  BY <1>2, <1>3, <1>5 DEF WriteRefused, ConnectRefused
<1>6. ASSUME NEW c \in Containers, CheckVersion(c) PROVE SchemaInv'
  BY <1>0, <1>6 DEF CheckVersion, Move, TypeOK, Wanted
<1>7. ASSUME NEW b \in Builders, BuilderStep(b) \/ (b \in Scripts /\ RunBuildIndex(b))
      PROVE  SchemaInv'
  BY <1>0, <1>1, <1>7 DEF BuilderStep, WriteFaiss, WritePkl, RunBuildIndex, Build, Move, TypeOK
<1>8. ASSUME NEW s \in Servers, StartServer(s) PROVE SchemaInv'
  BY <1>0, <1>8 DEF StartServer, Move, TypeOK, Wanted
<1>9. ASSUME NEW s \in Servers, LoadFaiss(s) \/ LoadPkl(s) PROVE SchemaInv'
  BY <1>0, <1>9 DEF LoadFaiss, LoadPkl, Move, TypeOK, Wanted
<1>10. ASSUME NEW p \in Containers \cup Servers, CreateTables(p) PROVE SchemaInv'
  BY <1>0, <1>10 DEF CreateTables, NoOpenDDL, Move, TypeOK, Wanted
<1>11. ASSUME NEW p \in Containers \cup Servers, CreateFails(p) PROVE SchemaInv'
  BY <1>2, <1>3, <1>11 DEF CreateFails
<1>12. ASSUME NEW p \in Containers \cup Servers, CommitDDL(p) PROVE SchemaInv'
  BY <1>0, <1>12 DEF CommitDDL, Move, TypeOK, Wanted
<1>13. ASSUME NEW p \in Procs, Crash(p) PROVE SchemaInv'
  BY <1>2, <1>3, <1>13 DEF Crash
<1>14. CASE EditDocs \/ UNCHANGED vars
  BY <1>1, <1>14 DEF EditDocs, vars
<1> QED
  BY <1>4, <1>5, <1>6, <1>7, <1>8, <1>9, <1>10, <1>11, <1>12, <1>13, <1>14
     DEF Next, ContainerStep, SchemaStep

THEOREM SchemaInvariance == Spec => []SchemaInv
<1>1. Init => SchemaInv
  BY KindsAssumption, BoundsAssumption
     DEF Init, SchemaInv, SchemaBeforeService, Serves, TypeOK, Versions, Index, NoIndex,
         Procs, Builders
<1> QED
  BY <1>1, SchemaStepInv, PTL DEF Spec

(* No worker serves without tables and no container without a version,     *)
(* however many start, fail and die together.                              *)
THEOREM ServiceNeedsSchema == Spec => []SchemaBeforeService
<1>1. SchemaInv => SchemaBeforeService
  BY DEF SchemaInv
<1> QED
  BY <1>1, SchemaInvariance, PTL

(* A schema that create_all made stays without a version for ever.         *)
THEOREM UnstampedStays == Spec => UnstampedForever
<1>1. SchemaInv /\ [Next]_vars => [schema = {"tables"} => schema' = {"tables"}]_vars
  <2> SUFFICES ASSUME SchemaInv, Next, schema = {"tables"} PROVE schema' = schema
    BY DEF vars
  <2>1. ASSUME NEW p \in Containers \cup Servers PROVE ~CommitDDL(p)
    BY DEF SchemaInv, CommitDDL, Move, Wanted, Procs, Builders
  <2> QED
    BY <2>1 DEF Next, ContainerStep, BuilderStep, SchemaStep, StartContainer, IndexFound,
       IndexMissing, RunBuildIndex, Build, WriteFaiss, WritePkl, WriteRefused, CheckVersion,
       ConnectRefused, StartServer, LoadFaiss, LoadPkl, CreateTables, CreateFails, Crash, EditDocs
<1> QED
  BY <1>1, SchemaInvariance, PTL DEF Spec, UnstampedForever

-----------------------------------------------------------------------------
(* The index: outside the directories of "clash" one build at a time       *)
(* writes, nothing is loaded meanwhile, and what is on disk is of one      *)
(* build.                                                                  *)
Writing(b, d) == job[b] = "writing" /\ DirOf[b] = d
Loading(s, d) == job[s] = "loading" /\ DirOf[s] = d
PastIndex(b) == job[b] \in {"writing", "migrate", "checked", "ddl", "uvicorn"}

OneBuild(d) ==
  /\ \A a, b \in Builders : Writing(a, d) /\ Writing(b, d) => a = b
  /\ \A b \in Builders : Writing(b, d) => files[d].faiss = built[b]
  /\ \A b \in Builders, s \in Servers : ~(Writing(b, d) /\ Loading(s, d))
  /\ (\A b \in Builders : ~Writing(b, d)) => files[d].pkl = files[d].faiss
  /\ \A s \in Servers : Loading(s, d) => half[s] = files[d].faiss

IndexInv ==
  /\ TypeOK
  /\ \A b \in Builders : job[b] \in {"building", "writing"} => built[b] # 0
  /\ \A b \in Builders : PastIndex(b) => files[DirOf[b]].faiss # 0
  /\ \A d \in Dirs \ clash : OneBuild(d)
  /\ StoreIsOneBuild

(* Only the directory of an ephemeral container is emptied, together with  *)
(* everybody who uses it.                                                  *)
LEMMA DownKeepsIndex ==
  ASSUME IndexInv, TypeOK', NEW p \in Procs, GoDown(Family(p)),
         clash' = clash \/ clash' = clash \cup {DirOf[p]},
         job[p] = "writing" /\ p \notin Ephemeral => DirOf[p] \in clash'
  PROVE  IndexInv'
<1> USE KindsAssumption, DirAssumption DEF IndexInv, Procs, Builders
<1>1. \A q \in Procs : IF q \in Family(p) THEN job'[q] = "down" ELSE job'[q] = job[q]
  BY DEF GoDown, TypeOK
<1>2. \A b \in Builders : job'[b] # "down" => built'[b] = built[b] /\ job'[b] = job[b]
  BY <1>1 DEF GoDown, TypeOK
<1>3. \A s \in Servers : job'[s] # "down" => half'[s] = half[s] /\ job'[s] = job[s]
  BY <1>1 DEF GoDown, TypeOK
<1>4. \A c \in Ephemeral : c \in Family(p) => c = p
  BY DEF Family
<1>5. ASSUME NEW d \in Dirs
      PROVE  \/ files'[d] = files[d]
             \/ files'[d] = NoIndex /\ p \in Ephemeral /\ DirOf[p] = d
  BY <1>4 DEF GoDown
<1>6. ASSUME NEW d \in Dirs, files'[d] # files[d], NEW q \in Procs, DirOf[q] = d
      PROVE  job'[q] = "down"
  <2>1. files'[d] = NoIndex /\ p \in Ephemeral /\ DirOf[p] = d
    BY <1>5, <1>6
  <2>2. q \in Family(p)
    BY <1>6, <2>1 DEF Family
  <2> QED
    BY <1>1, <2>2
<1>7. \A b \in Builders : job'[b] \in {"building", "writing"} => built'[b] # 0
  BY <1>2
<1>8. \A b \in Builders : PastIndex(b)' => files'[DirOf[b]].faiss # 0
  <2> SUFFICES ASSUME NEW b \in Builders, PastIndex(b)' PROVE files'[DirOf[b]].faiss # 0
    OBVIOUS
  <2>1. job'[b] = job[b] /\ job'[b] # "down"
    BY <1>1 DEF PastIndex
  <2>2. files'[DirOf[b]] = files[DirOf[b]]
    BY <1>6, <2>1
  <2> QED
    BY <2>1, <2>2 DEF PastIndex
<1>9. ASSUME NEW d \in Dirs \ clash' PROVE OneBuild(d)'
  <2>1. CASE files'[d] # files[d]
    <3>1. files'[d] = NoIndex
      BY <1>5, <2>1
    <3>2. \A q \in Procs : DirOf[q] = d => job'[q] = "down"
      BY <1>6, <2>1
    <3> QED
      BY <3>1, <3>2 DEF OneBuild, Writing, Loading, NoIndex
  <2>2. CASE files'[d] = files[d]
    <3>1. OneBuild(d)
      BY <1>9
    <3>2. \A b \in Builders : Writing(b, d)' => Writing(b, d) /\ built'[b] = built[b]
      BY <1>2 DEF Writing
    <3>3. \A s \in Servers : Loading(s, d)' => Loading(s, d) /\ half'[s] = half[s]
      BY <1>3 DEF Loading
    <3>4. (\A b \in Builders : ~Writing(b, d)') => files[d].pkl = files[d].faiss
      <4>1. CASE \A b \in Builders : ~Writing(b, d)
        BY <3>1, <4>1 DEF OneBuild
      <4>2. CASE \E b \in Builders : Writing(b, d)
        <5>1. PICK b \in Builders : Writing(b, d)
          BY <4>2
        <5>2. ASSUME b \in Family(p) PROVE files'[d] = NoIndex
          <6>1. b = p
            BY <5>2 DEF Family
          <6>2. p \in Ephemeral
            BY <1>9, <5>1, <6>1 DEF Writing
          <6> QED
            BY <5>1, <6>1, <6>2 DEF GoDown, Family, Writing
        <5>3. ASSUME b \notin Family(p) PROVE Writing(b, d)'
          BY <1>1, <5>1, <5>3 DEF Writing
        <5> QED
          BY <2>2, <5>2, <5>3 DEF NoIndex
      <4> QED
        BY <4>1, <4>2
    <3> QED
      BY <2>2, <3>1, <3>2, <3>3, <3>4 DEF OneBuild
  <2> QED
    BY <2>1, <2>2
<1>10. StoreIsOneBuild'
  BY DEF GoDown, StoreIsOneBuild
<1> QED
  BY <1>7, <1>8, <1>9, <1>10

(* Steps that touch neither the files nor who reads or writes them. *)
LEMMA QuietKeepsIndex ==
  ASSUME IndexInv, TypeOK', UNCHANGED <<built, files, half, mixed, clash>>,
         \A p \in Procs : \/ job'[p] = job[p]
                          \/ /\ job[p] \notin {"building", "writing", "loading"}
                             /\ job'[p] \notin {"building", "writing", "loading"},
         \A b \in Builders : PastIndex(b)' => PastIndex(b) \/ files[DirOf[b]].faiss # 0
  PROVE  IndexInv'
<1> USE DEF IndexInv, Procs, Builders
<1>1. \A b \in Builders, d \in Dirs : Writing(b, d)' <=> Writing(b, d)
  BY DEF Writing
<1>2. \A s \in Servers, d \in Dirs : Loading(s, d)' <=> Loading(s, d)
  BY DEF Loading
<1>3. ASSUME NEW d \in Dirs \ clash' PROVE OneBuild(d)'
  BY <1>1, <1>2, <1>3 DEF OneBuild
<1> QED
  BY <1>3 DEF StoreIsOneBuild

LEMMA IndexStepInv == IndexInv /\ [Next]_vars => IndexInv'
<1> SUFFICES ASSUME IndexInv, [Next]_vars PROVE IndexInv'
  OBVIOUS
<1>0. TypeOK /\ TypeOK'
  BY TypeStep DEF IndexInv
<1> USE KindsAssumption, DirAssumption DEF Procs, Builders
<1>1. ASSUME NEW c \in Containers, StartContainer(c) \/ IndexFound(c) \/ CheckVersion(c)
      PROVE  IndexInv'
  BY <1>0, <1>1, QuietKeepsIndex
     DEF StartContainer, IndexFound, CheckVersion, Move, TypeOK, PastIndex
<1>2. ASSUME NEW p \in Containers \cup Servers, CreateTables(p) \/ CommitDDL(p)
      PROVE  IndexInv'
  BY <1>0, <1>2, QuietKeepsIndex DEF CreateTables, CommitDDL, Move, TypeOK, PastIndex
<1>3. ASSUME NEW s \in Servers, StartServer(s) PROVE IndexInv'
  BY <1>0, <1>3, QuietKeepsIndex DEF StartServer, Move, TypeOK, PastIndex
<1>4. CASE EditDocs \/ UNCHANGED vars
  BY <1>0, <1>4, QuietKeepsIndex DEF EditDocs, vars, PastIndex
<1>5. ASSUME NEW c \in Containers, WriteRefused(c) \/ ConnectRefused(c) PROVE IndexInv'
  BY <1>0, <1>5, DownKeepsIndex DEF WriteRefused, ConnectRefused
<1>6. ASSUME NEW p \in Containers \cup Servers, CreateFails(p) PROVE IndexInv'
  BY <1>0, <1>6, DownKeepsIndex DEF CreateFails
<1>7. ASSUME NEW p \in Procs, Crash(p) PROVE IndexInv'
  BY <1>0, <1>7, DownKeepsIndex DEF Crash
<1>8. ASSUME NEW b \in Builders, NEW from \in {"index", "down"}, Build(b, from)
      PROVE  IndexInv'
  <2>1. built'[b] # 0 /\ UNCHANGED <<files, half, mixed, clash>>
    BY <1>0, <1>8 DEF Build, TypeOK
  <2>2. \A p \in Procs : p # b => job'[p] = job[p]
    BY <1>0, <1>8 DEF Build, Move, TypeOK
  <2>3. job[b] = from /\ job'[b] = "building"
    BY <1>0, <1>8 DEF Build, Move, TypeOK
  <2>4. \A a \in Builders : a # b => built'[a] = built[a]
    BY <1>0, <1>8 DEF Build, TypeOK
  <2>5. ASSUME NEW d \in Dirs \ clash' PROVE OneBuild(d)'
    <3>1. \A a \in Builders : Writing(a, d)' <=> Writing(a, d) /\ a # b
      BY <2>2, <2>3 DEF Writing
    <3>2. \A a \in Builders : Writing(a, d) => a # b
      BY <2>3 DEF Writing
    <3>3. \A s \in Servers : Loading(s, d)' <=> Loading(s, d)
      BY <2>2, <2>3 DEF Loading
    <3> QED
      BY <2>1, <2>4, <2>5, <3>1, <3>2, <3>3 DEF OneBuild, IndexInv
  <2> QED
    BY <1>0, <2>1, <2>2, <2>3, <2>4, <2>5 DEF IndexInv, StoreIsOneBuild, PastIndex
<1>9. ASSUME NEW b \in Builders, WriteFaiss(b) PROVE IndexInv'
  <2> DEFINE e == DirOf[b]
  <2>1. e \in Dirs /\ job[b] = "building" /\ job'[b] = "writing" /\ built[b] # 0
    BY <1>0, <1>9 DEF WriteFaiss, Move, TypeOK, IndexInv
  <2>2. \A p \in Procs : p # b => job'[p] = job[p]
    BY <1>0, <1>9 DEF WriteFaiss, Move, TypeOK
  <2>3. /\ files'[e].faiss = built[b]
        /\ \A d \in Dirs : d # e => files'[d] = files[d]
        /\ UNCHANGED <<built, half, mixed>>
    BY <1>0, <1>9 DEF WriteFaiss, TypeOK, Index
  <2>4. /\ clash \subseteq clash'
        /\ e \notin clash' => /\ \A a \in Builders : ~Writing(a, e)
                              /\ \A s \in Servers : ~Loading(s, e)
    BY <1>9 DEF WriteFaiss, Writing, Loading
  <2>5. ASSUME NEW d \in Dirs \ clash' PROVE OneBuild(d)'
    <3>1. CASE d = e
      <4>1. \A a \in Builders : Writing(a, d)' <=> a = b
        BY <2>1, <2>2, <2>4, <2>5, <3>1 DEF Writing
      <4>2. \A s \in Servers : ~Loading(s, d)'
        BY <2>1, <2>2, <2>4, <2>5, <3>1 DEF Loading
      <4> QED
        BY <2>3, <3>1, <4>1, <4>2 DEF OneBuild
    <3>2. CASE d # e
      <4>1. \A a \in Builders : Writing(a, d)' <=> Writing(a, d)
        BY <2>1, <2>2, <3>2 DEF Writing
      <4>2. \A s \in Servers : Loading(s, d)' <=> Loading(s, d)
        BY <2>1, <2>2, <3>2 DEF Loading
      <4>3. files'[d] = files[d]
        BY <2>3, <3>2
      <4> QED
        BY <2>3, <2>4, <2>5, <4>1, <4>2, <4>3 DEF OneBuild, IndexInv
    <3> QED
      BY <3>1, <3>2
  <2>6. \A d \in Dirs : files[d].faiss # 0 => files'[d].faiss # 0
    BY <2>1, <2>3
  <2> QED
    BY <1>0, <2>1, <2>2, <2>3, <2>4, <2>5, <2>6 DEF IndexInv, StoreIsOneBuild, PastIndex
<1>10. ASSUME NEW b \in Builders, WritePkl(b) PROVE IndexInv'
  <2> DEFINE e == DirOf[b]
  <2>1. /\ e \in Dirs /\ job[b] = "writing"
        /\ job'[b] \in {"migrate", "down"}
    BY <1>0, <1>10 DEF WritePkl, Move, TypeOK
  <2>2. \A p \in Procs : p # b => job'[p] = job[p]
    BY <1>0, <1>10 DEF WritePkl, Move, TypeOK
  <2>3. /\ files'[e].pkl = built[b]
        /\ \A d \in Dirs : files'[d].faiss = files[d].faiss
        /\ \A d \in Dirs : d # e => files'[d] = files[d]
        /\ \A a \in Builders : a # b => built'[a] = built[a]
        /\ UNCHANGED <<half, mixed, clash>>
    BY <1>0, <1>10 DEF WritePkl, TypeOK, Index
  <2>4. ASSUME NEW d \in Dirs \ clash' PROVE OneBuild(d)'
    <3>1. \A a \in Builders : Writing(a, d)' <=> Writing(a, d) /\ a # b
      BY <2>1, <2>2 DEF Writing
    <3>2. \A s \in Servers : Loading(s, d)' <=> Loading(s, d)
      BY <2>1, <2>2 DEF Loading
    <3>3. OneBuild(d)
      BY <2>3, <2>4 DEF IndexInv
    <3>4. CASE d = e
      <4>1. Writing(b, d) /\ files[d].faiss = built[b]
        BY <2>1, <3>3, <3>4 DEF Writing, OneBuild
      <4>2. \A a \in Builders : ~Writing(a, d)'
        BY <3>1, <3>3, <4>1 DEF OneBuild
      <4>3. files'[d].pkl = files'[d].faiss
        BY <2>1, <2>3, <3>4, <4>1
      <4> QED
        BY <2>3, <3>2, <3>3, <4>2, <4>3 DEF OneBuild
    <3>5. CASE d # e
      <4>1. ~Writing(b, d)
        BY <3>5 DEF Writing
      <4>2. files'[d] = files[d]
        BY <2>3, <3>5
      <4> QED
        BY <2>3, <3>1, <3>2, <3>3, <4>1, <4>2 DEF OneBuild
    <3> QED
      BY <3>4, <3>5
  <2>5. \A a \in Builders : PastIndex(a)' => PastIndex(a)
    BY <2>1, <2>2 DEF PastIndex
  <2>6. \A a \in Builders : PastIndex(a)' => files'[DirOf[a]].faiss # 0
    BY <1>0, <2>3, <2>5 DEF IndexInv, TypeOK
  <2> QED
    BY <1>0, <2>1, <2>2, <2>3, <2>4, <2>6 DEF IndexInv, StoreIsOneBuild
<1>11. ASSUME NEW s \in Servers, LoadFaiss(s) PROVE IndexInv'
  <2> DEFINE e == DirOf[s]
  <2>1. e \in Dirs /\ job[s] = "serving" /\ job'[s] = "loading" /\ half'[s] = files[e].faiss
    BY <1>0, <1>11 DEF LoadFaiss, Move, TypeOK
  <2>2. /\ \A p \in Procs : p # s => job'[p] = job[p]
        /\ \A t \in Servers : t # s => half'[t] = half[t]
        /\ UNCHANGED <<built, files, mixed>>
    BY <1>0, <1>11 DEF LoadFaiss, Move, TypeOK
  <2>3. clash \subseteq clash' /\ (e \notin clash' => \A a \in Builders : ~Writing(a, e))
    BY <1>11 DEF LoadFaiss, Writing
  <2>4. ASSUME NEW d \in Dirs \ clash' PROVE OneBuild(d)'
    <3>1. \A a \in Builders : Writing(a, d)' <=> Writing(a, d)
      BY <2>1, <2>2 DEF Writing
    <3>2. \A t \in Servers : Loading(t, d)' <=> Loading(t, d) \/ (t = s /\ d = e)
      BY <2>1, <2>2 DEF Loading
    <3>3. OneBuild(d)
      BY <2>3, <2>4 DEF IndexInv
    <3>4. \A t \in Servers : Loading(t, d)' => half'[t] = files[d].faiss
      BY <2>1, <2>2, <3>2, <3>3 DEF OneBuild, Loading
    <3>5. \A a \in Builders, t \in Servers : ~(Writing(a, d) /\ Loading(t, d)')
      BY <2>3, <2>4, <3>2, <3>3 DEF OneBuild
    <3> QED
      BY <2>2, <3>1, <3>3, <3>4, <3>5 DEF OneBuild
  <2> QED
    BY <1>0, <2>1, <2>2, <2>3, <2>4 DEF IndexInv, StoreIsOneBuild, PastIndex
<1>12. ASSUME NEW s \in Servers, LoadPkl(s) PROVE IndexInv'
  <2> DEFINE e == DirOf[s]
  <2>1. e \in Dirs /\ job[s] = "loading" /\ job'[s] = "serving"
    BY <1>0, <1>12 DEF LoadPkl, Move, TypeOK
  <2>2. /\ \A p \in Procs : p # s => job'[p] = job[p]
        /\ \A t \in Servers : t # s => half'[t] = half[t]
        /\ UNCHANGED <<built, files, clash>>
    BY <1>0, <1>12 DEF LoadPkl, Move, TypeOK
  <2>3. ASSUME NEW d \in Dirs \ clash' PROVE OneBuild(d)'
    <3>1. \A a \in Builders : Writing(a, d)' <=> Writing(a, d)
      BY <2>1, <2>2 DEF Writing
    <3>2. \A t \in Servers : Loading(t, d)' <=> Loading(t, d) /\ t # s
      BY <2>1, <2>2 DEF Loading
    <3> QED
      BY <2>2, <2>3, <3>1, <3>2 DEF OneBuild, IndexInv
  <2>4. StoreIsOneBuild'
    <3>1. e \notin clash => files[e].pkl = half[s]
      <4> SUFFICES ASSUME e \notin clash PROVE files[e].pkl = half[s]
        OBVIOUS
      <4>1. OneBuild(e) /\ Loading(s, e)
        BY <2>1 DEF IndexInv, Loading
      <4> QED
        BY <4>1 DEF OneBuild
    <3> QED
      BY <1>12, <2>2, <3>1 DEF LoadPkl, StoreIsOneBuild, IndexInv
  <2> QED
    BY <1>0, <2>1, <2>2, <2>3, <2>4 DEF IndexInv, PastIndex
<1> QED
  BY <1>1, <1>2, <1>3, <1>4, <1>5, <1>6, <1>7, <1>8, <1>9, <1>10, <1>11, <1>12
     DEF Next, ContainerStep, BuilderStep, SchemaStep, IndexMissing, RunBuildIndex

THEOREM IndexInvariance == Spec => []IndexInv
<1>1. Init => IndexInv
  BY KindsAssumption, DirAssumption, BoundsAssumption
     DEF Init, IndexInv, TypeOK, Versions, Index, NoIndex, Procs, Builders, PastIndex,
         OneBuild, Writing, Loading, StoreIsOneBuild
<1> QED
  BY <1>1, IndexStepInv, PTL DEF Spec

(* A container that got past the index step has a complete index of one    *)
(* version, unless builds overlapped or were interrupted in its directory. *)
THEOREM ServiceHasIndex == Spec => []ContainerHasIndex
<1>1. IndexInv => ContainerHasIndex
  <2> SUFFICES ASSUME IndexInv, NEW c \in Containers, PastIndex(c), DirOf[c] \notin clash
               PROVE  /\ files[DirOf[c]].faiss # 0
                      /\ \/ files[DirOf[c]].pkl = files[DirOf[c]].faiss
                         \/ \E b \in Builders : job[b] = "writing" /\ DirOf[b] = DirOf[c]
    BY DEF ContainerHasIndex, PastIndex
  <2>1. OneBuild(DirOf[c])
    BY DirAssumption DEF IndexInv, Procs, Builders
  <2> QED
    BY <2>1 DEF IndexInv, OneBuild, Writing, Builders
<1> QED
  BY <1>1, IndexInvariance, PTL

(* No generation pairs vectors with the texts of another build, unless     *)
(* builds overlapped or were interrupted in its directory.                 *)
THEOREM LoadsAreConsistent == Spec => []StoreIsOneBuild
<1>1. IndexInv => StoreIsOneBuild
  BY DEF IndexInv
<1> QED
  BY <1>1, IndexInvariance, PTL
=============================================================================
