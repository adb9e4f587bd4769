-------------------------------- MODULE Startup --------------------------------
(***************************************************************************)
(* Start-up of the API (scripts/entrypoint.sh): a container builds the     *)
(* retrieval index unless its directory has files, upgrades the database   *)
(* with Alembic and hands over to uvicorn, whose workers run create_all    *)
(* (db/session.py create_tables) before they serve.  set -e ends the       *)
(* container at the first failure, and the platform starts it again.       *)
(* Servers are also started by hand, without the entrypoint, and the index *)
(* is rebuilt with scripts/build_index.py.  All of them share one database *)
(* and, on one machine, one index directory.                               *)
(*                                                                         *)
(* The index is two files, written and read one after the other.  A file   *)
(* is known by the version of the documents it was built from (0: there is *)
(* none); two builds of the same documents are interchangeable.            *)
(***************************************************************************)
EXTENDS Naturals

CONSTANTS
  Containers,  \* processes that run the entrypoint
  Scripts,     \* runs of scripts.build_index
  Servers,     \* uvicorn workers
  Parent,      \* the container of a worker; a worker started by hand is its own
  Dirs, DirOf, \* index directories, and the one each process uses
  Ephemeral,   \* containers whose directory dies with them (Cloud Run)
  Compose,     \* containers of docker-compose.yml: a read-only mount (line
               \* 39), and a database that refuses TLS (lines 6 and 32)
  MaxDocs,     \* bound: versions of the documents
  MaxFaults    \* bound: processes that die

Builders == Containers \cup Scripts
Procs == Builders \cup Servers

ASSUME KindsAssumption ==
  /\ Containers \cap Scripts = {} /\ Builders \cap Servers = {}
  /\ Parent \in [Servers -> Containers \cup Servers]
  /\ \A s \in Servers : Parent[s] \in Containers \cup {s}
  /\ Ephemeral \subseteq Containers /\ Compose \subseteq Containers

(* A container's workers see its directory; nobody else sees that of an    *)
(* ephemeral one.                                                          *)
ASSUME DirAssumption ==
  /\ DirOf \in [Procs -> Dirs]
  /\ \A s \in Servers : DirOf[s] = DirOf[Parent[s]]
  /\ \A c \in Ephemeral, p \in Procs :
       DirOf[p] = DirOf[c] => p = c \/ (p \in Servers /\ Parent[p] = c)

ASSUME BoundsAssumption == MaxDocs \in Nat \ {0} /\ MaxFaults \in Nat

VARIABLES
  job,     \* what a process does
  docs,    \* version of data/business_docs
  built,   \* version a running build has embedded
  files,   \* index.faiss and index.pkl of a directory
  half,    \* version of the index.faiss a load has read
  mixed,   \* workers that paired files of two builds in their last load
  schema,  \* committed: the application's "tables", Alembic's "version"
  clash,   \* history: directories with an overlapping or interrupted build
  faults   \* how many processes have died

vars == <<job, docs, built, files, half, mixed, schema, clash, faults>>

NoIndex == [faiss |-> 0, pkl |-> 0]
ByHand(s) == Parent[s] = s
Family(p) == {p} \cup {s \in Servers : Parent[s] = p}
Serves(s) == job[s] \in {"serving", "loading"}

Init ==
  /\ job = [p \in Procs |-> "down"]
  /\ docs = 1
  /\ built = [b \in Builders |-> 0]
  /\ files = [d \in Dirs |-> NoIndex]
  /\ half = [s \in Servers |-> 0]
  /\ mixed = {}
  /\ schema = {}
  /\ clash = {}
  /\ faults = 0

Move(p, from, to) == job[p] = from /\ job' = [job EXCEPT ![p] = to]

(* The processes ps are gone, with the files of an ephemeral container and *)
(* with their open transactions.                                           *)
GoDown(ps) ==
  /\ job' = [p \in Procs |-> IF p \in ps THEN "down" ELSE job[p]]
  /\ files' = [d \in Dirs |->
       IF \E c \in Ephemeral \cap ps : DirOf[c] = d THEN NoIndex ELSE files[d]]
  /\ built' = [b \in Builders |-> IF b \in ps THEN 0 ELSE built[b]]
  /\ half' = [s \in Servers |-> IF s \in ps THEN 0 ELSE half[s]]
  /\ mixed' = mixed \ ps

-----------------------------------------------------------------------------
(* The index *)

StartContainer(c) ==
  /\ Move(c, "down", "index")
  /\ UNCHANGED <<docs, built, files, half, mixed, schema, clash, faults>>

(* Mutant: the directory is looked for, not the files in it. *)
IndexAssumed(c) ==
  /\ Move(c, "index", "migrate")
  /\ UNCHANGED <<docs, built, files, half, mixed, schema, clash, faults>>

(* ls -A finds something: a build has begun to write at some time. *)
IndexFound(c) ==
  /\ files[DirOf[c]].faiss # 0
  /\ Move(c, "index", "migrate")
  /\ UNCHANGED <<docs, built, files, half, mixed, schema, clash, faults>>

Build(b, from) ==
  /\ Move(b, from, "building")
  /\ built' = [built EXCEPT ![b] = docs]
  /\ UNCHANGED <<docs, files, half, mixed, schema, clash, faults>>

IndexMissing(c) == files[DirOf[c]].faiss = 0 /\ Build(c, "index")

RunBuildIndex(b) == Build(b, "down")

(* A half-written index.faiss is taken for a written one: both are a       *)
(* non-empty directory without a matching index.pkl.                       *)
WriteFaiss(b) ==
  LET d == DirOf[b] IN
  /\ b \notin Compose
  /\ Move(b, "building", "writing")
  /\ files' = [files EXCEPT ![d].faiss = built[b]]
  /\ clash' = IF \/ \E a \in Builders : job[a] = "writing" /\ DirOf[a] = d
                 \/ \E s \in Servers : job[s] = "loading" /\ DirOf[s] = d
              THEN clash \cup {d} ELSE clash
  /\ UNCHANGED <<docs, built, half, mixed, schema, faults>>

(* Mutant: the texts are read again when they are written. *)
WritePklOfCurrentDocs(b) ==
  /\ Move(b, "writing", IF b \in Containers THEN "migrate" ELSE "down")
  /\ files' = [files EXCEPT ![DirOf[b]].pkl = docs]
  /\ built' = [built EXCEPT ![b] = 0]
  /\ UNCHANGED <<docs, half, mixed, schema, clash, faults>>

WritePkl(b) ==
  /\ Move(b, "writing", IF b \in Containers THEN "migrate" ELSE "down")
  /\ files' = [files EXCEPT ![DirOf[b]].pkl = built[b]]
  /\ built' = [built EXCEPT ![b] = 0]
  /\ UNCHANGED <<docs, half, mixed, schema, clash, faults>>

(* mkdir or the first write raises OSError; set -e ends the container. *)
WriteRefused(c) ==
  /\ c \in Compose /\ job[c] = "building"
  /\ GoDown(Family(c))
  /\ UNCHANGED <<docs, schema, clash, faults>>

EditDocs ==
  /\ docs < MaxDocs
  /\ docs' = docs + 1
  /\ UNCHANGED <<job, built, files, half, mixed, schema, clash, faults>>

-----------------------------------------------------------------------------
(* The schema.  DDL is transactional; a CREATE TABLE waits for another     *)
(* transaction that creates the same name, and fails once that has         *)
(* committed.                                                              *)

Wanted(p) == IF p \in Containers THEN {"tables", "version"} ELSE {"tables"}

(* Mutant: alembic_version is not consulted. *)
CheckVersionAlways(c) ==
  /\ c \notin Compose
  /\ Move(c, "migrate", "checked")
  /\ UNCHANGED <<docs, built, files, half, mixed, schema, clash, faults>>

(* alembic upgrade head: nothing to do at head. *)
CheckVersion(c) ==
  /\ c \notin Compose
  /\ Move(c, "migrate", IF "version" \in schema THEN "uvicorn" ELSE "checked")
  /\ UNCHANGED <<docs, built, files, half, mixed, schema, clash, faults>>

(* env.py asks for TLS wherever the host is not localhost, and so of the   *)
(* host "postgres", whose image has none: connect() raises at every start. *)
ConnectRefused(c) ==
  /\ c \in Compose /\ job[c] = "migrate"
  /\ GoDown(Family(c))
  /\ UNCHANGED <<docs, schema, clash, faults>>

(* The lifespan of a worker: create_all looks which tables are missing. *)
StartServer(s) ==
  /\ ByHand(s) \/ job[Parent[s]] = "uvicorn"
  /\ Move(s, "down", IF "tables" \in schema THEN "serving" ELSE "checked")
  /\ UNCHANGED <<docs, built, files, half, mixed, schema, clash, faults>>

NoOpenDDL == \A p \in Procs : job[p] # "ddl"

(* Mutant: CREATE TABLE IF NOT EXISTS. *)
CreateIfNotExists(p) ==
  /\ NoOpenDDL
  /\ Move(p, "checked", "ddl")
  /\ UNCHANGED <<docs, built, files, half, mixed, schema, clash, faults>>

CreateTables(p) ==
  /\ NoOpenDDL /\ Wanted(p) \cap schema = {}
  /\ Move(p, "checked", "ddl")
  /\ UNCHANGED <<docs, built, files, half, mixed, schema, clash, faults>>

(* Mutant: without set -e the script goes on. *)
CreateFailsUnnoticed(p) ==
  /\ NoOpenDDL /\ Wanted(p) \cap schema # {}
  /\ Move(p, "checked", IF p \in Containers THEN "uvicorn" ELSE "down")
  /\ UNCHANGED <<docs, built, files, half, mixed, schema, clash, faults>>

CreateFails(p) ==
  /\ NoOpenDDL /\ Wanted(p) \cap schema # {}
  /\ job[p] = "checked"
  /\ GoDown(Family(p))
  /\ UNCHANGED <<docs, schema, clash, faults>>

CommitDDL(p) ==
  /\ Move(p, "ddl", IF p \in Containers THEN "uvicorn" ELSE "serving")
  /\ schema' = schema \cup Wanted(p)
  /\ UNCHANGED <<docs, built, files, half, mixed, clash, faults>>

-----------------------------------------------------------------------------
(* A generation loads the index: NarrativeChain._get_store. *)

LoadFaiss(s) ==
  LET d == DirOf[s] IN
  /\ files[d].faiss # 0
  /\ Move(s, "serving", "loading")
  /\ half' = [half EXCEPT ![s] = files[d].faiss]
  /\ clash' = IF \E b \in Builders : job[b] = "writing" /\ DirOf[b] = d
              THEN clash \cup {d} ELSE clash
  /\ UNCHANGED <<docs, built, files, mixed, schema, faults>>

(* Without an index.pkl the load raises, as it does without index.faiss,   *)
(* and the request fails.                                                  *)
LoadPkl(s) ==
  LET pkl == files[DirOf[s]].pkl IN
  /\ Move(s, "loading", "serving")
  /\ half' = [half EXCEPT ![s] = 0]
  /\ mixed' = IF pkl \in {0, half[s]} THEN mixed \ {s} ELSE mixed \cup {s}
  /\ UNCHANGED <<docs, built, files, schema, clash, faults>>

(* A process dies: killed, out of memory, no documents, no embeddings, a   *)
(* database that does not answer, or stopped by its user.                  *)
Crash(p) ==
  /\ faults < MaxFaults /\ faults' = faults + 1
  /\ job[p] # "down"
  /\ GoDown(Family(p))
  /\ clash' = IF job[p] = "writing" /\ p \notin Ephemeral
              THEN clash \cup {DirOf[p]} ELSE clash
  /\ UNCHANGED <<docs, schema>>

(* What a running process does without being asked. *)
BuilderStep(b) == WriteFaiss(b) \/ WritePkl(b)

ContainerStep(c) ==
  \/ StartContainer(c)
  \/ IndexFound(c)
  \/ IndexMissing(c)
  \/ WriteRefused(c)
  \/ CheckVersion(c)
  \/ ConnectRefused(c)

SchemaStep(p) == CreateTables(p) \/ CreateFails(p) \/ CommitDDL(p)

Next ==
  \/ \E c \in Containers : ContainerStep(c)
  \/ \E b \in Builders : BuilderStep(b)
  \/ \E b \in Scripts : RunBuildIndex(b)
  \/ \E s \in Servers : StartServer(s) \/ LoadFaiss(s) \/ LoadPkl(s)
  \/ \E p \in Containers \cup Servers : SchemaStep(p)
  \/ \E p \in Procs : Crash(p)
  \/ EditDocs

Spec == Init /\ [][Next]_vars

(* The platform starts a container again and its script does not stand     *)
(* still; a transaction that can create its tables or commit does.  Nobody *)
(* has to build an index, to start a server by hand or to ask for a        *)
(* summary.                                                                *)
FairSpec ==
  /\ Spec
  /\ \A c \in Containers : WF_vars(ContainerStep(c))
  /\ \A b \in Builders : WF_vars(BuilderStep(b))
  /\ \A p \in Containers \cup Servers : WF_vars(SchemaStep(p))

-----------------------------------------------------------------------------
Versions == 0 .. MaxDocs
Index == [faiss : Versions, pkl : Versions]

TypeOK ==
  /\ job \in [Procs -> {"down", "index", "building", "writing", "migrate", "checked",
                        "ddl", "uvicorn", "serving", "loading"}]
  /\ \A c \in Containers : job[c] \notin {"serving", "loading"}
  /\ \A b \in Scripts : job[b] \in {"down", "building", "writing"}
  /\ \A s \in Servers : job[s] \in {"down", "checked", "ddl", "serving", "loading"}
  /\ docs \in 1 .. MaxDocs
  /\ built \in [Builders -> Versions]
  /\ files \in [Dirs -> Index]
  /\ half \in [Servers -> Versions]
  /\ mixed \subseteq Servers
  /\ schema \in {{}, {"tables"}, {"tables", "version"}}
  /\ clash \subseteq Dirs
  /\ faults \in 0 .. MaxFaults

(* Nothing serves before the database has what it queries, and a container *)
(* only on a schema Alembic knows ("any failure aborts startup",           *)
(* scripts/entrypoint.sh:9), whoever else creates tables at that moment.   *)
SchemaBeforeService ==
  /\ \A s \in Servers : Serves(s) => "tables" \in schema
  /\ \A c \in Containers : job[c] = "uvicorn" => "version" \in schema

(* A container that serves has a complete index of one version of the      *)
(* documents, built by itself or found; except in a directory where builds *)
(* overlapped or were interrupted, where the files that were found may be  *)
(* anything, and while somebody rebuilds it.                               *)
ContainerHasIndex ==
  \A c \in Containers :
    job[c] \in {"migrate", "checked", "ddl", "uvicorn"} /\ DirOf[c] \notin clash =>
      LET d == DirOf[c] IN
      /\ files[d].faiss # 0
      /\ \/ files[d].pkl = files[d].faiss
         \/ \E b \in Builders : job[b] = "writing" /\ DirOf[b] = d

(* Vectors are only ever paired with the texts they were made from, unless *)
(* a build overlapped with another or with the load, or was interrupted.   *)
StoreIsOneBuild ==
  \A s \in mixed : DirOf[s] \in clash

(* Tables made by create_all before the first migration leave a schema     *)
(* without a version, and no container, however often it is started, ever  *)
(* gets past that ("idempotent - safe to run every startup",               *)
(* scripts/entrypoint.sh:6).                                               *)
UnstampedForever == [][schema = {"tables"} => schema' = {"tables"}]_vars

(* Containers that start together, fail and start again all come to serve, *)
(* unless somebody created the tables without Alembic; but the container   *)
(* of docker-compose.yml, with an index and a schema or without, goes down *)
(* again after every start.                                                *)
EveryContainerServes ==
  \A c \in Containers :
    \/ c \notin Compose /\ <>[](job[c] = "uvicorn")
    \/ c \notin Compose /\ <>[](schema = {"tables"})
    \/ c \in Compose /\ []<>(job[c] = "down")
=============================================================================
