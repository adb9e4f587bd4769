------------------------ MODULE PipelineService_proofs ------------------------
(***************************************************************************)
(* What the pipeline, the audit of its runs and the two together promise,  *)
(* for any orchestrators, scripts, generations and products, any runs and  *)
(* processes, any number of attempts and of lost jobs.                     *)
(***************************************************************************)
EXTENDS PipelineService, TLAPS

-----------------------------------------------------------------------------
(* THE PIPELINE                                                            *)


(* Only a caller at a statement waits, and only for its own job.           *)
Waiting ==
  \A w \in Callers :
    /\ sent[w] => stage[w] \in Statements
    /\ job[w] # 0 => sent[w]

(* Every step keeps the types: what a statement reads is a version, and    *)
(* the stage after a statement a stage.                                    *)
LEMMA TypeStep == TypeOK /\ Waiting /\ [Next]_vars => TypeOK'
<1> SUFFICES ASSUME TypeOK, Waiting, [Next]_vars PROVE TypeOK'
  OBVIOUS
<1> USE KindsAssumption, BoundsAssumption
<1> USE DEF TypeOK, Versions, Callers, Writers, Statements, Ended
<1>1. CASE NewSales
  BY <1>1 DEF NewSales, calls, loops, history
<1>2. ASSUME NEW w \in Callers, NEW k \in Statements, NEW all \in BOOLEAN,
             w \in Scripts => k # "etl", Start(w, k, all)
      PROVE  TypeOK'
  BY <1>2 DEF Start, loops
<1>3. ASSUME NEW w \in Orchestrators, StartRun(w) PROVE TypeOK'
  <2>1. "etl" \in Statements /\ w \in Callers /\ w \notin Scripts
    OBVIOUS
  <2> QED BY <1>2, <1>3, <2>1 DEF StartRun
<1>4. ASSUME NEW w \in Scripts, StartScript(w) PROVE TypeOK'
  <2>0. w \in Callers
    OBVIOUS
  <2>1. CASE Start(w, "view", TRUE)
    <3>1. "view" \in Statements /\ "view" # "etl" /\ TRUE \in BOOLEAN
      OBVIOUS
    <3> QED BY <1>2, <2>0, <2>1, <3>1
  <2>2. ASSUME NEW k \in Statements \ {"etl"}, Start(w, k, FALSE) PROVE TypeOK'
    <3>1. k \in Statements /\ k # "etl" /\ FALSE \in BOOLEAN
      OBVIOUS
    <3> QED BY <1>2, <2>0, <2>2, <3>1
  <2> QED BY <1>4, <2>1, <2>2 DEF StartScript
<1>5. ASSUME NEW w \in Callers, Submit(w) PROVE TypeOK'
  <2>1. Input(stage[w]) \in Versions
    BY <1>5 DEF Submit, Input
  <2>2. origin' \in [Orchestrators -> Versions]
    BY <1>5 DEF Submit
  <2> QED BY <1>5, <2>1, <2>2 DEF Submit, loops
<1>6. ASSUME NEW w \in Callers, Answered(w) PROVE TypeOK'
  <2>1. stage[w] \in Statements
    BY <1>6 DEF Answered, Waiting
  <2>2. /\ After(w) \in Statements \cup {"sync", "done"}
        /\ After(w) # "etl"
        /\ w \in Scripts => After(w) # "sync"
    BY <2>1 DEF After, NextStage
  <2>3. stage' \in [Callers -> Statements \cup {"sync", "narratives"} \cup Ended]
    BY <1>6, <2>2 DEF Answered
  <2>4. \A v \in Scripts : stage'[v] \in (Statements \ {"etl"}) \cup Ended
    BY <1>6, <2>2 DEF Answered
  <2>5. todo' \in [Orchestrators -> SUBSET Products]
    BY <1>6 DEF Answered
  <2>6. tries' \in [Callers -> 0 .. Attempts - 1]
    BY <1>6 DEF Answered
  <2> QED BY <1>6, <2>3, <2>4, <2>5, <2>6 DEF Answered, history
<1>7. ASSUME NEW w \in Callers, Turn(w), stage[w] \notin Ended
      PROVE  /\ lost' \subseteq [kind : Statements \ {"evaluate"}, input : 1 .. MaxRaw]
             /\ job' \in [Callers -> Versions]
             /\ sent' \in [Callers -> BOOLEAN]
  <2>1. Own(w) \subseteq [kind : Statements \ {"evaluate"}, input : 1 .. MaxRaw]
    BY DEF Own, Waiting
  <2> QED BY <1>7, <2>1 DEF Turn
<1>8. ASSUME NEW w \in Callers, StatementRaises(w) PROVE TypeOK'
  <2>1. Turn(w) /\ stage[w] \notin Ended
    BY <1>8 DEF StatementRaises
  <2>2. tries' \in [Callers -> 0 .. Attempts - 1]
    BY <1>8 DEF StatementRaises, Limit
  <2> QED BY <1>7, <1>8, <2>1, <2>2 DEF StatementRaises, loops, history
<1>9. ASSUME NEW w \in Callers, Crash(w) PROVE TypeOK'
  <2>1. Turn(w) /\ stage[w] \notin Ended
    BY <1>9 DEF Crash
  <2>2. /\ todo' \in [Orchestrators -> SUBSET Products]
        /\ item' \in [Writers -> Products \cup {None}]
        /\ rows' \in [Writers -> Versions]
    BY <1>9 DEF Crash
  <2> QED BY <1>7, <1>9, <2>1, <2>2 DEF Crash
<1>10. ASSUME NEW k \in Statements, NEW i \in Versions, Write(k, i)
       PROVE  {sales', model', table'} \subseteq Versions /\ view' \in BOOLEAN
  BY <1>10 DEF Write
<1>11. ASSUME NEW w \in Callers, JobEnds(w) PROVE TypeOK'
  <2>1. stage[w] \in Statements /\ job[w] \in Versions
    BY <1>11 DEF JobEnds, Waiting
  <2>2. {sales', model', table'} \subseteq Versions /\ view' \in BOOLEAN
    BY <1>10, <1>11, <2>1 DEF JobEnds
  <2> QED BY <1>11, <2>2 DEF JobEnds, calls, loops, history
<1>12. CASE LostJobEnds
  <2> PICK j \in lost :
         /\ Write(j.kind, j.input) \/ UNCHANGED <<sales, view, model, table>>
         /\ lost' = lost \ {j}
         /\ UNCHANGED <<raw, job, calls, loops, forecasts, summaries, history>>
    BY <1>12 DEF LostJobEnds
  <2>1. j.kind \in Statements /\ j.input \in Versions
    OBVIOUS
  <2>2. {sales', model', table'} \subseteq Versions /\ view' \in BOOLEAN
    BY <1>10, <2>1
  <2> QED BY <2>2 DEF calls, loops, history
<1>13. ASSUME NEW w \in Orchestrators, SyncStep(w) PROVE TypeOK'
  <2>1. ASSUME NEW p \in Products, FetchForecasts(w, p) PROVE TypeOK'
    BY <2>1 DEF FetchForecasts, calls, history
  <2>2. CASE ReplaceForecasts(w)
    <3>1. forecasts' \in [Products -> Versions]
      BY <2>2 DEF ReplaceForecasts
    <3> QED BY <2>2, <3>1 DEF ReplaceForecasts, Leave, calls
  <2>3. CASE SyncRaises(w)
    BY <2>3 DEF SyncRaises, history
  <2>4. CASE LoopEnds(w)
    BY <2>4 DEF LoopEnds, history
  <2> QED BY <1>13, <2>1, <2>2, <2>3, <2>4 DEF SyncStep
<1>14. ASSUME NEW w \in Writers, NarrativeStep(w) PROVE TypeOK'
  <2>1. ASSUME NEW p \in Products, ReadForecast(w, p) PROVE TypeOK'
    BY <2>1 DEF ReadForecast, calls, history
  <2>2. CASE SaveNarrative(w)
    <3>1. summaries' \in [Products -> Versions]
      BY <2>2 DEF SaveNarrative, Describes
    <3>2. overtaken' \subseteq Writers
      BY <2>2 DEF SaveNarrative
    <3> QED BY <2>2, <3>1, <3>2 DEF SaveNarrative, calls
  <2>3. CASE NarrativeRaises(w)
    BY <2>3 DEF NarrativeRaises, Leave, calls
  <2> QED BY <1>14, <2>1, <2>2, <2>3 DEF NarrativeStep
<1>15. CASE UNCHANGED vars
  BY <1>15 DEF vars, calls, loops, history
<1> QED
  BY <1>1, <1>3, <1>4, <1>5, <1>6, <1>8, <1>9, <1>11, <1>12, <1>13, <1>14, <1>15
  DEF Next, StatementStep

(* A caller leaves a statement only with its answer or by turning away.   *)
LEMMA WaitingStep == TypeOK /\ Waiting /\ [Next]_vars => Waiting'
<1> SUFFICES ASSUME TypeOK, Waiting, [Next]_vars PROVE Waiting'
  OBVIOUS
<1> USE DEF TypeOK, Waiting, Callers, Statements, Ended
<1>1. ASSUME NEW w \in Callers, NEW k \in Statements, NEW all, Start(w, k, all)
      PROVE  Waiting'
  BY <1>1 DEF Start
<1>2. ASSUME NEW w \in Orchestrators, StartRun(w) PROVE Waiting'
  <2>1. "etl" \in Statements /\ w \in Callers
    OBVIOUS
  <2> QED BY <1>1, <1>2, <2>1 DEF StartRun
<1>3. ASSUME NEW w \in Scripts, StartScript(w) PROVE Waiting'
  <2>1. w \in Callers /\ "view" \in Statements
    OBVIOUS
  <2>2. ASSUME NEW k \in Statements \ {"etl"}, Start(w, k, FALSE) PROVE Waiting'
    <3>1. k \in Statements
      OBVIOUS
    <3> QED BY <1>1, <2>1, <2>2, <3>1
  <2> QED BY <1>1, <1>3, <2>1, <2>2 DEF StartScript
<1>4. ASSUME NEW w \in Callers, StatementStep(w) \/ Crash(w) PROVE Waiting'
  <2>1. CASE Submit(w)
    BY <2>1 DEF Submit
  <2>2. CASE Answered(w)
    BY <2>2 DEF Answered
  <2>3. CASE StatementRaises(w)
    BY <2>3 DEF StatementRaises, Turn
  <2>4. CASE Crash(w)
    BY <2>4 DEF Crash, Turn
  <2> QED BY <1>4, <2>1, <2>2, <2>3, <2>4 DEF StatementStep
<1>5. ASSUME NEW w \in Callers, JobEnds(w) PROVE Waiting'
  BY <1>5 DEF JobEnds, calls
<1>6. CASE NewSales \/ LostJobEnds \/ UNCHANGED vars
  BY <1>6 DEF NewSales, LostJobEnds, vars, calls
<1>7. ASSUME NEW w \in Orchestrators, SyncStep(w) PROVE Waiting'
  BY <1>7 DEF SyncStep, FetchForecasts, ReplaceForecasts, SyncRaises, LoopEnds, calls
<1>8. ASSUME NEW w \in Writers, NarrativeStep(w) PROVE Waiting'
  BY <1>8 DEF NarrativeStep, ReadForecast, SaveNarrative, NarrativeRaises, calls
<1> QED
  BY <1>2, <1>3, <1>4, <1>5, <1>6, <1>7, <1>8 DEF Next

(* What Init establishes. *)
LEMMA InitTypes == Init => TypeOK /\ Waiting
<1> SUFFICES ASSUME Init PROVE TypeOK /\ Waiting
  OBVIOUS
<1> USE BoundsAssumption DEF Init, Versions
<1>1. \A w \in Callers : job[w] = 0 /\ ~sent[w] /\ stage[w] = "done"
  OBVIOUS
<1>2. /\ raw \in 1 .. MaxRaw
      /\ {sales, model, table} \subseteq Versions
  OBVIOUS
<1>3. /\ job \in [Callers -> Versions] /\ tries \in [Callers -> 0 .. Attempts - 1]
      /\ whole \in [Callers -> BOOLEAN] /\ sent \in [Callers -> BOOLEAN]
      /\ stage \in [Callers -> Statements \cup {"sync", "narratives"} \cup Ended]
  BY DEF Ended
<1>4. /\ todo \in [Orchestrators -> SUBSET Products]
      /\ item \in [Writers -> Products \cup {None}] /\ rows \in [Writers -> Versions]
      /\ forecasts \in [Products -> Versions] /\ summaries \in [Products -> Versions]
      /\ origin \in [Orchestrators -> Versions]
  OBVIOUS
<1>5. /\ lost \subseteq [kind : Statements \ {"evaluate"}, input : 1 .. MaxRaw]
      /\ alone \subseteq Callers /\ overtaken \subseteq Writers
  OBVIOUS
<1>6. \A w \in Scripts : stage[w] \in (Statements \ {"etl"}) \cup Ended
  BY <1>1 DEF Callers, Ended
<1>7. view \in BOOLEAN /\ mixed \in BOOLEAN
  <2> view = FALSE /\ mixed = FALSE
    OBVIOUS
  <2> QED BY Zenon
<1> HIDE DEF Init
<1> QED
  BY <1>1, <1>2, <1>3, <1>4, <1>5, <1>6, <1>7 DEF TypeOK, Waiting

(* The types, for every value of the constants: in particular no caller    *)
(* has failed Attempts times and tries on, and only objects that exist are *)
(* read by a job.                                                          *)
THEOREM TypeCorrect == Spec => [](TypeOK /\ Waiting)
<1>1. TypeOK /\ Waiting /\ [Next]_vars => TypeOK' /\ Waiting'
  BY TypeStep, WaitingStep
<1> QED
  BY <1>1, InitTypes, PTL DEF Spec

-----------------------------------------------------------------------------
(* A run that nobody has joined                                            *)

Late == {"forecast", "evaluate", "sync", "narratives"}

(* The statements whose lost jobs may go on while a caller is at a stage.  *)
(* The ETL is missing: it is not repeated, so losing it ends the run.      *)
Behind(s) ==
  CASE s = "etl" -> {}
    [] s = "view" -> {"view"}
    [] s = "train" -> {"view", "train"}
    [] s \in Late -> {"view", "train", "forecast"}

(* A job that goes on has read what its input still is.                    *)
Current(kind, input) ==
  /\ kind = "train" => input = sales
  /\ kind = "forecast" => input = model

(* Jobs of one run, whoever waits for them, do not disturb each other: the *)
(* ETL stands alone, and a late training writes the model that is there    *)
(* once anything has been made from it.                                    *)
InOrder ==
  /\ \A w \in Busy, j \in lost : j.kind \in Behind(stage[w])
  /\ \A j \in lost : j.kind = "etl" => lost = {j}
  /\ \A w \in Busy : job[w] # 0 => Current(stage[w], job[w])
  /\ \A j \in lost : Current(j.kind, j.input)
  /\ \A w \in Busy : stage[w] = "train" /\ sent[w] /\ job[w] = 0 => model = sales
  /\ (\E j \in lost : j.kind = "train")
       /\ ((\E j \in lost : j.kind = "forecast") \/ (\E w \in Busy : stage[w] \in Late))
     => model = sales

Alone ==
  /\ \A v, w \in alone : v = w
  /\ alone # {} => Busy \subseteq alone /\ InOrder
  /\ ~mixed => alone # {} \/ (Busy = {} /\ lost = {})

(* What such a run has made so far, when it is an orchestrator's.          *)
Made(w) ==
  /\ stage[w] = "etl" /\ sent[w] =>
       IF job[w] = 0 THEN sales = origin[w] ELSE job[w] = origin[w]
  /\ stage[w] \in Late \cup {"view", "train"} => sales = origin[w]
  /\ stage[w] \in Late => model = sales
  /\ \/ stage[w] \in Late \ {"forecast"}
     \/ stage[w] = "forecast" /\ sent[w] /\ job[w] = 0
     => table = model
  /\ stage[w] = "sync" =>
       /\ \A p \in Products \ todo[w] : forecasts[p] = table
       /\ item[w] # None => rows[w] = table
  /\ stage[w] = "narratives" => \A p \in Products : forecasts[p] = table

Fresh == \A w \in Orchestrators \cap alone : Made(w)

(* An orchestrator is at a product only in a loop.                         *)
Looping ==
  \A w \in Orchestrators : item[w] # None => stage[w] \in {"sync", "narratives"}

(* The versions of a history without overlap: of what there is, of a       *)
(* pending ETL, of the rows the copy holds, and of those a generation      *)
(* describes, which are old only if it has been overtaken.                 *)
Levels ==
  /\ raw >= sales /\ sales >= model /\ model >= table
  /\ \A p \in Products : table >= forecasts[p] /\ forecasts[p] >= summaries[p]

Cleaning ==
  /\ \A w \in Busy : stage[w] = "etl" /\ job[w] # 0 => sales <= job[w] /\ job[w] <= raw
  /\ \A j \in lost : j.kind = "etl" => sales <= j.input /\ j.input <= raw

Copying ==
  \A w \in Orchestrators : stage[w] = "sync" /\ item[w] # None =>
    forecasts[item[w]] <= rows[w] /\ rows[w] <= table

Describing ==
  \A w \in Writers : Describes(w) =>
    /\ rows[w] <= forecasts[item[w]]
    /\ w \notin overtaken => summaries[item[w]] <= rows[w]

Chain == ~mixed => Levels /\ Cleaning /\ Copying /\ Describing

(* Behind, value by value. *)
LEMMA BehindValues ==
  /\ Behind("etl") = {} /\ Behind("view") = {"view"}
  /\ Behind("train") = {"view", "train"}
  /\ \A s \in Late : Behind(s) = {"view", "train", "forecast"}
BY DEF Behind, Late

(* A caller that is at work in a run without company works by itself.      *)
LEMMA ByItself ==
  ASSUME Alone, alone # {}, NEW w \in Busy
  PROVE  InOrder /\ Busy = {w} /\ alone = {w}
BY DEF Alone

(* What a step of a caller that is at work has to show for Alone.          *)
LEMMA AtWork ==
  ASSUME Alone, Busy # {} \/ lost # {}, alone' = alone, mixed' = mixed,
         alone # {} => Busy' \subseteq Busy /\ InOrder'
  PROVE  Alone'
BY DEF Alone

(* Turning away from a job leaves it behind in its place.                  *)
LEMMA TurnInOrder ==
  ASSUME TypeOK, Waiting, InOrder, NEW w \in Busy, Busy = {w}, Turn(w),
         sales' = sales, model' = model,
         \/ stage' = stage /\ stage[w] # "etl"
         \/ stage' = [stage EXCEPT ![w] = "failed"]
  PROVE  Busy' \subseteq Busy /\ InOrder'
<1>1. w \in Callers /\ stage[w] \notin Ended /\ stage[w] \in Late \cup Statements
  BY DEF Busy, TypeOK, Late, Statements
<1>2. Busy' = (IF stage'[w] \in Ended THEN {} ELSE {w})
  BY <1>1 DEF Busy, TypeOK
<1>3. lost' \subseteq lost \cup Own(w) /\ job'[w] = 0 /\ ~sent'[w]
  BY <1>1 DEF Turn, TypeOK
<1>4. \A j \in Own(w) :
        /\ j.kind = stage[w] /\ j.input = job[w]
        /\ job[w] # 0 /\ stage[w] \in Statements \ {"evaluate"}
  BY <1>1 DEF Own, Waiting
<1>5. \A j \in lost : j.kind \in Behind(stage[w])
  BY DEF InOrder
<1>6. CASE stage[w] = "etl"
  <2>1. lost = {} /\ Busy' = {}
    BY <1>2, <1>5, <1>6, BehindValues, <1>1 DEF TypeOK, Ended
  <2>2. \A j \in lost' : lost' = {j} /\ j.kind = "etl"
    BY <1>3, <1>4, <1>6, <2>1 DEF Own
  <2> QED BY <2>1, <2>2 DEF InOrder, Current
<1>7. CASE stage[w] # "etl"
  <2>1. \A j \in lost' : j.kind \in Behind(stage[w]) /\ j.kind # "etl"
    BY <1>1, <1>3, <1>4, <1>5, <1>7, BehindValues DEF Late, Statements
  <2>2. \A j \in lost' : Current(j.kind, j.input)'
    BY <1>3, <1>4 DEF InOrder, Current
  <2>3. \A v \in Busy' : v = w /\ stage'[v] = stage[w]
    BY <1>1, <1>2 DEF TypeOK, Ended
  <2>4. (\E j \in lost' : j.kind = "train")
          /\ ((\E j \in lost' : j.kind = "forecast") \/ (\E v \in Busy' : stage'[v] \in Late))
        => model' = sales'
    <3>1. CASE stage[w] \in Late
      BY <1>3, <1>4, <3>1 DEF InOrder, Late
    <3>2. CASE stage[w] \notin Late
      BY <1>1, <2>1, <2>3, <3>2, BehindValues DEF Statements, Late
    <3> QED BY <3>1, <3>2
  <2>5. InOrder'
    <3>1. \A v \in Busy', j \in lost' : j.kind \in Behind(stage'[v])
      BY <2>1, <2>3
    <3>2. \A v \in Busy' : job'[v] = 0 /\ ~sent'[v]
      BY <1>3, <2>3
    <3>3. \A j \in lost' : j.kind # "etl"
      BY <2>1
    <3> QED BY <2>2, <2>4, <3>1, <3>2, <3>3 DEF InOrder
  <2> QED BY <1>2, <2>5
<1> QED BY <1>6, <1>7

(* Starting alone sets the history anew; starting in company ends it.      *)
LEMMA StartAlone ==
  ASSUME TypeOK, Waiting, Alone, NEW w \in Callers, NEW k \in Statements, NEW all,
         Start(w, k, all)
  PROVE  Alone'
<1>1. CASE Busy = {} /\ lost = {}
  <2>1. alone' = {w} /\ lost' = {}
    BY <1>1 DEF Start
  <2>2. Busy' = {w} /\ stage'[w] = k
    BY <1>1 DEF Start, Busy, TypeOK, Statements, Ended
  <2>3. job'[w] = 0 /\ ~sent'[w]
    BY DEF Start, Waiting, Statements, Ended
  <2> QED BY <2>1, <2>2, <2>3 DEF Alone, InOrder
<1>2. CASE ~(Busy = {} /\ lost = {})
  BY <1>2 DEF Start, Alone
<1> QED BY <1>1, <1>2

(* Jobs that end, of a caller or of nobody.                                *)
LEMMA JobAlone ==
  ASSUME TypeOK, Waiting, Alone, NEW w \in Callers, JobEnds(w)
  PROVE  Alone'
<1>1. w \in Busy /\ stage[w] \in Statements /\ sent[w] /\ job[w] # 0
  BY DEF JobEnds, Waiting, Busy, Statements, Ended
<1>2. /\ Busy' = Busy /\ lost' = lost /\ stage' = stage /\ sent' = sent
      /\ alone' = alone /\ mixed' = mixed /\ job' = [job EXCEPT ![w] = 0]
  BY DEF JobEnds, calls, history, Busy
<1>3. ASSUME alone # {} PROVE InOrder'
  <2>1. InOrder /\ Busy = {w}
    BY <1>1, <1>3, ByItself
  <2>2. \A j \in lost : j.kind \in Behind(stage[w])
    BY <1>1, <2>1 DEF InOrder
  <2>3. job'[w] = 0
    BY <1>2 DEF TypeOK
  <2>4. CASE stage[w] = "etl"
    BY <1>2, <2>1, <2>2, <2>3, <2>4, BehindValues DEF InOrder, Late
  <2>5. CASE stage[w] = "train"
    <3>1. sales' = sales /\ model' = sales
      BY <1>1, <2>1, <2>5 DEF JobEnds, Write, InOrder, Current
    <3>2. \A j \in lost : j.kind \in {"view", "train"}
      BY <2>2, <2>5, BehindValues
    <3> QED BY <1>2, <2>1, <2>2, <2>3, <2>5, <3>1, <3>2 DEF InOrder, Current
  <2>6. CASE stage[w] \notin {"etl", "train"}
    <3>1. sales' = sales /\ model' = model
      BY <2>6 DEF JobEnds, Write
    <3> QED BY <1>2, <2>1, <2>2, <2>3, <2>6, <3>1 DEF InOrder, Current
  <2> QED BY <2>4, <2>5, <2>6
<1> QED BY <1>1, <1>2, <1>3, AtWork

(* A lost job writes what is there already, or nobody is at work. *)
LEMMA LostJobAlone ==
  ASSUME TypeOK, Waiting, Alone, LostJobEnds
  PROVE  Alone'
<1> PICK j \in lost :
       /\ Write(j.kind, j.input) \/ UNCHANGED <<sales, view, model, table>>
       /\ lost' = lost \ {j}
       /\ UNCHANGED <<raw, job, calls, loops, forecasts, summaries, history>>
  BY DEF LostJobEnds
<1>1. /\ Busy' = Busy /\ stage' = stage /\ sent' = sent /\ job' = job
      /\ alone' = alone /\ mixed' = mixed
  BY DEF calls, history, Busy
<1>2. ASSUME alone # {} PROVE InOrder'
  <2>1. InOrder
    BY <1>2 DEF Alone
  <2>2. CASE sales' = sales /\ model' = model
    BY <1>1, <2>1, <2>2 DEF InOrder, Current
  <2>3. CASE j.kind = "etl"
    <3>1. lost' = {}
      BY <2>1, <2>3 DEF InOrder
    <3>2. Busy = {}
      <4> SUFFICES ASSUME NEW w \in Busy PROVE FALSE
        OBVIOUS
      <4>1. stage[w] \in {"etl", "view", "train"} \cup Late /\ "etl" \in Behind(stage[w])
        BY <2>1, <2>3 DEF InOrder, Busy, TypeOK, Statements, Ended, Late
      <4> QED BY <4>1, BehindValues
    <3> QED BY <1>1, <3>1, <3>2 DEF InOrder
  <2>4. CASE j.kind = "train" /\ Write(j.kind, j.input)
    <3>1. sales' = sales /\ model' = sales
      BY <2>1, <2>4 DEF Write, InOrder, Current
    <3>2. \A i \in lost' : Current(i.kind, i.input)'
      BY <2>1, <2>4, <3>1 DEF InOrder, Current
    <3>3. \A w \in Busy : job[w] # 0 => Current(stage[w], job[w])'
      BY <1>1, <2>1, <2>4, <3>1 DEF InOrder, Current, Late
    <3> QED BY <1>1, <2>1, <3>1, <3>2, <3>3 DEF InOrder, Current
  <2>5. CASE j.kind \notin {"etl", "train"}
    BY <2>2, <2>5 DEF Write
  <2> QED BY <2>2, <2>3, <2>4, <2>5
<1> QED BY <1>1, <1>2, AtWork

(* Statements and loops. *)
LEMMA StatementAlone ==
  ASSUME TypeOK, Waiting, Alone, NEW w \in Callers, StatementStep(w) \/ Crash(w)
  PROVE  Alone'
<1>1. w \in Busy
  BY DEF StatementStep, Submit, Answered, StatementRaises, Crash, Waiting, Busy,
         Statements, Ended
<1>2. alone' = alone /\ mixed' = mixed
  BY DEF StatementStep, Submit, Answered, StatementRaises, Crash, history
<1>3. ASSUME alone # {} PROVE Busy' \subseteq Busy /\ InOrder'
  <2>1. InOrder /\ Busy = {w}
    BY <1>1, <1>3, ByItself
  <2>2. CASE Submit(w)
    <3>1. /\ Busy' = Busy /\ lost' = lost /\ stage' = stage
          /\ sales' = sales /\ model' = model
      BY <2>2 DEF Submit, Busy
    <3>2. job'[w] = Input(stage[w]) /\ job'[w] # 0
      BY <2>2 DEF Submit, TypeOK
    <3>3. job'[w] # 0 => Current(stage[w], job'[w])
      BY <3>2 DEF Input, Current
    <3> QED BY <2>1, <3>1, <3>2, <3>3 DEF InOrder, Current
  <2>3. CASE Answered(w)
    <3>1. /\ lost' = lost /\ job' = job /\ sales' = sales /\ model' = model
          /\ stage' = [stage EXCEPT ![w] = After(w)] /\ sent[w] /\ job[w] = 0
          /\ stage[w] \in Statements
      BY <2>3 DEF Answered, Waiting
    <3>2. stage'[w] = After(w) /\ ~sent'[w] /\ job'[w] = 0
      BY <2>3, <3>1 DEF Answered, TypeOK
    <3>3. Busy' \subseteq {w}
      BY <2>1, <3>1 DEF Busy, TypeOK
    <3>4. After(w) = "done" \/ After(w) = NextStage[stage[w]]
      BY DEF After
    <3>5. After(w) \in Ended \/ Behind(stage[w]) \subseteq Behind(After(w))
      BY <3>1, <3>4, BehindValues DEF NextStage, Statements, Ended, Late
    <3>6. Busy' # {} => Behind(stage[w]) \subseteq Behind(stage'[w])
      BY <3>2, <3>3, <3>5 DEF Busy
    <3>7. \A v \in Busy', j \in lost' : j.kind \in Behind(stage'[v])
      BY <2>1, <3>1, <3>3, <3>6 DEF InOrder
    <3>8. After(w) \in Late => stage[w] = "train" \/ stage[w] \in Late
      BY <3>1, <3>4 DEF NextStage, Statements, Late
    <3>9. (\E j \in lost : j.kind = "train")
            /\ ((\E j \in lost : j.kind = "forecast") \/ (\E v \in Busy' : stage'[v] \in Late))
          => model = sales
      BY <2>1, <3>1, <3>2, <3>3, <3>8 DEF InOrder
    <3> QED BY <2>1, <3>1, <3>2, <3>3, <3>7, <3>9 DEF InOrder, Current
  <2>4. CASE StatementRaises(w)
    <3>1. \/ stage' = stage /\ stage[w] # "etl"
          \/ stage' = [stage EXCEPT ![w] = "failed"]
      BY <2>4, BoundsAssumption DEF StatementRaises, Limit, TypeOK
    <3>2. Turn(w) /\ sales' = sales /\ model' = model
      BY <2>4 DEF StatementRaises
    <3> QED BY <1>1, <2>1, <3>1, <3>2, TurnInOrder
  <2>5. CASE Crash(w)
    BY <1>1, <2>1, <2>5, TurnInOrder DEF Crash
  <2> QED BY <2>2, <2>3, <2>4, <2>5 DEF StatementStep
<1> QED BY <1>1, <1>2, <1>3, AtWork

(* The loop over the products leaves what BigQuery has alone. *)
LEMMA SyncAlone ==
  ASSUME TypeOK, Waiting, Alone, NEW w \in Orchestrators, SyncStep(w)
  PROVE  Alone'
<1>1. w \in Busy /\ stage[w] \in {"sync", "narratives"}
  BY DEF SyncStep, FetchForecasts, ReplaceForecasts, SyncRaises, LoopEnds, Busy,
         Callers, Ended
<1>2. /\ alone' = alone /\ mixed' = mixed /\ lost' = lost /\ job' = job /\ sent' = sent
      /\ sales' = sales /\ model' = model
  BY DEF SyncStep, FetchForecasts, ReplaceForecasts, SyncRaises, LoopEnds, Leave,
         calls, history
<1>3. /\ stage'[w] \in {"sync", "narratives", "done", "failed"}
      /\ \A v \in Callers \ {w} : stage'[v] = stage[v]
  BY <1>1 DEF SyncStep, FetchForecasts, ReplaceForecasts, SyncRaises, LoopEnds, calls,
              TypeOK, Callers
<1>4. ASSUME alone # {} PROVE Busy' \subseteq Busy /\ InOrder'
  <2>1. InOrder /\ Busy = {w}
    BY <1>1, <1>4, ByItself
  <2>2. Busy' \subseteq {w}
    BY <1>3, <2>1 DEF Busy
  <2>3. \A v \in Busy' : stage'[v] \in Late /\ Behind(stage'[v]) = Behind(stage[w])
    BY <1>1, <1>3, <2>2, BehindValues DEF Busy, Ended, Late
  <2>4. \A v \in Busy' : job'[v] = 0 /\ ~sent'[v]
    BY <1>1, <1>2, <2>2 DEF Waiting, Statements, Busy
  <2>5. \A v \in Busy', j \in lost' : j.kind \in Behind(stage'[v])
    BY <1>2, <2>1, <2>3 DEF InOrder
  <2>6. (\E j \in lost : j.kind = "train") => model = sales
    BY <1>1, <2>1 DEF InOrder, Late
  <2> QED BY <1>2, <2>1, <2>2, <2>4, <2>5, <2>6 DEF InOrder, Current
<1> QED BY <1>1, <1>2, <1>4, AtWork

(* A step that changes none of it. *)
LEMMA ElsewhereAlone ==
  ASSUME Alone,
         UNCHANGED <<stage, sent, job, lost, sales, model, alone, mixed>>
  PROVE  Alone'
BY DEF Alone, InOrder, Current, Busy

(* Every step keeps the order of the jobs of a run without company. *)
LEMMA AloneStep == TypeOK /\ Waiting /\ Alone /\ [Next]_vars => Alone'
<1> SUFFICES ASSUME TypeOK, Waiting, Alone, [Next]_vars PROVE Alone'
  OBVIOUS
<1>1. CASE NewSales \/ UNCHANGED vars
  BY <1>1, ElsewhereAlone DEF NewSales, vars, calls, history
<1>2. ASSUME NEW w \in Orchestrators, StartRun(w) PROVE Alone'
  BY <1>2, StartAlone DEF StartRun, Callers, Statements
<1>3. ASSUME NEW w \in Scripts, StartScript(w) PROVE Alone'
  <2>1. w \in Callers /\ "view" \in Statements
    BY DEF Callers, Statements
  <2>2. ASSUME NEW k \in Statements \ {"etl"}, Start(w, k, FALSE) PROVE Alone'
    <3>1. k \in Statements
      OBVIOUS
    <3> QED BY <2>1, <2>2, <3>1, StartAlone
  <2> QED BY <1>3, <2>1, <2>2, StartAlone DEF StartScript
<1>4. ASSUME NEW w \in Writers, NarrativeStep(w) PROVE Alone'
  BY <1>4, ElsewhereAlone
  DEF NarrativeStep, ReadForecast, SaveNarrative, NarrativeRaises, Leave, calls, history
<1> QED
  BY <1>1, <1>2, <1>3, <1>4, StatementAlone, SyncAlone, JobAlone, LostJobAlone DEF Next

-----------------------------------------------------------------------------
(* What it has made                                                        *)

(* A run leaves its loops with no product in hand. *)
LEMMA LoopingStep == TypeOK /\ Waiting /\ Looping /\ [Next]_vars => Looping'
<1> SUFFICES ASSUME TypeOK, Waiting, Looping, [Next]_vars PROVE Looping'
  OBVIOUS
<1> USE KindsAssumption DEF TypeOK, Looping
<1>1. CASE NewSales \/ LostJobEnds \/ UNCHANGED vars
  BY <1>1 DEF NewSales, LostJobEnds, vars, calls, loops
<1>2. ASSUME NEW w \in Callers, NEW k, NEW all, Start(w, k, all) PROVE Looping'
  BY <1>2 DEF Start, loops, Ended
<1>3. ASSUME NEW w \in Orchestrators, StartRun(w) PROVE Looping'
  BY <1>2, <1>3 DEF StartRun, Callers
<1>4. ASSUME NEW w \in Scripts, StartScript(w) PROVE Looping'
  BY <1>2, <1>4 DEF StartScript, Callers
<1>5. ASSUME NEW w \in Callers, StatementStep(w) PROVE Looping'
  <2>1. stage[w] \in Statements /\ item' = item
    BY <1>5 DEF StatementStep, Submit, Answered, StatementRaises, Waiting, loops
  <2>2. \A v \in Callers \ {w} : stage'[v] = stage[v]
    BY <1>5 DEF StatementStep, Submit, Answered, StatementRaises
  <2>3. \A v \in Orchestrators \ {w} : v \in Callers \ {w}
    BY DEF Callers
  <2>4. w \in Orchestrators => item[w] = None
    BY <2>1 DEF Statements
  <2> QED BY <2>1, <2>2, <2>3, <2>4
<1>6. ASSUME NEW w \in Callers, Crash(w) PROVE Looping'
  BY <1>6 DEF Crash, Writers
<1>7. ASSUME NEW w \in Callers, JobEnds(w) PROVE Looping'
  BY <1>7 DEF JobEnds, calls, loops
<1>8. ASSUME NEW w \in Orchestrators, SyncStep(w) PROVE Looping'
  <2>1. ASSUME NEW p \in Products, FetchForecasts(w, p) PROVE Looping'
    BY <2>1 DEF FetchForecasts, calls, Writers
  <2>2. CASE ReplaceForecasts(w)
    BY <2>2 DEF ReplaceForecasts, Leave, calls, Writers
  <2>3. CASE SyncRaises(w)
    BY <2>3 DEF SyncRaises, Writers, Callers
  <2>4. CASE LoopEnds(w)
    BY <2>4 DEF LoopEnds, Writers, Callers
  <2> QED BY <1>8, <2>1, <2>2, <2>3, <2>4 DEF SyncStep
<1>9. ASSUME NEW w \in Writers, NarrativeStep(w) PROVE Looping'
  BY <1>9 DEF NarrativeStep, ReadForecast, MayDescribe, SaveNarrative, NarrativeRaises,
              Leave, calls, Writers
<1> QED
  BY <1>1, <1>3, <1>4, <1>5, <1>6, <1>7, <1>8, <1>9 DEF Next

(* A caller's own steps and the jobs of its run. *)
LEMMA StatementMakes ==
  ASSUME TypeOK, Waiting, Alone, Looping, Fresh,
         NEW w \in Orchestrators \cap alone, w \in Busy,
         StatementStep(w) \/ Crash(w)
  PROVE  Made(w)'
<1>1. InOrder /\ Made(w) /\ w \in Callers /\ w \in Writers
  BY ByItself DEF Fresh, Callers, Writers
<1>2. CASE Submit(w)
  <2>1. /\ stage' = stage /\ sales' = sales /\ model' = model /\ table' = table
        /\ todo' = todo /\ item' = item /\ rows' = rows /\ forecasts' = forecasts
    BY <1>2 DEF Submit, loops
  <2>2. job'[w] # 0 /\ (stage[w] = "etl" => job'[w] = origin'[w])
    BY <1>1, <1>2 DEF Submit, Input, TypeOK
  <2>3. stage[w] # "etl" => origin' = origin
    BY <1>2 DEF Submit
  <2>4. stage[w] \in Statements
    BY <1>2 DEF Submit
  <2> QED BY <1>1, <2>1, <2>2, <2>3, <2>4 DEF Made, Late, Statements
<1>3. CASE Answered(w)
  <2>1. /\ sales' = sales /\ model' = model /\ table' = table /\ origin' = origin
        /\ item' = item /\ forecasts' = forecasts
        /\ sent[w] /\ job[w] = 0 /\ stage[w] \in Statements
        /\ stage'[w] = After(w) /\ ~sent'[w] /\ item[w] = None
        /\ todo' = IF After(w) = "sync" THEN [todo EXCEPT ![w] = Products] ELSE todo
    BY <1>1, <1>3 DEF Answered, Waiting, history, TypeOK, Looping, Statements
  <2>2. After(w) = "done" \/ After(w) = NextStage[stage[w]]
    BY DEF After
  <2>3. stage[w] = "train" => model = sales
    BY <1>1, <2>1 DEF InOrder
  <2>4. todo'[w] = IF After(w) = "sync" THEN Products ELSE todo[w]
    BY <1>1, <2>1 DEF TypeOK
  <2>5. CASE stage[w] \in {"etl", "view"}
    BY <1>1, <2>1, <2>2, <2>5 DEF Made, NextStage, Late
  <2>6. CASE stage[w] = "train"
    BY <1>1, <2>1, <2>2, <2>3, <2>6 DEF Made, NextStage, Late
  <2>7. CASE stage[w] \in {"forecast", "evaluate"}
    BY <1>1, <2>1, <2>2, <2>4, <2>7 DEF Made, NextStage, Late
  <2> QED BY <2>1, <2>5, <2>6, <2>7 DEF Statements
<1>4. CASE StatementRaises(w)
  <2>1. /\ sales' = sales /\ model' = model /\ table' = table /\ origin' = origin
        /\ ~sent'[w] /\ stage[w] \in Statements
        /\ stage'[w] = stage[w] \/ stage'[w] = "failed"
    BY <1>1, <1>4 DEF StatementRaises, Turn, history, TypeOK
  <2> QED BY <1>1, <2>1 DEF Made, Late, Statements
<1>5. CASE Crash(w)
  <2>1. stage'[w] = "failed"
    BY <1>1, <1>5 DEF Crash, TypeOK
  <2> QED BY <2>1 DEF Made, Late
<1> QED BY <1>2, <1>3, <1>4, <1>5 DEF StatementStep

(* A job that ends has written what its run needs. *)
LEMMA JobMakes ==
  ASSUME TypeOK, Waiting, Alone, Fresh,
         NEW w \in Orchestrators \cap alone, JobEnds(w)
  PROVE  Made(w)'
<1>1. w \in Busy /\ w \in Callers /\ stage[w] \in Statements /\ sent[w]
  BY DEF JobEnds, Waiting, Busy, Statements, Ended, Callers
<1>2. InOrder /\ Made(w)
  BY <1>1, ByItself DEF Fresh
<1>3. /\ stage' = stage /\ sent' = sent /\ origin' = origin /\ job'[w] = 0
      /\ todo' = todo /\ item' = item /\ rows' = rows /\ forecasts' = forecasts
  BY <1>1 DEF JobEnds, calls, loops, history, TypeOK
<1>4. Write(stage[w], job[w]) /\ (stage[w] = "forecast" => job[w] = model) /\ job[w] # 0
  BY <1>1, <1>2 DEF JobEnds, InOrder, Current
<1> QED BY <1>1, <1>2, <1>3, <1>4 DEF Made, Write, Late, Statements

(* A lost one undoes nothing. *)
LEMMA LostJobMakes ==
  ASSUME TypeOK, Waiting, Alone, Fresh,
         NEW w \in Orchestrators \cap alone, LostJobEnds
  PROVE  Made(w)'
<1> PICK j \in lost :
       /\ Write(j.kind, j.input) \/ UNCHANGED <<sales, view, model, table>>
       /\ lost' = lost \ {j}
       /\ UNCHANGED <<raw, job, calls, loops, forecasts, summaries, history>>
  BY DEF LostJobEnds
<1>1. /\ stage' = stage /\ sent' = sent /\ origin' = origin /\ job' = job
      /\ todo' = todo /\ item' = item /\ rows' = rows /\ forecasts' = forecasts
  BY DEF calls, loops, history
<1>2. CASE w \notin Busy
  BY <1>1, <1>2 DEF Busy, Made, Ended, Late, Callers
<1>3. CASE w \in Busy
  <2>1. InOrder /\ Made(w)
    BY <1>3, ByItself DEF Fresh
  <2>2. j.kind \in Behind(stage[w]) /\ Current(j.kind, j.input)
    BY <1>3, <2>1 DEF InOrder
  <2>3. stage[w] \in {"etl", "view", "train"} \cup Late
    BY <1>3 DEF Busy, TypeOK, Statements, Ended, Late
  <2>4. j.kind # "etl" /\ (j.kind = "forecast" => stage[w] \in Late)
    BY <2>2, <2>3, BehindValues
  <2>5. sales' = sales
    BY <2>4 DEF Write
  <2>6. stage[w] \in Late => model' = model
    BY <2>1, <2>2 DEF Write, Current, Made
  <2>7. table' = table \/ (stage[w] \in Late /\ table' = model)
    BY <2>2, <2>4 DEF Write, Current
  <2> QED BY <1>1, <2>1, <2>5, <2>6, <2>7 DEF Made, Late
<1> QED BY <1>2, <1>3

(* The copy visits every product. *)
LEMMA SyncMakes ==
  ASSUME TypeOK, Waiting, Alone, Fresh,
         NEW w \in Orchestrators \cap alone, SyncStep(w)
  PROVE  Made(w)'
<1>1. Made(w) /\ w \in Callers /\ w \in Writers
  BY DEF Fresh, Callers, Writers
<1>2. /\ sales' = sales /\ model' = model /\ table' = table /\ origin' = origin
  BY DEF SyncStep, FetchForecasts, ReplaceForecasts, SyncRaises, LoopEnds, Leave, history
<1>3. ASSUME NEW p \in Products, FetchForecasts(w, p) PROVE Made(w)'
  <2>1. /\ stage' = stage /\ stage[w] = "sync" /\ todo' = todo /\ rows'[w] = table
        /\ forecasts' = forecasts
    BY <1>1, <1>3 DEF FetchForecasts, calls, TypeOK
  <2> QED BY <1>1, <1>2, <2>1 DEF Made, Late
<1>4. CASE ReplaceForecasts(w)
  <2>1. /\ stage' = stage /\ stage[w] = "sync" /\ item'[w] = None /\ rows[w] = table
        /\ todo'[w] = todo[w] \ {item[w]} /\ item[w] \in Products
        /\ forecasts' = [forecasts EXCEPT ![item[w]] = table]
    BY <1>1, <1>4 DEF ReplaceForecasts, Leave, calls, TypeOK, Made
  <2>2. \A p \in Products \ todo'[w] : forecasts'[p] = table
    BY <1>1, <2>1 DEF Made, TypeOK
  <2> QED BY <1>1, <1>2, <2>1, <2>2 DEF Made, Late
<1>5. CASE SyncRaises(w)
  <2>1. stage'[w] = "failed"
    BY <1>1, <1>5 DEF SyncRaises, TypeOK
  <2> QED BY <2>1 DEF Made, Late
<1>6. CASE LoopEnds(w)
  <2>1. /\ forecasts' = forecasts /\ todo[w] = {}
        /\ \/ stage[w] = "sync" /\ stage'[w] = "narratives"
           \/ stage[w] = "narratives" /\ stage'[w] = "done"
    BY <1>1, <1>6 DEF LoopEnds, TypeOK
  <2> QED BY <1>1, <1>2, <2>1 DEF Made, Late
<1> QED BY <1>3, <1>4, <1>5, <1>6 DEF SyncStep

(* Every step keeps what a lone run has made. *)
LEMMA FreshStep ==
  TypeOK /\ Waiting /\ Alone /\ Looping /\ Fresh /\ [Next]_vars => Fresh'
<1> SUFFICES ASSUME TypeOK, Waiting, Alone, Looping, Fresh, [Next]_vars
             PROVE  Fresh'
  OBVIOUS
<1>1. ASSUME NEW u \in Busy, u \in Callers, alone' = alone,
             u \in Orchestrators \cap alone => Made(u)'
      PROVE  Fresh'
  BY <1>1, ByItself DEF Fresh
<1>2. CASE NewSales \/ UNCHANGED vars
  BY <1>2 DEF NewSales, vars, calls, loops, history, Fresh, Made
<1>3. ASSUME NEW u \in Orchestrators, StartRun(u) PROVE Fresh'
  <2>1. alone' \subseteq {u} /\ stage'[u] = "etl" /\ ~sent'[u]
    BY <1>3 DEF StartRun, Start, TypeOK, Waiting, Callers, Statements, Ended
  <2> QED BY <2>1 DEF Fresh, Made, Late
<1>4. ASSUME NEW u \in Scripts, StartScript(u) PROVE Fresh'
  <2>1. alone' \subseteq {u} /\ u \notin Orchestrators
    BY <1>4, KindsAssumption DEF StartScript, Start
  <2> QED BY <2>1 DEF Fresh
<1>5. ASSUME NEW u \in Callers, StatementStep(u) \/ Crash(u) PROVE Fresh'
  <2>1. u \in Busy /\ alone' = alone
    BY <1>5 DEF StatementStep, Submit, Answered, StatementRaises, Crash, Waiting, Busy,
                Statements, Ended, history
  <2> QED BY <1>1, <1>5, <2>1, StatementMakes
<1>6. ASSUME NEW u \in Callers, JobEnds(u) PROVE Fresh'
  <2>1. u \in Busy /\ alone' = alone
    BY <1>6 DEF JobEnds, Waiting, Busy, Statements, Ended, history
  <2> QED BY <1>1, <1>6, <2>1, JobMakes
<1>7. CASE LostJobEnds
  BY <1>7, LostJobMakes DEF LostJobEnds, history, Fresh
<1>8. ASSUME NEW u \in Orchestrators, SyncStep(u) PROVE Fresh'
  <2>1. u \in Busy /\ alone' = alone /\ u \in Callers
    BY <1>8 DEF SyncStep, FetchForecasts, ReplaceForecasts, SyncRaises, LoopEnds, Leave,
                Busy, Callers, Ended, history
  <2> QED BY <1>1, <1>8, <2>1, SyncMakes
<1>9. ASSUME NEW u \in Writers, NarrativeStep(u) PROVE Fresh'
  <2> SUFFICES ASSUME NEW w \in Orchestrators \cap alone PROVE Made(w)'
    BY <1>9 DEF NarrativeStep, ReadForecast, SaveNarrative, NarrativeRaises, Leave,
                history, Fresh
  <2>1. Made(w)
    BY DEF Fresh
  <2>2. /\ stage' = stage /\ sent' = sent /\ job' = job /\ origin' = origin
        /\ sales' = sales /\ model' = model /\ table' = table /\ forecasts' = forecasts
    BY <1>9 DEF NarrativeStep, ReadForecast, SaveNarrative, NarrativeRaises, Leave, calls,
                history
  <2>3. CASE stage[w] # "sync"
    BY <2>1, <2>2, <2>3 DEF Made
  <2>4. CASE stage[w] = "sync"
    <3>1. w # u
      BY <1>9, <2>4 DEF NarrativeStep, ReadForecast, MayDescribe, SaveNarrative,
                        NarrativeRaises, Describes
    <3>2. item'[w] = item[w] /\ rows'[w] = rows[w] /\ todo'[w] = todo[w]
      BY <1>9, <3>1 DEF NarrativeStep, ReadForecast, SaveNarrative, NarrativeRaises, Leave,
                        TypeOK, Writers
    <3> QED BY <2>1, <2>2, <2>4, <3>2 DEF Made
  <2> QED BY <2>3, <2>4
<1> QED
  BY <1>2, <1>3, <1>4, <1>5, <1>6, <1>7, <1>8, <1>9 DEF Next

(* All of it, as one inductive invariant. *)
LoneInv == TypeOK /\ Waiting /\ Alone /\ Looping /\ Fresh

(* It holds at first. *)
LEMMA InitLone == Init => LoneInv
<1> SUFFICES ASSUME Init PROVE LoneInv
  OBVIOUS
<1>1. Busy = {} /\ alone = {} /\ lost = {}
  BY DEF Init, Busy, Ended
<1>2. \A w \in Orchestrators : item[w] = None
  BY DEF Init, Writers
<1> QED BY <1>1, <1>2, InitTypes DEF LoneInv, Alone, Looping, Fresh

(* The invariant of lone runs: the order of the jobs run() sends, and what *)
(* a run has made by each of its stages.                                   *)
THEOREM LoneInvariant == Spec => []LoneInv
<1>1. LoneInv /\ [Next]_vars => LoneInv'
  BY TypeStep, WaitingStep, AloneStep, LoopingStep, FreshStep DEF LoneInv
<1> QED BY <1>1, InitLone, PTL DEF Spec

(* A run of the pipeline that nobody joined ends with its own raw sales in *)
(* every artefact, for any number of attempts, of lost jobs and of         *)
(* products, and whatever earlier runs left behind.                        *)
THEOREM LoneRuns == Spec => LoneRunIsEndToEnd
<1> DEFINE Ends ==
      \A w \in Orchestrators \cap alone :
        stage[w] = "narratives" /\ stage'[w] = "done" =>
          /\ {sales, model, table} = {origin[w]}
          /\ \A p \in Products : forecasts[p] = origin[w]
<1>1. LoneInv => Ends
  BY DEF LoneInv, Fresh, Made, Late
<1>2. LoneInv /\ [Next]_vars => [Ends]_vars
  BY <1>1
<1> QED BY <1>2, LoneInvariant, PTL DEF Spec, LoneRunIsEndToEnd

-----------------------------------------------------------------------------
(* A history without overlap                                               *)

(* Without overlap, jobs are in order and one caller is at work at most. *)
LEMMA Unmixed ==
  ASSUME Alone, ~mixed
  PROVE  /\ lost # {} => InOrder
         /\ \A w \in Busy : InOrder /\ Busy = {w}
BY ByItself DEF Alone

(* The versions are numbers. *)
LEMMA Numbers ==
  TypeOK => /\ raw \in Nat /\ sales \in Nat /\ model \in Nat /\ table \in Nat
            /\ \A w \in Callers : job[w] \in Nat
            /\ \A j \in lost : j.input \in Nat
            /\ \A w \in Writers : rows[w] \in Nat
            /\ \A p \in Products : forecasts[p] \in Nat /\ summaries[p] \in Nat
BY BoundsAssumption DEF TypeOK, Versions

(* A job that ends, waited for or not, writes nothing older than there is. *)
LEMMA WriteAges ==
  ASSUME TypeOK, Waiting, Alone, Chain, ~mixed,
         \/ \E w \in Callers : JobEnds(w)
         \/ LostJobEnds
  PROVE  /\ raw' = raw /\ forecasts' = forecasts /\ summaries' = summaries
         /\ item' = item /\ rows' = rows /\ stage' = stage /\ overtaken' = overtaken
         /\ sales' \in Nat /\ model' \in Nat /\ table' \in Nat
         /\ raw >= sales' /\ sales' >= model' /\ model' >= table'
         /\ sales' >= sales /\ model' >= model /\ table' >= table
<1> USE Numbers
<1>1. ASSUME NEW k, NEW i \in Nat, Write(k, i), Current(k, i),
             k = "etl" => sales <= i /\ i <= raw
      PROVE  /\ sales' \in Nat /\ model' \in Nat /\ table' \in Nat
             /\ raw >= sales' /\ sales' >= model' /\ model' >= table'
             /\ sales' >= sales /\ model' >= model /\ table' >= table
  <2>1. /\ raw \in Nat /\ sales \in Nat /\ model \in Nat /\ table \in Nat
        /\ raw >= sales /\ sales >= model /\ model >= table
    BY DEF Chain, Levels
  <2>2. /\ sales' = IF k = "etl" THEN i ELSE sales
        /\ model' = IF k = "train" THEN sales ELSE model
        /\ table' = IF k = "forecast" THEN model ELSE table
    BY <1>1 DEF Write, Current
  <2> HIDE Numbers
  <2>3. CASE k = "etl"
    BY <1>1, <2>1, <2>2, <2>3
  <2>4. CASE k # "etl"
    BY <2>1, <2>2, <2>4
  <2> QED BY <2>3, <2>4
<1>2. ASSUME NEW w \in Callers, JobEnds(w)
      PROVE  /\ job[w] \in Nat /\ Write(stage[w], job[w]) /\ Current(stage[w], job[w])
             /\ stage[w] = "etl" => sales <= job[w] /\ job[w] <= raw
  <2>1. w \in Busy
    BY <1>2 DEF JobEnds, Waiting, Busy, Statements, Ended
  <2> QED BY <1>2, <2>1, Unmixed DEF JobEnds, InOrder, Chain, Cleaning
<1>3. ASSUME LostJobEnds
      PROVE  \/ UNCHANGED <<sales, model, table>>
             \/ \E j \in lost : /\ j.input \in Nat /\ Write(j.kind, j.input)
                                /\ Current(j.kind, j.input)
                                /\ j.kind = "etl" => sales <= j.input /\ j.input <= raw
  BY <1>3, Unmixed DEF LostJobEnds, InOrder, Chain, Cleaning
<1>4. /\ raw' = raw /\ forecasts' = forecasts /\ summaries' = summaries
      /\ item' = item /\ rows' = rows /\ stage' = stage /\ overtaken' = overtaken
  BY DEF JobEnds, LostJobEnds, calls, loops, history
<1>5. CASE \E w \in Callers : JobEnds(w)
  BY <1>1, <1>2, <1>4, <1>5
<1>6. CASE LostJobEnds
  BY <1>1, <1>3, <1>4, <1>6 DEF Chain, Levels
<1> QED BY <1>5, <1>6

(* A step that leaves the versions alone keeps them in line, if the rows   *)
(* held after it were held before and the pending ETL has read what it may *)
(* have read.                                                              *)
LEMMA StillInLine ==
  ASSUME TypeOK, Chain, ~mixed, ~mixed',
         UNCHANGED <<raw, sales, model, table, forecasts, summaries>>,
         Cleaning',
         \A w \in Writers :
           \/ item'[w] = None
           \/ /\ item'[w] = item[w] /\ rows'[w] = rows[w]
              /\ w \in Orchestrators => stage'[w] = stage[w]
              /\ w \in overtaken' <=> w \in overtaken
  PROVE  Chain'
<1>1. Levels'
  BY DEF Chain, Levels
<1>2. Copying'
  <2> SUFFICES ASSUME NEW w \in Orchestrators, stage'[w] = "sync", item'[w] # None
               PROVE  forecasts'[item'[w]] <= rows'[w] /\ rows'[w] <= table'
    BY DEF Copying
  <2>1. item'[w] = item[w] /\ rows'[w] = rows[w] /\ stage'[w] = stage[w]
    BY DEF Writers
  <2> QED BY <2>1 DEF Chain, Copying
<1>3. Describing'
  <2> SUFFICES ASSUME NEW w \in Writers, Describes(w)'
               PROVE  /\ rows'[w] <= forecasts'[item'[w]]
                      /\ w \notin overtaken' => summaries'[item'[w]] <= rows'[w]
    BY DEF Describing
  <2>1. /\ item'[w] = item[w] /\ rows'[w] = rows[w]
        /\ w \in overtaken' <=> w \in overtaken
    BY DEF Describes
  <2>2. Describes(w)
    BY <2>1 DEF Describes
  <2> QED BY <2>1, <2>2 DEF Chain, Describing
<1> QED BY <1>1, <1>2, <1>3 DEF Chain

(* Whoever starts without overlap finds nothing under way. *)
LEMMA StartInLine ==
  ASSUME TypeOK, Waiting, Looping, Chain, ~mixed',
         NEW w \in Callers, NEW k \in Statements, NEW all, Start(w, k, all)
  PROVE  ~mixed /\ Chain'
<1>1. ~mixed /\ Busy = {} /\ lost = {} /\ lost' = {} /\ job' = job
  BY DEF Start
<1>2. \A v \in Callers : job[v] = 0
  BY <1>1 DEF Busy, Waiting, Statements, Ended
<1>3. Cleaning'
  BY <1>1, <1>2 DEF Cleaning, Busy
<1>4. ASSUME NEW v \in Orchestrators PROVE stage'[v] = stage[v] \/ item'[v] = None
  BY DEF Start, loops, Looping, Ended, Callers, TypeOK
<1> QED BY <1>1, <1>3, <1>4, StillInLine DEF Start, loops

(* The steps of a caller at a statement write nothing themselves. *)
LEMMA StatementInLine ==
  ASSUME TypeOK, Waiting, Alone, Looping, Chain, ~mixed,
         NEW w \in Callers, StatementStep(w) \/ Crash(w)
  PROVE  UNCHANGED <<sales, model, table, forecasts, summaries>> /\ Chain'
<1>1. w \in Busy /\ InOrder /\ Busy = {w}
  BY Unmixed DEF StatementStep, Submit, Answered, StatementRaises, Crash, Waiting, Busy,
                 Statements, Ended
<1>2. /\ UNCHANGED <<raw, sales, model, table, forecasts, summaries>>
      /\ ~mixed'
  BY DEF StatementStep, Submit, Answered, StatementRaises, Crash, history
<1>3. Cleaning'
  <2>1. CASE Submit(w)
    <3>1. /\ stage' = stage /\ lost' = lost /\ Busy' = Busy
          /\ stage[w] = "etl" => job'[w] = raw
      BY <2>1 DEF Submit, Busy, Input, TypeOK
    <3>2. sales <= raw
      BY Numbers DEF Chain, Levels
    <3>3. raw <= raw
      BY Numbers
    <3> QED BY <1>1, <1>2, <3>1, <3>2, <3>3 DEF Cleaning, Chain
  <2>2. CASE Answered(w)
    <3>1. lost' = lost /\ job'[w] = 0 /\ Busy' \subseteq {w}
      BY <1>1, <2>2 DEF Answered, Busy, TypeOK
    <3> QED BY <1>2, <3>1 DEF Cleaning, Chain
  <2>3. CASE Turn(w) /\ Busy' \subseteq {w}
    <3>1. lost' \subseteq lost \cup Own(w) /\ job'[w] = 0
      BY <2>3 DEF Turn, TypeOK
    <3>2. \A j \in Own(w) : j.kind = stage[w] /\ j.input = job[w] /\ job[w] # 0
      BY DEF Own
    <3> QED BY <1>1, <1>2, <2>3, <3>1, <3>2 DEF Cleaning, Chain
  <2>4. StatementRaises(w) \/ Crash(w) => Turn(w) /\ Busy' \subseteq {w}
    BY <1>1 DEF StatementRaises, Crash, Busy, TypeOK
  <2> QED BY <2>1, <2>2, <2>3, <2>4 DEF StatementStep
<1>4. ASSUME NEW v \in Writers
      PROVE  \/ item'[v] = None
             \/ /\ item'[v] = item[v] /\ rows'[v] = rows[v]
                /\ v \in Orchestrators => stage'[v] = stage[v]
                /\ v \in overtaken' <=> v \in overtaken
  <2>1. CASE Crash(w)
    BY <2>1 DEF Crash, TypeOK, Writers, Callers
  <2>2. CASE StatementStep(w)
    <3>1. item' = item /\ rows' = rows /\ overtaken' = overtaken /\ stage[w] \in Statements
      BY <2>2 DEF StatementStep, Submit, Answered, StatementRaises, loops, history, Waiting
    <3>2. v \in Orchestrators /\ v # w => stage'[v] = stage[v]
      BY <2>2 DEF StatementStep, Submit, Answered, StatementRaises, TypeOK, Callers
    <3>3. w \in Orchestrators => item[w] = None
      BY <3>1 DEF Looping, Statements
    <3> QED BY <3>1, <3>2, <3>3
  <2> QED BY <2>1, <2>2
<1> QED BY <1>2, <1>3, <1>4, StillInLine

(* Jobs that end keep the versions in line. *)
LEMMA WriteInLine ==
  ASSUME TypeOK, Waiting, Alone, Chain, ~mixed,
         \/ \E w \in Callers : JobEnds(w)
         \/ LostJobEnds
  PROVE  Chain'
<1>1. /\ raw' = raw /\ forecasts' = forecasts /\ summaries' = summaries
      /\ item' = item /\ rows' = rows /\ stage' = stage /\ overtaken' = overtaken
      /\ sales' \in Nat /\ model' \in Nat /\ table' \in Nat
      /\ raw >= sales' /\ sales' >= model' /\ model' >= table'
      /\ table' >= table
  BY WriteAges
<1>2. Levels'
  <2> SUFFICES ASSUME NEW p \in Products
               PROVE  table' >= forecasts[p] /\ forecasts[p] >= summaries[p]
    BY <1>1 DEF Levels
  <2>1. forecasts[p] \in Nat /\ summaries[p] \in Nat /\ table \in Nat
    BY Numbers
  <2>2. table >= forecasts[p] /\ forecasts[p] >= summaries[p]
    BY DEF Chain, Levels
  <2> QED BY <1>1, <2>1, <2>2
<1>3. Copying'
  <2> SUFFICES ASSUME NEW w \in Orchestrators, stage[w] = "sync", item[w] # None
               PROVE  forecasts[item[w]] <= rows[w] /\ rows[w] <= table'
    BY <1>1 DEF Copying
  <2>1. forecasts[item[w]] <= rows[w] /\ rows[w] <= table
    BY DEF Chain, Copying
  <2>2. rows[w] \in Nat /\ table \in Nat
    BY Numbers DEF Writers
  <2> QED BY <1>1, <2>1, <2>2
<1>4. Describing'
  BY <1>1 DEF Chain, Describing, Describes
<1>5. Cleaning'
  <2>1. CASE \E w \in Callers : JobEnds(w)
    <3> PICK w \in Callers : JobEnds(w)
      BY <2>1
    <3>1. w \in Busy /\ Busy' = Busy /\ lost' = lost /\ job'[w] = 0 /\ Write(stage[w], job[w])
      BY DEF JobEnds, Waiting, Busy, Statements, Ended, calls, TypeOK
    <3>2. Busy = {w} /\ \A j \in lost : j.kind \in Behind(stage[w])
      BY <3>1, Unmixed DEF InOrder
    <3>3. \A j \in lost : j.kind # "etl"
      <4>1. stage[w] \in {"etl", "view", "train"} \cup Late
        BY <3>1 DEF Busy, TypeOK, Statements, Ended, Late
      <4> QED BY <3>2, <4>1, BehindValues
    <3> QED BY <3>1, <3>2, <3>3 DEF Cleaning
  <2>2. CASE LostJobEnds
    <3> PICK j \in lost :
           /\ Write(j.kind, j.input) \/ UNCHANGED <<sales, view, model, table>>
           /\ lost' = lost \ {j}
           /\ UNCHANGED <<raw, job, calls, loops, forecasts, summaries, history>>
      BY <2>2 DEF LostJobEnds
    <3>1. Busy' = Busy /\ job' = job /\ InOrder
      BY Unmixed DEF Busy, calls
    <3>2. CASE sales' = sales
      BY <1>1, <3>1, <3>2 DEF Chain, Cleaning
    <3>3. CASE j.kind = "etl"
      <4>1. lost' = {}
        BY <3>1, <3>3 DEF InOrder
      <4>2. \A w \in Busy : FALSE
        <5> SUFFICES ASSUME NEW w \in Busy PROVE FALSE
          OBVIOUS
        <5>1. stage[w] \in {"etl", "view", "train"} \cup Late /\ "etl" \in Behind(stage[w])
          BY <3>1, <3>3 DEF InOrder, Busy, TypeOK, Statements, Ended, Late
        <5> QED BY <5>1, BehindValues
      <4> QED BY <3>1, <4>1, <4>2 DEF Cleaning
    <3> QED BY <3>2, <3>3 DEF Write
  <2> QED BY <2>1, <2>2
<1> QED BY <1>2, <1>3, <1>4, <1>5 DEF Chain

(* What may not happen to a version in one step of such a history. *)
Ages ==
  /\ sales' >= sales /\ model' >= model /\ table' >= table
  /\ \A p \in Products :
       /\ forecasts'[p] >= forecasts[p]
       /\ summaries'[p] < summaries[p] => \E w \in overtaken : item[w] = p

(* A step that writes nothing makes nothing older. *)
LEMMA NothingWritten ==
  ASSUME TypeOK, UNCHANGED <<sales, model, table, forecasts, summaries>>
  PROVE  Ages
BY Numbers DEF Ages

(* The copy brings PostgreSQL up to the warehouse. *)
LEMMA SyncInLine ==
  ASSUME TypeOK, Waiting, Alone, Looping, Chain, ~mixed, NEW w \in Orchestrators,
         SyncStep(w)
  PROVE  Ages /\ Chain'
<1>1. w \in Busy /\ Busy = {w} /\ w \in Writers /\ w \in Callers
  BY Unmixed DEF SyncStep, FetchForecasts, ReplaceForecasts, SyncRaises, LoopEnds, Busy,
                 Callers, Writers, Ended
<1>2. /\ UNCHANGED <<raw, sales, model, table, summaries, lost, job>> /\ ~mixed'
  BY DEF SyncStep, FetchForecasts, ReplaceForecasts, SyncRaises, LoopEnds, Leave, calls,
         history
<1>3. \A v \in Callers : stage'[v] = stage[v] \/ stage'[v] \in {"narratives", "done", "failed"}
  BY DEF SyncStep, FetchForecasts, ReplaceForecasts, SyncRaises, LoopEnds, calls, TypeOK
<1>4. Cleaning'
  <2>1. \A v \in Busy' : stage'[v] = "etl" => v \in Busy /\ stage[v] = "etl"
    BY <1>3 DEF Busy
  <2> QED BY <1>2, <2>1 DEF Chain, Cleaning
<1>5. ASSUME NEW p \in Products, FetchForecasts(w, p) PROVE Ages /\ Chain'
  <2>1. /\ stage' = stage /\ forecasts' = forecasts /\ overtaken' = overtaken
        /\ item' = [item EXCEPT ![w] = p] /\ rows' = [rows EXCEPT ![w] = table]
        /\ stage[w] = "sync" /\ item'[w] = p /\ rows'[w] = table
    BY <1>1, <1>5 DEF FetchForecasts, calls, history, TypeOK
  <2>2. Copying'
    <3> SUFFICES ASSUME NEW v \in Orchestrators, stage[v] = "sync"
                 PROVE  forecasts[item'[v]] <= rows'[v] /\ rows'[v] <= table
      BY <1>2, <2>1 DEF Copying
    <3>1. v = w
      BY <1>1 DEF Busy, Callers, Ended
    <3>2. table \in Nat /\ forecasts[p] \in Nat /\ table >= forecasts[p]
      BY Numbers DEF Chain, Levels
    <3> QED BY <2>1, <3>1, <3>2
  <2>3. Describing'
    <3>1. \A v \in Writers : Describes(v)' => v # w /\ Describes(v)
      BY <1>1, <2>1 DEF Describes, TypeOK
    <3>2. \A v \in Writers \ {w} : item'[v] = item[v] /\ rows'[v] = rows[v]
      BY <2>1 DEF TypeOK
    <3> QED BY <1>2, <2>1, <3>1, <3>2 DEF Chain, Describing
  <2>4. Levels'
    BY <1>2, <2>1 DEF Chain, Levels
  <2> QED BY <1>2, <1>4, <2>1, <2>2, <2>3, <2>4, NothingWritten DEF Chain
<1>6. CASE ReplaceForecasts(w)
  <2> DEFINE p == item[w]
  <2>1. /\ stage' = stage /\ stage[w] = "sync" /\ p # None /\ p \in Products
        /\ forecasts' = [forecasts EXCEPT ![p] = rows[w]]
        /\ item' = [item EXCEPT ![w] = None] /\ rows' = [rows EXCEPT ![w] = 0]
        /\ overtaken' = overtaken \ {w}
    BY <1>1, <1>6 DEF ReplaceForecasts, Leave, calls, TypeOK
  <2>2. forecasts[p] <= rows[w] /\ rows[w] <= table
    BY <2>1 DEF Chain, Copying
  <2>3. /\ rows[w] \in Nat /\ table \in Nat
        /\ \A q \in Products : forecasts[q] \in Nat /\ summaries[q] \in Nat
    BY <1>1, Numbers
  <2> HIDE DEF p
  <2>4. \A q \in Products : forecasts'[q] = IF q = p THEN rows[w] ELSE forecasts[q]
    BY <2>1 DEF TypeOK
  <2>5. \A q \in Products : /\ forecasts'[q] \in Nat
                            /\ forecasts'[q] >= forecasts[q] /\ table >= forecasts'[q]
    BY <2>2, <2>3, <2>4 DEF Chain, Levels
  <2>6. Ages
    BY <1>2, <2>3, <2>5, Numbers DEF Ages
  <2>7. Levels'
    <3>1. \A q \in Products : forecasts'[q] >= summaries[q]
      BY <2>3, <2>5 DEF Chain, Levels
    <3> QED BY <1>2, <2>5, <3>1 DEF Chain, Levels
  <2>8. Copying'
    <3> SUFFICES ASSUME NEW v \in Orchestrators, stage[v] = "sync", item'[v] # None
                 PROVE  FALSE
      BY <2>1 DEF Copying
    <3>1. v = w
      BY <1>1 DEF Busy, Callers, Ended
    <3> QED BY <1>1, <2>1, <3>1 DEF TypeOK
  <2>9. Describing'
    <3> SUFFICES ASSUME NEW v \in Writers, Describes(v)'
                 PROVE  /\ rows'[v] <= forecasts'[item'[v]]
                        /\ v \notin overtaken' => summaries'[item'[v]] <= rows'[v]
      BY DEF Describing
    <3>1. v # w
      BY <1>1, <2>1 DEF Describes, TypeOK
    <3>2. /\ item'[v] = item[v] /\ rows'[v] = rows[v] /\ item[v] \in Products
          /\ Describes(v)
      BY <2>1, <3>1 DEF TypeOK, Describes
    <3>3. rows[v] <= forecasts[item[v]] /\ rows[v] \in Nat
      BY <3>2, Numbers DEF Chain, Describing
    <3>4. rows[v] <= forecasts'[item[v]]
      BY <2>3, <2>5, <3>2, <3>3
    <3> QED BY <1>2, <2>1, <3>1, <3>2, <3>4 DEF Chain, Describing
  <2> QED BY <1>4, <2>6, <2>7, <2>8, <2>9 DEF Chain
<1>7. CASE SyncRaises(w) \/ LoopEnds(w)
  <2>1. forecasts' = forecasts
    BY <1>7 DEF SyncRaises, LoopEnds
  <2>2. \A v \in Writers :
          \/ item'[v] = None
          \/ /\ item'[v] = item[v] /\ rows'[v] = rows[v]
             /\ v \in Orchestrators => stage'[v] = stage[v]
             /\ v \in overtaken' <=> v \in overtaken
    BY <1>1, <1>7 DEF SyncRaises, LoopEnds, history, TypeOK, Callers
  <2> QED BY <1>2, <1>4, <2>1, <2>2, StillInLine, NothingWritten
<1> QED BY <1>5, <1>6, <1>7 DEF SyncStep

(* A summary describes a forecast PostgreSQL had when it was read. *)
LEMMA NarrativeInLine ==
  ASSUME TypeOK, Chain, ~mixed, NEW w \in Writers, NarrativeStep(w)
  PROVE  Ages /\ Chain'
<1>1. /\ UNCHANGED <<raw, sales, model, table, forecasts, lost, job, stage>> /\ ~mixed'
  BY DEF NarrativeStep, ReadForecast, SaveNarrative, NarrativeRaises, Leave, calls, history
<1>2. Cleaning'
  BY <1>1 DEF Chain, Cleaning, Busy
<1>3. ASSUME NEW p \in Products, ReadForecast(w, p) PROVE Ages /\ Chain'
  <2>1. /\ item'[w] = p /\ rows'[w] = forecasts[p]
        /\ w \in Orchestrators => stage[w] = "narratives"
        /\ overtaken' = overtaken /\ summaries' = summaries
        /\ \A v \in Writers \ {w} : item'[v] = item[v] /\ rows'[v] = rows[v]
    BY <1>3 DEF ReadForecast, MayDescribe, history, TypeOK
  <2>2. Copying'
    <3> SUFFICES ASSUME NEW v \in Orchestrators, stage[v] = "sync", item'[v] # None
                 PROVE  forecasts[item'[v]] <= rows'[v] /\ rows'[v] <= table
      BY <1>1 DEF Copying
    <3>1. v \in Writers \ {w}
      BY <2>1 DEF Writers
    <3> QED BY <2>1, <3>1 DEF Chain, Copying
  <2>3. Describing'
    <3> SUFFICES ASSUME NEW v \in Writers, Describes(v)'
                 PROVE  /\ rows'[v] <= forecasts[item'[v]]
                        /\ v \notin overtaken => summaries[item'[v]] <= rows'[v]
      BY <1>1, <2>1 DEF Describing
    <3>1. CASE v = w
      <4>1. forecasts[p] \in Nat /\ summaries[p] \in Nat /\ forecasts[p] >= summaries[p]
        BY Numbers DEF Chain, Levels
      <4> QED BY <2>1, <3>1, <4>1
    <3>2. CASE v # w
      <4>1. Describes(v)
        BY <1>1, <2>1, <3>2 DEF Describes
      <4> QED BY <2>1, <3>2, <4>1 DEF Chain, Describing
    <3> QED BY <3>1, <3>2
  <2> QED BY <1>1, <1>2, <2>1, <2>2, <2>3, NothingWritten DEF Chain, Levels
<1>4. CASE SaveNarrative(w)
  <2> DEFINE p == item[w]
  <2>1. /\ Describes(w) /\ p # None /\ p \in Products
        /\ summaries' = [summaries EXCEPT ![p] = rows[w]] /\ item'[w] = None
        /\ \A v \in Writers \ {w} :
             /\ item'[v] = item[v] /\ rows'[v] = rows[v]
             /\ v \in overtaken => v \in overtaken'
             /\ Describes(v) /\ item[v] = p => v \in overtaken'
    BY <1>4 DEF SaveNarrative, Describes, TypeOK
  <2>2. rows[w] <= forecasts[p] /\ (w \notin overtaken => summaries[p] <= rows[w])
    BY <2>1 DEF Chain, Describing
  <2>3. /\ rows[w] \in Nat
        /\ \A q \in Products : forecasts[q] \in Nat /\ summaries[q] \in Nat
    BY Numbers
  <2>4. w \in overtaken => \E v \in overtaken : item[v] = p
    OBVIOUS
  <2> HIDE DEF p
  <2>5. \A q \in Products : summaries'[q] = IF q = p THEN rows[w] ELSE summaries[q]
    BY <2>1 DEF TypeOK
  <2>6. Ages
    <3>1. \A q \in Products : summaries'[q] < summaries[q] => q = p /\ w \in overtaken
      BY <2>2, <2>3, <2>5
    <3>2. \A q \in Products : summaries'[q] < summaries[q] => \E v \in overtaken : item[v] = q
      BY <2>4, <3>1
    <3> QED BY <1>1, <2>3, <3>2, Numbers DEF Ages
  <2>7. Levels'
    <3>1. \A q \in Products : forecasts[q] >= summaries'[q]
      BY <2>2, <2>3, <2>5 DEF Chain, Levels
    <3> QED BY <1>1, <3>1 DEF Chain, Levels
  <2>8. Copying'
    <3> SUFFICES ASSUME NEW v \in Orchestrators, stage[v] = "sync", item'[v] # None
                 PROVE  forecasts[item'[v]] <= rows'[v] /\ rows'[v] <= table
      BY <1>1 DEF Copying
    <3>1. v \in Writers \ {w}
      BY <2>1 DEF Writers
    <3> QED BY <2>1, <3>1 DEF Chain, Copying
  <2>9. Describing'
    <3> SUFFICES ASSUME NEW v \in Writers, Describes(v)'
                 PROVE  /\ rows'[v] <= forecasts[item'[v]]
                        /\ v \notin overtaken' => summaries'[item'[v]] <= rows'[v]
      BY <1>1 DEF Describing
    <3>1. v \in Writers \ {w}
      BY <2>1 DEF Describes
    <3>2. Describes(v) /\ item'[v] = item[v] /\ rows'[v] = rows[v] /\ item[v] \in Products
      BY <1>1, <2>1, <3>1 DEF Describes, TypeOK
    <3>3. v \notin overtaken' => v \notin overtaken /\ item[v] # p
      BY <2>1, <3>1, <3>2
    <3> QED BY <2>5, <3>2, <3>3 DEF Chain, Describing
  <2> QED BY <1>1, <1>2, <2>6, <2>7, <2>8, <2>9 DEF Chain
<1>5. CASE NarrativeRaises(w)
  <2>1. summaries' = summaries
    BY <1>5 DEF NarrativeRaises
  <2>2. \A v \in Writers :
          \/ item'[v] = None
          \/ /\ item'[v] = item[v] /\ rows'[v] = rows[v]
             /\ v \in Orchestrators => stage'[v] = stage[v]
             /\ v \in overtaken' <=> v \in overtaken
    BY <1>1, <1>5 DEF NarrativeRaises, Leave, TypeOK
  <2> QED BY <1>1, <1>2, <2>1, <2>2, StillInLine, NothingWritten
<1> QED BY <1>3, <1>4, <1>5 DEF NarrativeStep

(* Every step without overlap keeps the versions in line and makes none   *)
(* older.                                                                  *)
LEMMA ChainStep ==
  LoneInv /\ Chain /\ [Next]_vars => (~mixed' => Ages) /\ Chain'
<1> SUFFICES ASSUME LoneInv, Chain, [Next]_vars, ~mixed' PROVE Ages /\ Chain'
  BY DEF Chain
<1> USE DEF LoneInv
<1>1. ~mixed
  BY DEF Next, NewSales, StartRun, StartScript, Start, SyncStep, FetchForecasts,
         ReplaceForecasts, SyncRaises, LoopEnds, Leave, StatementStep, Submit, Answered,
         StatementRaises, Crash, NarrativeStep, ReadForecast, SaveNarrative,
         NarrativeRaises, JobEnds, LostJobEnds, vars, history
<1>2. CASE NewSales
  <2>1. /\ UNCHANGED <<sales, model, table, forecasts, summaries, lost, job, stage, item,
                       rows, overtaken>>
        /\ raw' = raw + 1
    BY <1>2 DEF NewSales, calls, loops, history
  <2>2. raw \in Nat /\ sales \in Nat /\ (\A w \in Callers : job[w] \in Nat)
        /\ (\A j \in lost : j.input \in Nat)
    BY Numbers
  <2>3. Levels'
    BY <1>1, <2>1, <2>2 DEF Chain, Levels
  <2>4. Cleaning'
    <3>1. \A n \in Nat : n <= raw => n <= raw'
      BY <2>1, <2>2
    <3>2. Busy' = Busy /\ \A w \in Busy : job[w] \in Nat
      BY <2>1, <2>2 DEF Busy
    <3> QED BY <1>1, <2>1, <2>2, <3>1, <3>2 DEF Chain, Cleaning
  <2>5. Copying' /\ Describing'
    BY <1>1, <2>1 DEF Chain, Copying, Describing, Describes
  <2> QED BY <2>1, <2>3, <2>4, <2>5, NothingWritten DEF Chain
<1>3. ASSUME NEW w \in Callers, NEW k \in Statements, NEW all, Start(w, k, all)
      PROVE  Ages /\ Chain'
  BY <1>3, StartInLine, NothingWritten DEF Start
<1>4. ASSUME NEW w \in Orchestrators, StartRun(w) PROVE Ages /\ Chain'
  BY <1>3, <1>4 DEF StartRun, Callers, Statements
<1>5. ASSUME NEW w \in Scripts, StartScript(w) PROVE Ages /\ Chain'
  <2>1. w \in Callers /\ "view" \in Statements
    BY DEF Callers, Statements
  <2>2. ASSUME NEW k \in Statements \ {"etl"}, Start(w, k, FALSE) PROVE Ages /\ Chain'
    <3>1. k \in Statements
      OBVIOUS
    <3> QED BY <1>3, <2>1, <2>2, <3>1
  <2> QED BY <1>3, <1>5, <2>1, <2>2 DEF StartScript
<1>6. ASSUME NEW w \in Callers, StatementStep(w) \/ Crash(w) PROVE Ages /\ Chain'
  BY <1>1, <1>6, StatementInLine, NothingWritten
<1>7. CASE (\E w \in Callers : JobEnds(w)) \/ LostJobEnds
  <2>1. Chain'
    BY <1>1, <1>7, WriteInLine
  <2>2. Ages
    BY <1>1, <1>7, WriteAges, Numbers DEF Ages
  <2> QED BY <2>1, <2>2
<1>8. ASSUME NEW w \in Orchestrators, SyncStep(w) PROVE Ages /\ Chain'
  BY <1>1, <1>8, SyncInLine
<1>9. ASSUME NEW w \in Writers, NarrativeStep(w) PROVE Ages /\ Chain'
  BY <1>1, <1>9, NarrativeInLine
<1>10. CASE UNCHANGED vars
  <2>1. UNCHANGED <<raw, sales, model, table, forecasts, summaries, lost, job, stage,
                    item, rows, overtaken>>
    BY <1>10 DEF vars, calls, loops, history
  <2>2. Cleaning'
    BY <1>1, <2>1 DEF Chain, Cleaning, Busy
  <2> QED BY <1>1, <2>1, <2>2, StillInLine, NothingWritten
<1> HIDE DEF LoneInv
<1> QED
  BY <1>2, <1>4, <1>5, <1>6, <1>7, <1>8, <1>9, <1>10 DEF Next

(* The versions of the artefacts of run(), from the raw sales to the       *)
(* summary, are in line as long as runs have not overlapped.               *)
THEOREM ChainInvariant == Spec => [](LoneInv /\ Chain)
<1>1. Init => Chain
  <2> SUFFICES ASSUME Init PROVE Chain
    OBVIOUS
  <2>1. Busy = {} /\ lost = {} /\ \A w \in Writers : item[w] = None
    BY DEF Init, Busy, Ended
  <2>2. /\ raw = 1 /\ sales = 0 /\ model = 0 /\ table = 0
        /\ \A p \in Products : forecasts[p] = 0 /\ summaries[p] = 0
    BY DEF Init
  <2> QED
    BY <2>1, <2>2 DEF Chain, Levels, Cleaning, Copying, Describing, Describes, Writers
<1>2. LoneInv /\ Chain /\ [Next]_vars => Chain'
  BY ChainStep
<1> QED BY <1>1, <1>2, LoneInvariant, PTL DEF Spec

(* Without overlap nothing is newer than what it is made from, for any     *)
(* number of attempts, of lost jobs, of products and of generations.       *)
THEOREM LineageHolds == Spec => []Lineage
<1>1. Chain => Lineage
  BY DEF Chain, Levels, Lineage
<1> QED BY <1>1, ChainInvariant, PTL

(* And nothing is replaced by something older, but for the summary a slow  *)
(* generation overwrites.                                                  *)
THEOREM NothingAgesHolds == Spec => NothingAges
<1>1. LoneInv /\ Chain /\ [Next]_vars => [~mixed' => Ages]_vars
  BY ChainStep
<1> QED BY <1>1, ChainInvariant, PTL DEF Spec, NothingAges, Ages

-----------------------------------------------------------------------------
(* THE AUDIT OF ITS RUNS                                                   *)


(* Where a request stands fixes what can be known of its row and its task. *)
Shape(r) ==
  /\ request[r] = "none" => row[r] = "absent" /\ task[r] = "none"
  /\ request[r] = "handled" => row[r] = "flushed" /\ task[r] = "none"
  /\ request[r] = "committed" => Early(r) /\ row[r] = "running" /\ task[r] = "none"
  /\ request[r] = "refused" =>
       task[r] = "none" /\ row[r] \in {"absent", "running"} /\ (row[r] = "running" => Early(r))
  /\ Accepted(r) => task[r] # "none"
  /\ Accepted(r) /\ Early(r) => row[r] \in Visible
  /\ request[r] = "answered" /\ ~Early(r) => row[r] = "flushed"
  /\ request[r] = "closed" /\ ~Early(r) => row[r] \in {"absent", "running"}
  /\ row[r] = "running" /\ ~Early(r) => task[r] = "ended"

(* What the task is about to write, and what it has written. *)
Verdict(r) ==
  /\ task[r] = "mark_success" => outcome[r] = "ok"
  /\ row[r] = "success" => outcome[r] = "ok"
  /\ row[r] \in Terminal => task[r] = "ended"
  /\ Early(r) /\ task[r] = "ended" => row[r] \in Terminal

RunsInv == RunsTypeOK /\ \A r \in Runs : Shape(r) /\ Verdict(r)

-----------------------------------------------------------------------------
LEMMA InitRuns == RunsInit => RunsInv
BY DEF RunsInit, RunsInv, RunsTypeOK, Shape, Verdict, Accepted, Early, Visible, Terminal

LEMMA RunsTypeStep == RunsTypeOK /\ [RunsNext]_run_vars => RunsTypeOK'
<1> SUFFICES ASSUME RunsTypeOK, [RunsNext]_run_vars PROVE RunsTypeOK'
  OBVIOUS
<1> USE DEF RunsTypeOK, Visible, Terminal
<1>1. ASSUME NEW r \in Runs, TriggerPipeline(r) PROVE RunsTypeOK'
  BY <1>1 DEF TriggerPipeline
<1>2. ASSUME NEW r \in Runs, GetDbCommits(r) PROVE RunsTypeOK'
  BY <1>2 DEF GetDbCommits, AfterDb
<1>3. ASSUME NEW r \in Runs, GetDbRollsBack(r) PROVE RunsTypeOK'
  BY <1>3 DEF GetDbRollsBack
<1>4. ASSUME NEW r \in Runs, AnswerAndStartTask(r) PROVE RunsTypeOK'
  BY <1>4 DEF AnswerAndStartTask
<1>5. ASSUME NEW r \in Runs, PipelineReturns(r) \/ PipelineRaises(r) PROVE RunsTypeOK'
  BY <1>5 DEF PipelineReturns, PipelineRaises, Move
<1>6. ASSUME NEW r \in Runs, MarkSuccess(r) \/ MarkFailed(r) PROVE RunsTypeOK'
  BY <1>6 DEF MarkSuccess, MarkFailed, SetStatus, Move
<1>7. ASSUME NEW r \in Runs, MarkSuccessRaises(r) \/ MarkFailedRaises(r) PROVE RunsTypeOK'
  BY <1>7 DEF MarkSuccessRaises, MarkFailedRaises, Move
<1>8. ASSUME NEW i \in Instances, ProcessDies(i) PROVE RunsTypeOK'
  BY <1>8 DEF ProcessDies
<1>9. CASE UNCHANGED run_vars
  BY <1>9 DEF run_vars
<1> QED
  BY <1>1, <1>2, <1>3, <1>4, <1>5, <1>6, <1>7, <1>8, <1>9 DEF RunsNext, RunStep

(* The variables keep their types in every instance. *)
THEOREM RunsTypeCorrect == RunsSpec => []RunsTypeOK
<1>1. RunsInit => RunsTypeOK
  BY DEF RunsInit, RunsTypeOK, Visible
<1> QED
  BY <1>1, RunsTypeStep, PTL DEF RunsSpec

-----------------------------------------------------------------------------
(* Every action but ProcessDies changes the state of one run only. *)
OthersUntouched(r) ==
  /\ home' = home
  /\ \A s \in Runs \ {r} :
       /\ request'[s] = request[s] /\ row'[s] = row[s]
       /\ task'[s] = task[s] /\ outcome'[s] = outcome[s]

LEMMA OneRunStep ==
  ASSUME RunsInv, RunsTypeOK', NEW r \in Runs, OthersUntouched(r), (Shape(r) /\ Verdict(r))'
  PROVE  RunsInv'
BY DEF RunsInv, OthersUntouched, Shape, Verdict, Accepted, Early

LEMMA RunsStep == RunsInv /\ [RunsNext]_run_vars => RunsInv'
<1> SUFFICES ASSUME RunsInv, [RunsNext]_run_vars PROVE RunsInv'
  OBVIOUS
<1>0. RunsTypeOK /\ RunsTypeOK'
  BY RunsTypeStep DEF RunsInv
<1>1. ASSUME NEW r \in Runs, TriggerPipeline(r) PROVE RunsInv'
  <2>1. OthersUntouched(r)
    BY <1>0, <1>1 DEF TriggerPipeline, RunsTypeOK, OthersUntouched
  <2>2. (Shape(r) /\ Verdict(r))'
    BY <1>0, <1>1 DEF RunsInv, TriggerPipeline, RunsTypeOK, Shape, Verdict, Accepted, Early, Visible, Terminal
  <2> QED
    BY <1>0, <2>1, <2>2, OneRunStep
<1>2. ASSUME NEW r \in Runs, GetDbCommits(r) PROVE RunsInv'
  <2>1. OthersUntouched(r)
    BY <1>0, <1>2 DEF GetDbCommits, RunsTypeOK, OthersUntouched
  <2>2. (Shape(r) /\ Verdict(r))'
    BY <1>0, <1>2 DEF RunsInv, GetDbCommits, CommitDue, AfterDb, RunsTypeOK, Shape, Verdict, Early,
                      Accepted, Visible, Terminal
  <2> QED
    BY <1>0, <2>1, <2>2, OneRunStep
<1>3. ASSUME NEW r \in Runs, GetDbRollsBack(r) PROVE RunsInv'
  <2>1. OthersUntouched(r)
    BY <1>0, <1>3 DEF GetDbRollsBack, RunsTypeOK, OthersUntouched
  <2>2. (Shape(r) /\ Verdict(r))'
    BY <1>0, <1>3 DEF RunsInv, GetDbRollsBack, CommitDue, RunsTypeOK, Shape, Verdict, Early,
                      Accepted, Visible, Terminal
  <2> QED
    BY <1>0, <2>1, <2>2, OneRunStep
<1>4. ASSUME NEW r \in Runs, AnswerAndStartTask(r) PROVE RunsInv'
  <2>1. OthersUntouched(r)
    BY <1>0, <1>4 DEF AnswerAndStartTask, RunsTypeOK, OthersUntouched
  <2>2. (Shape(r) /\ Verdict(r))'
    BY <1>0, <1>4 DEF RunsInv, AnswerAndStartTask, RunsTypeOK, Shape, Verdict, Early,
                      Accepted, Visible, Terminal
  <2> QED
    BY <1>0, <2>1, <2>2, OneRunStep
<1>5. ASSUME NEW r \in Runs, PipelineReturns(r) \/ PipelineRaises(r) PROVE RunsInv'
  <2>1. OthersUntouched(r)
    BY <1>0, <1>5 DEF PipelineReturns, PipelineRaises, Move, RunsTypeOK, OthersUntouched
  <2>2. (Shape(r) /\ Verdict(r))'
    BY <1>0, <1>5 DEF RunsInv, PipelineReturns, PipelineRaises, Move, RunsTypeOK, Shape, Verdict, Early,
                      Accepted, Visible, Terminal
  <2> QED
    BY <1>0, <2>1, <2>2, OneRunStep
<1>6. ASSUME NEW r \in Runs, MarkSuccess(r) \/ MarkFailed(r) PROVE RunsInv'
  <2>1. OthersUntouched(r)
    BY <1>0, <1>6 DEF MarkSuccess, MarkFailed, SetStatus, Move, RunsTypeOK, OthersUntouched
  <2>2. (Shape(r) /\ Verdict(r))'
    BY <1>0, <1>6 DEF RunsInv, MarkSuccess, MarkFailed, SetStatus, Move, RunsTypeOK, Shape, Verdict, Early,
                      Accepted, Visible, Terminal
  <2> QED
    BY <1>0, <2>1, <2>2, OneRunStep
<1>7. ASSUME NEW r \in Runs, MarkSuccessRaises(r) \/ MarkFailedRaises(r) PROVE RunsInv'
  <2>1. OthersUntouched(r)
    BY <1>0, <1>7 DEF MarkSuccessRaises, MarkFailedRaises, Move, RunsTypeOK, OthersUntouched
  <2>2. (Shape(r) /\ Verdict(r))'
    BY <1>0, <1>7 DEF RunsInv, MarkSuccessRaises, MarkFailedRaises, Move, RunsTypeOK, Shape, Verdict, Early,
                      Accepted, Visible, Terminal
  <2> QED
    BY <1>0, <2>1, <2>2, OneRunStep
<1>8. ASSUME NEW i \in Instances, ProcessDies(i) PROVE RunsInv'
  <2> SUFFICES ASSUME NEW r \in Runs PROVE (Shape(r) /\ Verdict(r))'
    BY <1>0 DEF RunsInv
  <2> QED
    BY <1>0, <1>8 DEF RunsInv, ProcessDies, TaskActive, RunsTypeOK, Shape, Verdict, Accepted, Early, Visible, Terminal
<1>9. CASE UNCHANGED run_vars
  BY <1>9 DEF run_vars, RunsInv, RunsTypeOK, Shape, Verdict, Accepted, Early
<1> QED
  BY <1>1, <1>2, <1>3, <1>4, <1>5, <1>6, <1>7, <1>8, <1>9 DEF RunsNext, RunStep

(* The inductive invariant holds in every reachable state. *)
THEOREM RunsInvariant == RunsSpec => []RunsInv
BY InitRuns, RunsStep, PTL DEF RunsSpec

(* When the commit precedes the answer: an ended run is reported, an       *)
(* accepted run is found; and a refused run never runs, in both orders.    *)
THEOREM CommitFirstKeepsTheAudit ==
  RunsSpec => [](EarlyRunIsReported /\ AcceptedRunIsFound /\ RefusedRunNeverStarts)
<1>1. RunsInv => EarlyRunIsReported /\ AcceptedRunIsFound /\ RefusedRunNeverStarts
  BY DEF RunsInv, Shape, Verdict, EarlyRunIsReported, AcceptedRunIsFound, RefusedRunNeverStarts,
         GetRunStatus, Visible, Terminal
<1> QED
  BY <1>1, RunsInvariant, PTL

(* When the answer and the task precede the commit: no run, however it     *)
(* ends, is ever reported as a success or a failure, and a row that says   *)
(* "running" is about a run that is over.                                  *)
NothingIsReported == \A r \in Runs : ~Early(r) => GetRunStatus(r) \notin Terminal

THEOREM CommitLastLosesTheOutcome == RunsSpec => [](NothingIsReported /\ RunningIsStale)
<1>1. RunsInv => NothingIsReported /\ RunningIsStale
  <2> SUFFICES ASSUME RunsInv, NEW r \in Runs, ~Early(r)
               PROVE  /\ GetRunStatus(r) \notin Terminal
                      /\ GetRunStatus(r) = "running" => task[r] = "ended"
    BY DEF NothingIsReported, RunningIsStale
  <2>1. row[r] \notin Terminal
    BY DEF RunsInv, RunsTypeOK, Shape, Accepted, Terminal
  <2> QED
    BY <2>1 DEF RunsInv, Shape, GetRunStatus, Terminal
<1> QED
  BY <1>1, RunsInvariant, PTL

(* A reported end is never revised and a found run never disappears.       *)
THEOREM ReportsAreFinal == RunsSpec => StatusIsFinal
<1>1. RunsInv /\ [RunsNext]_run_vars =>
        [\A r \in Runs :
           /\ GetRunStatus(r) \in Terminal => GetRunStatus(r)' = GetRunStatus(r)
           /\ GetRunStatus(r) = "running" => GetRunStatus(r)' # "404"]_run_vars
  <2> SUFFICES ASSUME RunsInv, [RunsNext]_run_vars, NEW r \in Runs
               PROVE  /\ GetRunStatus(r) \in Terminal => GetRunStatus(r)' = GetRunStatus(r)
                      /\ GetRunStatus(r) = "running" => GetRunStatus(r)' # "404"
    OBVIOUS
  <2> USE DEF RunsInv, RunsTypeOK, Shape, Verdict, Accepted, GetRunStatus, Visible, Terminal
  <2>1. ASSUME NEW s \in Runs, TriggerPipeline(s) \/ AnswerAndStartTask(s) \/ GetDbCommits(s)
        PROVE  row[r] \in Visible => row'[r] = row[r]
    BY <2>1 DEF TriggerPipeline, AnswerAndStartTask, GetDbCommits, CommitDue
  <2>2. ASSUME NEW s \in Runs, GetDbRollsBack(s)
        PROVE  row[r] \in Visible => row'[r] = row[r]
    BY <2>2 DEF GetDbRollsBack, CommitDue
  <2>3. ASSUME NEW s \in Runs, MarkSuccess(s) \/ MarkFailed(s)
        PROVE  row[r] \in Visible => row'[r] = row[r] \/ (row[r] = "running" /\ row'[r] \in Terminal)
    BY <2>3 DEF MarkSuccess, MarkFailed, Move, SetStatus
  <2>4. ASSUME NEW s \in Runs, PipelineReturns(s) \/ PipelineRaises(s)
                                 \/ MarkSuccessRaises(s) \/ MarkFailedRaises(s)
        PROVE  row'[r] = row[r]
    BY <2>4 DEF PipelineReturns, PipelineRaises, MarkSuccessRaises, MarkFailedRaises
  <2>5. ASSUME NEW i \in Instances, ProcessDies(i)
        PROVE  row[r] \in Visible => row'[r] = row[r]
    BY <2>5 DEF ProcessDies
  <2>6. CASE UNCHANGED run_vars
    BY <2>6 DEF run_vars
  <2>7. row[r] \in Visible => row'[r] = row[r] \/ (row[r] = "running" /\ row'[r] \in Terminal)
    BY <2>1, <2>2, <2>3, <2>4, <2>5, <2>6 DEF RunsNext, RunStep, run_vars
  <2> QED
    BY <2>7
<1> QED
  BY <1>1, RunsInvariant, PTL DEF RunsSpec, StatusIsFinal

-----------------------------------------------------------------------------
(* BOTH TOGETHER                                                           *)

(* Every step of the service is a step of run() and its surroundings, or   *)
(* none of theirs: the orchestrators of the API are callers like others.   *)
LEMMA ServiceStepsPipeline == [ServiceNext]_service_vars => [Next]_vars
<1> SUFFICES ASSUME ServiceNext PROVE Next \/ UNCHANGED vars
  BY DEF service_vars
<1> USE RunsAssumption
<1>1. ASSUME NEW r \in Runs, RequestStep(r) PROVE Next \/ UNCHANGED vars
  BY <1>1 DEF RequestStep, Next
<1>2. ASSUME NEW r \in Runs, LosesRun(r) PROVE Next
  <2>1. r \in Callers
    BY DEF Callers
  <2> QED BY <1>2, <2>1 DEF LosesRun, Next
<1>3. ASSUME NEW w \in Callers, CallerStep(w) PROVE Next
  <2>1. w \in Orchestrators => w \in Writers
    BY DEF Writers
  <2> QED BY <1>3, <2>1 DEF CallerStep, Next
<1>4. CASE WorldStep
  <2>1. \A w \in Generators : w \in Writers
    BY DEF Writers
  <2> QED BY <1>4, <2>1 DEF WorldStep, Next
<1>5. ASSUME NEW i \in Instances, GoesDown(i) \/ IsDown(i) PROVE UNCHANGED vars
  BY <1>5 DEF GoesDown, IsDown
<1> QED BY <1>1, <1>2, <1>3, <1>4, <1>5 DEF ServiceNext

(* And one of the audit: the task waits for run() as for any call.         *)
LEMMA ServiceStepsRuns == [ServiceNext]_service_vars => [RunsNext]_run_vars
<1> SUFFICES ASSUME ServiceNext PROVE RunsNext \/ UNCHANGED run_vars
  BY DEF service_vars
<1>1. ASSUME NEW r \in Runs, RequestStep(r) PROVE RunsNext
  BY <1>1 DEF RequestStep, Audit, RunsNext, RunStep
<1>2. ASSUME NEW i \in Instances, IsDown(i) PROVE RunsNext
  BY <1>2 DEF IsDown, RunsNext
<1>3. CASE \/ WorldStep
           \/ \E w \in Callers : CallerStep(w)
           \/ \E r \in Runs : LosesRun(r)
           \/ \E i \in Instances : GoesDown(i)
  BY <1>3 DEF WorldStep, CallerStep, LosesRun, GoesDown
<1> QED BY <1>1, <1>2, <1>3 DEF ServiceNext

(* So the service implements both of its parts, and what is proved of      *)
(* either holds of it.                                                     *)
THEOREM ServiceImplementsParts == ServiceSpec => Spec /\ RunsSpec
<1>1. ServiceInit => Init /\ RunsInit
  BY DEF ServiceInit
<1> QED
  BY <1>1, ServiceStepsPipeline, ServiceStepsRuns, PTL DEF ServiceSpec, Spec, RunsSpec

-----------------------------------------------------------------------------
(* run() never leaves the ETL out, and is at a later stage only after it.  *)
Begun ==
  \A w \in Orchestrators :
    /\ whole[w]
    /\ \/ stage[w] \in {"view", "train"} \cup Late
       \/ stage[w] = "etl" /\ sent[w]
       => origin[w] # 0

(* A run that ended without company has left its result, and no job that   *)
(* could undo it is under way.                                             *)
Kept ==
  \A w \in Orchestrators \cap alone : stage[w] = "done" =>
    Result(w) /\ \A j \in lost : j.kind # "etl"

PipelineInv == LoneInv /\ Begun /\ Kept

(* Where a caller gets to with one step, and from where it is done.        *)
LEMMA BegunStep ==
  ASSUME TypeOK, Waiting, Begun, [Next]_vars
  PROVE  Begun'
<1> USE KindsAssumption DEF TypeOK, Begun, Late, Statements
<1>1. CASE NewSales \/ LostJobEnds \/ UNCHANGED vars
  BY <1>1 DEF NewSales, LostJobEnds, vars, calls, history
<1>2. ASSUME NEW w \in Callers, NEW k, NEW all, w \in Orchestrators => k = "etl" /\ all,
             Start(w, k, all)
      PROVE  Begun'
  <2>1. origin' = origin /\ sent' = sent /\ (w \in Orchestrators => whole'[w] /\ stage'[w] = "etl")
    BY <1>2 DEF Start
  <2>2. \A v \in Orchestrators \ {w} : whole'[v] = whole[v] /\ stage'[v] = stage[v]
    BY <1>2 DEF Start, Callers
  <2>3. ~sent[w]
    BY <1>2 DEF Start, Waiting, Ended
  <2> QED BY <2>1, <2>2, <2>3
<1>3. ASSUME NEW w \in Orchestrators, StartRun(w) PROVE Begun'
  BY <1>2, <1>3 DEF StartRun, Callers
<1>4. ASSUME NEW w \in Scripts, StartScript(w) PROVE Begun'
  <2>1. w \in Callers /\ w \notin Orchestrators
    BY DEF Callers
  <2> QED BY <1>2, <1>4, <2>1 DEF StartScript
<1>5. ASSUME NEW w \in Callers, Submit(w) PROVE Begun'
  <2>1. /\ stage' = stage /\ whole' = whole
        /\ \A v \in Orchestrators \ {w} : sent'[v] = sent[v] /\ origin'[v] = origin[v]
        /\ stage[w] # "etl" => origin' = origin
    BY <1>5 DEF Submit, Callers
  <2>2. w \in Orchestrators /\ stage[w] = "etl" => origin'[w] # 0
    BY <1>5 DEF Submit
  <2> QED BY <2>1, <2>2
<1>6. ASSUME NEW w \in Callers, Answered(w) PROVE Begun'
  <2>1. /\ whole' = whole /\ origin' = origin /\ sent[w] /\ ~sent'[w]
        /\ stage[w] \in Statements /\ stage'[w] = After(w)
        /\ \A v \in Orchestrators \ {w} : sent'[v] = sent[v] /\ stage'[v] = stage[v]
    BY <1>6 DEF Answered, Waiting, history, Callers
  <2> QED BY <2>1
<1>7. ASSUME NEW w \in Callers, StatementRaises(w) \/ Crash(w) PROVE Begun'
  <2>1. /\ whole' = whole /\ origin' = origin /\ ~sent'[w]
        /\ stage'[w] = stage[w] \/ stage'[w] = "failed"
        /\ \A v \in Orchestrators \ {w} : sent'[v] = sent[v] /\ stage'[v] = stage[v]
    BY <1>7 DEF StatementRaises, Crash, Turn, history, Callers
  <2> QED BY <2>1
<1>8. ASSUME NEW w \in Callers, JobEnds(w) PROVE Begun'
  BY <1>8 DEF JobEnds, calls, history
<1>9. ASSUME NEW w \in Orchestrators, SyncStep(w) PROVE Begun'
  <2>1. /\ whole' = whole /\ origin' = origin /\ sent' = sent
        /\ stage[w] \in {"sync", "narratives"} /\ stage'[w] # "etl"
        /\ \A v \in Orchestrators \ {w} : stage'[v] = stage[v]
    BY <1>9 DEF SyncStep, FetchForecasts, ReplaceForecasts, SyncRaises, LoopEnds, Leave,
                calls, history, Callers
  <2> QED BY <2>1
<1>10. ASSUME NEW w \in Writers, NarrativeStep(w) PROVE Begun'
  BY <1>10 DEF NarrativeStep, ReadForecast, SaveNarrative, NarrativeRaises, Leave, calls,
               history
<1> QED
  BY <1>1, <1>3, <1>4, <1>5, <1>6, <1>7, <1>8, <1>9, <1>10 DEF Next, StatementStep

(* run() is done with the loop over the summaries only. *)
LEMMA DoneByLoop ==
  ASSUME TypeOK, Waiting, Begun, [Next]_vars, NEW w \in Orchestrators,
         stage[w] # "done", stage'[w] = "done"
  PROVE  SyncStep(w) /\ stage[w] = "narratives" /\ LoopEnds(w)
<1> USE KindsAssumption DEF TypeOK, Callers
<1>1. ASSUME NEW u \in Callers, NEW k \in Statements, NEW all, Start(u, k, all) PROVE FALSE
  BY <1>1 DEF Start, Statements
<1>2. ASSUME NEW u \in Orchestrators, StartRun(u) PROVE FALSE
  BY <1>1, <1>2 DEF StartRun, Statements
<1>3. ASSUME NEW u \in Scripts, StartScript(u) PROVE FALSE
  <2>1. u \in Callers /\ "view" \in Statements
    BY DEF Statements
  <2>2. ASSUME NEW k \in Statements \ {"etl"}, Start(u, k, FALSE) PROVE FALSE
    <3>1. k \in Statements
      OBVIOUS
    <3> QED BY <1>1, <2>1, <2>2, <3>1
  <2> QED BY <1>1, <1>3, <2>1, <2>2 DEF StartScript
<1>4. ASSUME NEW u \in Callers, Answered(u) PROVE FALSE
  <2>1. u = w
    BY <1>4 DEF Answered
  <2>2. whole[w] /\ w \notin Scripts /\ stage[w] \in Statements
    BY <1>4, <2>1 DEF Begun, Answered, Waiting
  <2>3. After(w) # "done"
    BY <2>2 DEF After, NextStage, Statements
  <2> QED BY <1>4, <2>1, <2>3 DEF Answered
<1>5. ASSUME NEW u \in Callers, Submit(u) \/ StatementRaises(u) \/ Crash(u) PROVE FALSE
  BY <1>5 DEF Submit, StatementRaises, Crash
<1>6. CASE \/ NewSales \/ LostJobEnds \/ UNCHANGED vars
           \/ \E u \in Callers : JobEnds(u)
           \/ \E u \in Writers : NarrativeStep(u)
  BY <1>6 DEF NewSales, LostJobEnds, JobEnds, NarrativeStep, ReadForecast, SaveNarrative,
              NarrativeRaises, vars, calls
<1>7. ASSUME NEW u \in Orchestrators, SyncStep(u)
      PROVE  SyncStep(w) /\ stage[w] = "narratives" /\ LoopEnds(w)
  BY <1>7 DEF SyncStep, FetchForecasts, ReplaceForecasts, SyncRaises, LoopEnds, calls
<1> QED BY <1>2, <1>3, <1>4, <1>5, <1>6, <1>7 DEF Next, StatementStep

(* A step that starts nobody, when nobody is at work.                      *)
LEMMA KeptStep ==
  ASSUME LoneInv, Begun, Kept, [Next]_vars
  PROVE  Kept'
<1> SUFFICES ASSUME NEW w \in Orchestrators, w \in alone', stage'[w] = "done"
             PROVE  Result(w)' /\ \A j \in lost' : j.kind # "etl"
  BY DEF Kept
<1> USE DEF LoneInv
<1>1. w \in alone /\ alone' = alone
  <2>1. ASSUME NEW u \in Callers, NEW k \in Statements, NEW all, Start(u, k, all)
        PROVE  FALSE
    <3>1. alone' \subseteq {u} /\ stage'[u] = k
      BY <2>1 DEF Start, TypeOK
    <3> QED BY <3>1 DEF Statements
  <2>2. ASSUME NEW u \in Orchestrators, StartRun(u) PROVE FALSE
    BY <2>1, <2>2 DEF StartRun, Callers, Statements
  <2>3. ASSUME NEW u \in Scripts, StartScript(u) PROVE FALSE
    <3>1. u \in Callers /\ "view" \in Statements
      BY DEF Callers, Statements
    <3>2. ASSUME NEW k \in Statements \ {"etl"}, Start(u, k, FALSE) PROVE FALSE
      <4>1. k \in Statements
        OBVIOUS
      <4> QED BY <2>1, <3>1, <3>2, <4>1
    <3> QED BY <2>1, <2>3, <3>1, <3>2 DEF StartScript
  <2>4. alone' = alone
    BY <2>2, <2>3 DEF Next, StatementStep, Submit, Answered, StatementRaises, Crash, JobEnds,
         LostJobEnds, NewSales, SyncStep, FetchForecasts, ReplaceForecasts, SyncRaises,
         LoopEnds, NarrativeStep, ReadForecast, SaveNarrative, NarrativeRaises, Leave, vars,
         history
  <2> QED BY <2>4
<1>2. CASE stage[w] # "done"
  <2>1. stage[w] = "narratives" /\ LoopEnds(w)
    BY <1>2, DoneByLoop
  <2>2. w \in Busy /\ Made(w) /\ origin[w] # 0
    BY <1>1, <2>1 DEF Busy, Callers, Ended, Fresh, Begun, Late
  <2>3. /\ InOrder
        /\ sales = origin[w] /\ model = sales /\ table = model
        /\ \A p \in Products : forecasts[p] = table
    BY <1>1, <2>1, <2>2, ByItself DEF Made, Late
  <2>4. \A j \in lost : j.kind # "etl"
    BY <2>1, <2>2, <2>3, BehindValues DEF InOrder, Late
  <2>5. /\ sales' = sales /\ model' = model /\ table' = table /\ forecasts' = forecasts
        /\ origin' = origin /\ lost' = lost
    BY <2>1 DEF LoopEnds, history
  <2> QED BY <2>2, <2>3, <2>4, <2>5 DEF Result
<1>3. CASE stage[w] = "done"
  <2>1. /\ origin[w] # 0 /\ sales = origin[w] /\ model = origin[w] /\ table = origin[w]
        /\ \A p \in Products : forecasts[p] = origin[w]
        /\ \A j \in lost : j.kind # "etl"
    BY <1>1, <1>3 DEF Kept, Result
  <2>2. Busy = {} /\ InOrder
    BY <1>1, <1>3 DEF Alone, Busy, Ended
  <2>3. ASSUME UNCHANGED <<sales, model, table, forecasts, origin>>, lost' \subseteq lost
        PROVE  Result(w)' /\ \A j \in lost' : j.kind # "etl"
    BY <2>1, <2>3 DEF Result
  <2>4. CASE NewSales \/ UNCHANGED vars \/ \E u \in Writers : NarrativeStep(u)
    BY <2>3, <2>4 DEF NewSales, NarrativeStep, ReadForecast, SaveNarrative, NarrativeRaises,
                      vars, history
  <2>5. CASE LostJobEnds
    <3> PICK j \in lost :
           /\ Write(j.kind, j.input) \/ UNCHANGED <<sales, view, model, table>>
           /\ lost' = lost \ {j}
           /\ UNCHANGED <<raw, job, calls, loops, forecasts, summaries, history>>
      BY <2>5 DEF LostJobEnds
    <3>1. j.kind # "etl" /\ Current(j.kind, j.input)
      BY <2>1, <2>2 DEF InOrder
    <3>2. sales' = sales /\ model' = model /\ table' = table
      BY <2>1, <3>1 DEF Write, Current
    <3> QED BY <2>3, <3>2 DEF history
  <2>6. ASSUME NEW u \in Callers, StatementStep(u) \/ Crash(u) \/ JobEnds(u) PROVE FALSE
    BY <2>2, <2>6 DEF StatementStep, Submit, Answered, StatementRaises, Crash, JobEnds,
                      Waiting, Busy, Statements, Ended
  <2>7. ASSUME NEW u \in Orchestrators, SyncStep(u) PROVE FALSE
    BY <2>2, <2>7 DEF SyncStep, FetchForecasts, ReplaceForecasts, SyncRaises, LoopEnds,
                      Busy, Callers, Ended
  <2>8. ASSUME NEW u \in Callers, NEW k \in Statements, NEW all, Start(u, k, all)
        PROVE  Result(w)' /\ \A j \in lost' : j.kind # "etl"
    BY <2>3, <2>8 DEF Start
  <2>9. ASSUME NEW u \in Orchestrators, StartRun(u)
        PROVE  Result(w)' /\ \A j \in lost' : j.kind # "etl"
    BY <2>8, <2>9 DEF StartRun, Callers, Statements
  <2>10. ASSUME NEW u \in Scripts, StartScript(u)
         PROVE  Result(w)' /\ \A j \in lost' : j.kind # "etl"
    BY <2>3, <2>10 DEF StartScript, Start
  <2> QED
    BY <2>4, <2>5, <2>6, <2>7, <2>9, <2>10 DEF Next
<1> QED BY <1>2, <1>3

(* Together they are inductive. *)
LEMMA InitPipeline == Init => PipelineInv
<1>1. Init => Begun /\ Kept
  BY DEF Init, Begun, Kept, Callers, Late
<1> QED BY <1>1, InitLone DEF PipelineInv

LEMMA PipelineStep == PipelineInv /\ [Next]_vars => PipelineInv'
<1>1. LoneInv /\ [Next]_vars => LoneInv'
  BY TypeStep, WaitingStep, AloneStep, LoopingStep, FreshStep DEF LoneInv
<1>2. LoneInv => TypeOK /\ Waiting
  BY DEF LoneInv
<1> QED BY <1>1, <1>2, BegunStep, KeptStep DEF PipelineInv

(* What a lone run leaves behind stays, for any pipeline: until another    *)
(* run starts, the raw sales of its ETL are in every artefact.             *)
THEOREM PipelineInvariant == Spec => []PipelineInv
BY InitPipeline, PipelineStep, PTL DEF Spec

-----------------------------------------------------------------------------
(* A run of the API and its orchestrator.  The orchestrator is at work only*)
(* while the task waits for it; before, nothing has been done; and the     *)
(* task takes run() for a success only when it has ended with all of it.   *)
Joined(r) ==
  /\ task[r] = "none" => stage[r] = "done" /\ origin[r] = 0 /\ outcome[r] = "unknown"
  /\ stage[r] \notin Ended => task[r] = "pipeline"
  /\ \/ task[r] = "pipeline" /\ stage[r] = "done"
     \/ outcome[r] = "ok"
     => stage[r] = "done" /\ origin[r] # 0

ServiceInv == PipelineInv /\ RunsInv /\ \A r \in Runs : Joined(r)

(* A step of the pipeline that is not the start of a run's orchestrator    *)
(* takes it nowhere but from its work to an end, which is success only     *)
(* once its ETL has been sent.                                             *)
NotStarting(r) ==
  \/ NewSales \/ LostJobEnds \/ UNCHANGED vars
  \/ \E w \in Callers : JobEnds(w) \/ StatementStep(w) \/ Crash(w)
  \/ \E w \in Orchestrators \ {r} : StartRun(w)
  \/ \E w \in Scripts : StartScript(w)
  \/ \E w \in Orchestrators : SyncStep(w)
  \/ \E w \in Writers : NarrativeStep(w)

LEMMA OrchestratorGoesOn ==
  ASSUME PipelineInv, NEW r \in Orchestrators, NotStarting(r)
  PROVE  /\ stage[r] \in Ended => stage'[r] = stage[r] /\ origin'[r] = origin[r]
         /\ stage'[r] = "done" => stage[r] = "done" \/ origin'[r] # 0
<1> USE KindsAssumption DEF PipelineInv, LoneInv, TypeOK
<1>1. ASSUME stage'[r] = "done", stage[r] # "done" PROVE origin'[r] # 0
  <2>1. stage[r] = "narratives" /\ LoopEnds(r)
    <3>1. [Next]_vars
      BY DEF NotStarting, Next
    <3> QED BY <1>1, <3>1, DoneByLoop
  <2> QED BY <2>1 DEF LoopEnds, history, Begun, Late
<1>2. ASSUME stage[r] \in Ended PROVE stage'[r] = stage[r] /\ origin'[r] = origin[r]
  <2>1. ASSUME NEW w \in Callers, NEW k, NEW all, Start(w, k, all), w # r
        PROVE  stage'[r] = stage[r] /\ origin'[r] = origin[r]
    BY <2>1 DEF Start, Callers
  <2>2. ASSUME NEW w \in Orchestrators \ {r}, StartRun(w)
        PROVE  stage'[r] = stage[r] /\ origin'[r] = origin[r]
    BY <2>1, <2>2 DEF StartRun, Callers
  <2>3. ASSUME NEW w \in Scripts, StartScript(w)
        PROVE  stage'[r] = stage[r] /\ origin'[r] = origin[r]
    <3>1. w \in Callers /\ w # r
      BY DEF Callers
    <3> QED BY <2>1, <2>3, <3>1 DEF StartScript
  <2>4. ASSUME NEW w \in Callers, StatementStep(w) \/ Crash(w)
        PROVE  stage'[r] = stage[r] /\ origin'[r] = origin[r]
    <3>1. w # r
      BY <1>2, <2>4 DEF StatementStep, Submit, Answered, StatementRaises, Crash, Waiting,
                        Statements, Ended
    <3> QED BY <2>4, <3>1 DEF StatementStep, Submit, Answered, StatementRaises, Crash,
                              history, Callers
  <2>5. ASSUME NEW w \in Orchestrators, SyncStep(w)
        PROVE  stage'[r] = stage[r] /\ origin'[r] = origin[r]
    <3>1. w # r
      BY <1>2, <2>5 DEF SyncStep, FetchForecasts, ReplaceForecasts, SyncRaises, LoopEnds,
                        Ended
    <3> QED BY <2>5, <3>1 DEF SyncStep, FetchForecasts, ReplaceForecasts, SyncRaises,
                              LoopEnds, calls, history, Callers
  <2>6. CASE \/ NewSales \/ LostJobEnds \/ UNCHANGED vars
             \/ \E w \in Callers : JobEnds(w)
             \/ \E w \in Writers : NarrativeStep(w)
    BY <2>6 DEF NewSales, LostJobEnds, JobEnds, NarrativeStep, ReadForecast, SaveNarrative,
                NarrativeRaises, vars, calls, history
  <2> QED BY <2>2, <2>3, <2>4, <2>5, <2>6 DEF NotStarting
<1> QED BY <1>1, <1>2

(* Another run's audit does not concern it.                                *)
LEMMA AuditOfOthers ==
  ASSUME RunsTypeOK, NEW r \in Runs, NEW s \in Runs, r # s,
         RunStep(s) \/ TriggerPipeline(s) \/ GetDbRollsBack(s) \/ MarkSuccessRaises(s)
           \/ MarkFailedRaises(s)
  PROVE  task'[r] = task[r] /\ outcome'[r] = outcome[r]
BY DEF RunsTypeOK, RunStep, TriggerPipeline, GetDbCommits, GetDbRollsBack,
       AnswerAndStartTask, PipelineReturns, PipelineRaises, MarkSuccess, MarkSuccessRaises,
       MarkFailed, MarkFailedRaises, Move

(* The step of a run's request or task, seen with its orchestrator.        *)
LEMMA RequestJoined ==
  ASSUME ServiceInv, NEW r \in Runs, RequestStep(r)
  PROVE  \A s \in Runs : Joined(s)'
<1> USE RunsAssumption
<1>1. TypeOK /\ RunsTypeOK /\ Joined(r) /\ Shape(r)
  BY DEF ServiceInv, PipelineInv, LoneInv, RunsInv
<1>2. Joined(r)'
  <2>1. CASE Audit(r) /\ UNCHANGED vars
    <3>1. stage' = stage /\ origin' = origin /\ outcome' = outcome
      BY <2>1 DEF Audit, TriggerPipeline, GetDbCommits, GetDbRollsBack, MarkSuccess,
                  MarkSuccessRaises, MarkFailed, MarkFailedRaises, vars, calls, history
    <3>2. \/ task' = task
          \/ task[r] \in {"mark_success", "mark_failed"} /\ task'[r] \notin {"none", "pipeline"}
      BY <1>1, <2>1 DEF Audit, TriggerPipeline, GetDbCommits, GetDbRollsBack, MarkSuccess,
                  MarkSuccessRaises, MarkFailed, MarkFailedRaises, Move, RunsTypeOK
    <3> QED BY <1>1, <3>1, <3>2 DEF Joined
  <2>2. CASE AnswerAndStartTask(r) /\ StartRun(r)
    <3>1. task[r] = "none" /\ task'[r] = "pipeline" /\ outcome' = outcome
      BY <1>1, <2>2 DEF AnswerAndStartTask, Shape, RunsTypeOK
    <3>2. stage'[r] = "etl"
      BY <1>1, <2>2 DEF StartRun, Start, TypeOK, Callers
    <3> QED BY <1>1, <3>1, <3>2 DEF Joined, Ended
  <2>3. CASE stage[r] = "done" /\ PipelineReturns(r) /\ UNCHANGED vars
    BY <1>1, <2>3 DEF PipelineReturns, Move, RunsTypeOK, Joined, vars, calls, history, Ended
  <2>4. CASE stage[r] = "failed" /\ PipelineRaises(r) /\ UNCHANGED vars
    BY <1>1, <2>4 DEF PipelineRaises, Move, RunsTypeOK, Joined, vars, calls, history, Ended
  <2> QED BY <2>1, <2>2, <2>3, <2>4 DEF RequestStep
<1>3. ASSUME NEW s \in Runs, s # r PROVE Joined(s)'
  <2>1. task'[s] = task[s] /\ outcome'[s] = outcome[s]
    BY <1>1, <1>3, AuditOfOthers DEF RequestStep, Audit, RunStep
  <2>2. stage'[s] = stage[s] /\ origin'[s] = origin[s]
    BY <1>1, <1>3 DEF RequestStep, StartRun, Start, TypeOK, Callers, vars, calls, history
  <2>3. Joined(s)
    BY DEF ServiceInv
  <2> QED BY <2>1, <2>2, <2>3 DEF Joined
<1> QED BY <1>2, <1>3

(* What happens beside the requests.                                       *)
LEMMA BesideJoined ==
  ASSUME ServiceInv, UNCHANGED run_vars, \A r \in Runs : NotStarting(r)
  PROVE  \A r \in Runs : Joined(r)'
<1> SUFFICES ASSUME NEW r \in Runs PROVE Joined(r)'
  OBVIOUS
<1>1. Joined(r) /\ r \in Orchestrators /\ PipelineInv
  BY RunsAssumption DEF ServiceInv
<1>2. /\ stage[r] \in Ended => stage'[r] = stage[r] /\ origin'[r] = origin[r]
      /\ stage'[r] = "done" => stage[r] = "done" \/ origin'[r] # 0
  BY <1>1, OrchestratorGoesOn
<1>3. task' = task /\ outcome' = outcome
  BY DEF run_vars
<1> QED BY <1>1, <1>2, <1>3 DEF Joined, Ended

(* Every step of the service keeps its runs and their orchestrators        *)
(* together.                                                               *)
LEMMA JoinedStep ==
  ServiceInv /\ [ServiceNext]_service_vars => \A r \in Runs : Joined(r)'
<1> SUFFICES ASSUME ServiceInv, [ServiceNext]_service_vars
             PROVE  \A r \in Runs : Joined(r)'
  OBVIOUS
<1> USE RunsAssumption, KindsAssumption
<1>1. ASSUME NEW r \in Runs, RequestStep(r) PROVE \A s \in Runs : Joined(s)'
  BY <1>1, RequestJoined
<1>2. CASE \E r \in Runs : LosesRun(r)
  <2>1. \A r \in Runs : r \in Callers
    BY DEF Callers
  <2> QED BY <1>2, <2>1, BesideJoined DEF LosesRun, NotStarting
<1>3. CASE \E w \in Callers : CallerStep(w)
  <2>1. \A w \in Orchestrators : w \in Writers
    BY DEF Writers
  <2> QED BY <1>3, <2>1, BesideJoined DEF CallerStep, NotStarting
<1>4. CASE WorldStep
  <2>1. \A w \in Generators : w \in Writers
    BY DEF Writers
  <2> QED BY <1>4, <2>1, BesideJoined DEF WorldStep, NotStarting
<1>5. CASE (\E i \in Instances : GoesDown(i)) \/ UNCHANGED service_vars
  BY <1>5, BesideJoined DEF GoesDown, service_vars, NotStarting
<1>6. ASSUME NEW i \in Instances, IsDown(i) PROVE \A r \in Runs : Joined(r)'
  <2> SUFFICES ASSUME NEW r \in Runs PROVE Joined(r)'
    OBVIOUS
  <2>1. Joined(r) /\ stage' = stage /\ origin' = origin /\ outcome' = outcome
    BY <1>6 DEF IsDown, ProcessDies, ServiceInv, vars, calls, history
  <2>2. \/ task'[r] = task[r]
        \/ task[r] # "none" /\ task'[r] = "killed" /\ stage[r] \in Ended
    BY <1>6 DEF IsDown, ProcessDies, TaskActive
  <2> QED BY <2>1, <2>2 DEF Joined
<1> QED BY <1>1, <1>2, <1>3, <1>4, <1>5, <1>6 DEF ServiceNext

(* The invariant of the service: those of its parts, and what ties them.   *)
THEOREM ServiceInvariant == ServiceSpec => []ServiceInv
<1>1. ServiceInit => \A r \in Runs : Joined(r)
  BY RunsAssumption DEF ServiceInit, Init, RunsInit, Joined, Callers, Ended
<1>2. ServiceInv /\ [ServiceNext]_service_vars => ServiceInv'
  <2>1. PipelineInv /\ [Next]_vars => PipelineInv'
    BY PipelineStep
  <2> QED BY <2>1, RunsStep, JoinedStep, ServiceStepsPipeline, ServiceStepsRuns DEF ServiceInv
<1>3. ServiceInit => ServiceInv
  BY <1>1, InitPipeline, InitRuns DEF ServiceInit, ServiceInv
<1> QED BY <1>2, <1>3, PTL DEF ServiceSpec

(* A reported success is the success of all of run(), and unless another   *)
(* run has started since, every artefact is of the raw sales that run has  *)
(* read: whatever failed and was repeated on the way, whatever was lost    *)
(* and ends late, whichever process died meanwhile.                        *)
THEOREM SuccessIsOfTheWholeRun == ServiceSpec => []SuccessIsEndToEnd
<1>1. ServiceInv => SuccessIsEndToEnd
  <2> SUFFICES ASSUME ServiceInv, NEW r \in Runs, GetRunStatus(r) = "success"
               PROVE  /\ stage[r] = "done" /\ origin[r] # 0
                      /\ r \in alone => Result(r)
    BY DEF SuccessIsEndToEnd
  <2>1. outcome[r] = "ok"
    BY DEF GetRunStatus, ServiceInv, RunsInv, Verdict
  <2>2. stage[r] = "done" /\ origin[r] # 0
    BY <2>1 DEF ServiceInv, Joined
  <2> QED BY <2>2, RunsAssumption DEF ServiceInv, PipelineInv, Kept
<1> QED BY <1>1, ServiceInvariant, PTL

(* A request that was refused has sent nothing to BigQuery.                *)
RefusedRunIsUnsent ==
  \A r \in Runs : request[r] = "refused" => stage[r] = "done" /\ origin[r] = 0

THEOREM RefusedRunsSendNothing == ServiceSpec => []RefusedRunIsUnsent
<1>1. ServiceInv => RefusedRunIsUnsent
  BY DEF ServiceInv, RunsInv, Shape, Joined, RefusedRunIsUnsent
<1> QED BY <1>1, ServiceInvariant, PTL

(* What the service inherits: the audit of runs whose commit comes first   *)
(* is complete, a row of the other order says "running" only of a run that *)
(* is over, no report is revised, and lone runs end with their raw sales.  *)
THEOREM ServiceKeepsTheAudit ==
  ServiceSpec => /\ [](EarlyRunIsReported /\ RunningIsStale)
                 /\ StatusIsFinal /\ LoneRunIsEndToEnd
BY ServiceImplementsParts, CommitFirstKeepsTheAudit, CommitLastLosesTheOutcome,
   ReportsAreFinal, LoneRuns, PTL
=============================================================================
