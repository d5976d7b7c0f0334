------------------------- MODULE EntityToolsProofs --------------------------
(***************************************************************************)
(* Proofs about EntityTools: what an answer says was changed, whose entity *)
(* it names, which ids count as issued, and what an update does to fields  *)
(* its caller left out.                                                    *)
(***************************************************************************)
EXTENDS EntityTools, TLAPS

Succeeded(c) == pc[c] = "return" /\ res[c].status \in {"ok", "duplicate"}

\* c has been given a client, and has not failed since.
Served(c) ==
  \/ pc[c] \in {"get", "list", "frame", "record", "boundary", "mutate",
                "lost"}
  \/ Succeeded(c) /\ Tool(c) # "whoami"

\* Whoever is served has an account and an input that was checked.
Identified ==
  \A c \in Calls :
    /\ pc[c] = "client" => InputOk(in[c])
    /\ Served(c) => /\ in[c].subject \in Subjects
                    /\ Acct(c) \in Accounts
                    /\ InputOk(in[c])

\* Only a request that is over can have changed anything.
NothingYet ==
  \A c \in Calls : pc[c] \notin {"lost", "return"} => applied[c] = 0

OnlyGetsRecord == \A c \in Calls : pc[c] = "record" => Tool(c) \in Gets

\* From its lookup on, the entity a get or an update asked for is there.
Reached(c) ==
  \/ Tool(c) \in Gets /\ (pc[c] \in {"frame", "record"} \/ Succeeded(c))
  \/ Tool(c) \in Updates /\ pc[c] \in {"boundary", "mutate"}

Targets ==
  \A c \in Calls :
    Reached(c) => Exists(Acct(c), in[c].id, ToolType[Tool(c)])

\* Nobody changes a document's content, so an update that has loaded the
\* document long ago still holds its content.
ContentHeld ==
  \A c \in Calls :
    Tool(c) = "update_document" /\ pc[c] \in {"boundary", "mutate"} =>
      held[c]["detail"] = Target(c)["detail"]

\* An entity is stored under its own id only, not under its other ones.
Canonical ==
  \A a \in Accounts, i \in Ids : store[a][i] # Absent => Alias[i] = i

\* The id a create answers is stored, a content it uploaded under that id.
CreatedIsStored ==
  \A c \in Calls : Succeeded(c) /\ Tool(c) \in Creates =>
    /\ res[c].id \in Ids /\ TypeOf[res[c].id] = ToolType[Tool(c)]
    /\ store[Acct(c)][res[c].id] # Absent
    /\ Tool(c) = "upload_document" =>
         store[Acct(c)][res[c].id]["detail"] = in[c].set["detail"]

EntityInv ==
  /\ EntityTypeOK
  /\ Identified
  /\ NothingYet
  /\ OnlyGetsRecord
  /\ Targets
  /\ ContentHeld
  /\ Canonical
  /\ CreatedIsStored
  /\ AnswersMatchEffects
  /\ IssuedMeansRead

-----------------------------------------------------------------------------
\* What an input holds, whoever sent it.
LEMMA InputsAreSensible ==
  ASSUME EntityTypeOK, NEW c \in Calls
  PROVE  in[c] \in Input /\ Sensible(in[c])
<1>1. in[c] \in Requests \cup {NoInput}
  BY DEF EntityTypeOK
<1>2. NoInput \in Input
  BY DEF NoInput, Input, Tools, Lists, Fields
<1>3. Sensible(NoInput)
  BY DEF NoInput, Sensible, BoxTools, Creates, Updates, Lists, Plain, Fields,
         Binaries
<1> QED
  BY <1>1, <1>2, <1>3, RequestsAssumption

\* The tools that must name an entity have an id.
LEMMA NamedIds ==
  ASSUME EntityTypeOK, NEW c \in Calls, InputOk(in[c])
  PROVE  /\ Tool(c) \in Gets \cup Updates \cup BoxTools => in[c].id \in Ids
         /\ Tool(c) \in BoxTools => in[c].box \in Ids
<1> USE DEF InputOk, Tool, Gets, Updates, BoxTools, Binaries, Peeks, Input
<1>1. in[c] \in Input
  BY InputsAreSensible
<1>2. CASE Tool(c) \in Updates
  BY <1>1, <1>2 DEF UpdateInputOk
<1>3. CASE Tool(c) \in Gets
  BY <1>1, <1>3 DEF BinaryInputOk, GetInputOk
<1>4. CASE Tool(c) \in BoxTools
  BY <1>1, <1>4 DEF BoxInputOk
<1> QED
  BY <1>2, <1>3, <1>4

\* A merged entity and a created one have no field left unsaid.
LEMMA PatchedIsEntity ==
  ASSUME NEW e \in Entity, NEW set \in [Fields -> Value \cup {Keep}]
  PROVE  Patched(e, set) \in Entity
  BY DEF Patched, Entity

LEMMA CreatedIsEntity ==
  ASSUME EntityTypeOK, NEW c \in Calls, Tool(c) \in Creates
  PROVE  in[c].set \in Entity
<1>1. in[c] \in Input /\ Sensible(in[c])
  BY InputsAreSensible
<1>2. in[c].set \in [Fields -> Value \cup {Keep}]
  BY <1>1 DEF Input
<1>3. \A f \in Fields : in[c].set[f] # Keep
  BY <1>1 DEF Sensible, Tool
<1> QED
  BY <1>2, <1>3 DEF Entity
-----------------------------------------------------------------------------
\* Nothing stored goes away, and no stored document's content changes.
Grows ==
  \A a \in Accounts, i \in Ids : store[a][i] # Absent =>
    /\ store'[a][i] # Absent
    /\ TypeOf[i] = "document" =>
         store'[a][i]["detail"] = store[a][i]["detail"]

\* What a change leaves behind, of whichever tool.
Changed(c) ==
  /\ Tool(c) \in Writes
  /\ Applied(c) /\ UNCHANGED books
  /\ \E i \in Ids : Say(c, "ok", i)
  /\ store' \in [Accounts -> [Ids -> Entity \cup {Absent}]]
  /\ filed' \in [Accounts -> SUBSET (Ids \X Ids)]
  /\ Grows /\ Canonical'
  /\ Tool(c) \in Creates =>
       LET i == res'[c].id IN
       /\ i \in Ids /\ TypeOf[i] = ToolType[Tool(c)]
       /\ store'[Acct(c)][i] = in[c].set

LEMMA ServedInMutate ==
  ASSUME EntityInv, NEW c \in Calls, pc[c] = "mutate"
  PROVE  /\ Acct(c) \in Accounts /\ InputOk(in[c])
         /\ in[c] \in Input /\ Sensible(in[c])
  BY InputsAreSensible DEF EntityInv, Identified, Served

LEMMA UpdateChanges ==
  ASSUME EntityInv, NEW c \in Calls, pc[c] = "mutate",
         Tool(c) \in Updates, Update(c)
  PROVE  Changed(c)
<1> DEFINE a == Acct(c)
           i == Alias[in[c].id]
           e == Patched(held[c], in[c].set)
<1>1. a \in Accounts /\ InputOk(in[c]) /\ in[c] \in Input /\ Sensible(in[c])
  BY ServedInMutate
<1>2. in[c].id \in Ids /\ i \in Ids /\ Alias[i] = i
      /\ TypeOf[i] = TypeOf[in[c].id]
  BY <1>1, NamedIds, ToolsAssumption DEF EntityInv
<1>3. Exists(a, in[c].id, ToolType[Tool(c)])
  BY DEF EntityInv, Targets, Reached
<1>4. in[c].set \in [Fields -> Value \cup {Keep}]
  BY <1>1 DEF Input
<1>5. e \in Entity
  BY <1>4, PatchedIsEntity DEF EntityInv, EntityTypeOK
<1>6. e # Absent
  BY <1>5, StoreAssumption
<1>7. store' = [store EXCEPT ![a][i] = e] /\ filed' = filed
  BY DEF Update
<1>8. store \in [Accounts -> [Ids -> Entity \cup {Absent}]]
      /\ filed \in [Accounts -> SUBSET (Ids \X Ids)]
  BY DEF EntityInv, EntityTypeOK
<1>9. store' \in [Accounts -> [Ids -> Entity \cup {Absent}]]
  BY <1>1, <1>2, <1>5, <1>7, <1>8
<1>10. TypeOf[i] = "document" => e["detail"] = store[a][i]["detail"]
  <2> SUFFICES ASSUME TypeOf[i] = "document"
               PROVE  e["detail"] = store[a][i]["detail"]
    OBVIOUS
  <2>1. Tool(c) = "update_document"
    BY <1>2, <1>3 DEF Exists, ToolType, Tools, Updates, Writes
  <2>2. held[c]["detail"] = store[a][i]["detail"]
    BY <2>1 DEF EntityInv, ContentHeld, Target
  <2>3. in[c].set["detail"] = Keep
    BY <1>1, <2>1 DEF Sensible, Tool
  <2> QED
    BY <2>2, <2>3 DEF Patched, Fields
<1>11. Grows
  BY <1>1, <1>2, <1>6, <1>7, <1>8, <1>10 DEF Grows
<1>12. Canonical'
  BY <1>1, <1>2, <1>7, <1>8 DEF EntityInv, Canonical
<1>13. Tool(c) \in Writes /\ Tool(c) \notin Creates
  BY DEF Writes, Updates, Creates
<1> QED
  BY <1>2, <1>7, <1>8, <1>9, <1>11, <1>12, <1>13 DEF Update, Changed

LEMMA CreateChanges ==
  ASSUME EntityInv, NEW c \in Calls, pc[c] = "mutate",
         Tool(c) \in Creates, Create(c)
  PROVE  Changed(c)
<1> DEFINE a == Acct(c)
           e == in[c].set
<1>1. a \in Accounts
  BY ServedInMutate
<1>2. PICK i \in Ids :
        /\ TypeOf[i] = ToolType[Tool(c)] /\ Alias[i] = i
        /\ store[a][i] = Absent
        /\ store' = [store EXCEPT ![a][i] = e]
        /\ Say(c, "ok", i)
        /\ Applied(c)
        /\ UNCHANGED <<filed, books>>
  BY DEF Create
<1>3. e \in Entity
  BY CreatedIsEntity DEF EntityInv
<1>4. e # Absent
  BY <1>3, StoreAssumption
<1>5. store \in [Accounts -> [Ids -> Entity \cup {Absent}]]
      /\ filed \in [Accounts -> SUBSET (Ids \X Ids)]
      /\ res \in [Calls -> Answer]
  BY DEF EntityInv, EntityTypeOK
<1>6. store' \in [Accounts -> [Ids -> Entity \cup {Absent}]]
  BY <1>1, <1>2, <1>3, <1>5
<1>7. Grows
  BY <1>1, <1>2, <1>5 DEF Grows
<1>8. Canonical'
  BY <1>1, <1>2, <1>5 DEF EntityInv, Canonical
<1>9. res'[c].id = i
  BY <1>2, <1>5 DEF Say, Said
<1>10. store'[a][i] = e
  BY <1>1, <1>2, <1>5
<1> QED
  BY <1>2, <1>5, <1>6, <1>7, <1>8, <1>9, <1>10 DEF Changed, Writes

LEMMA RefileChanges ==
  ASSUME EntityInv, NEW c \in Calls, pc[c] = "mutate",
         Tool(c) \in BoxTools, NEW places,
         places \in {filed[Acct(c)] \cup {InBox(c)},
                     filed[Acct(c)] \ {InBox(c)}},
         Refile(c, places)
  PROVE  Changed(c)
<1>1. Acct(c) \in Accounts /\ InputOk(in[c])
  BY ServedInMutate
<1>2. in[c].id \in Ids /\ in[c].box \in Ids
  BY <1>1, NamedIds DEF EntityInv
<1>3. InBox(c) \in Ids \X Ids
  BY <1>2, ToolsAssumption DEF InBox
<1>4. filed' \in [Accounts -> SUBSET (Ids \X Ids)]
  BY <1>1, <1>3 DEF EntityInv, EntityTypeOK, Refile
<1>5. store' = store /\ Tool(c) \notin Creates
  BY DEF Refile, BoxTools, Creates
<1>6. store' \in [Accounts -> [Ids -> Entity \cup {Absent}]] /\ Canonical'
  BY <1>5 DEF EntityInv, EntityTypeOK, Canonical
<1>7. Grows
  BY <1>5 DEF Grows
<1> QED
  BY <1>2, <1>4, <1>5, <1>6, <1>7 DEF Refile, Changed, Writes

LEMMA ChangeChanges ==
  ASSUME EntityInv, NEW c \in Calls, pc[c] = "mutate", Change(c)
  PROVE  Changed(c)
<1>1. CASE UpdateContact(c) \/ UpdateReminder(c) \/ UpdateDocument(c)
  BY <1>1, UpdateChanges
  DEF UpdateContact, UpdateReminder, UpdateDocument, Updates
<1>2. CASE CreateContact(c) \/ CreateReminder(c) \/ UploadNew(c)
  BY <1>2, CreateChanges DEF CreateContact, CreateReminder, UploadNew, Creates
<1>3. CASE AddBoxDocument(c)
  BY <1>3, RefileChanges DEF AddBoxDocument, BoxTools
<1>4. CASE RemoveBoxDocument(c)
  BY <1>4, RefileChanges DEF RemoveBoxDocument, BoxTools
<1> QED
  BY <1>1, <1>2, <1>3, <1>4 DEF Change
-----------------------------------------------------------------------------
\* What c's own steps may touch, and what they leave to the others.
OwnStep(c) ==
  \A d \in Calls \ {c} :
    /\ pc'[d] = pc[d] /\ in'[d] = in[d] /\ held'[d] = held[d]
    /\ res'[d] = res[d] /\ applied'[d] = applied[d]

\* Fail changes nothing but the answer.
LEMMA FailKeeps ==
  ASSUME EntityInv, NEW c \in Calls,
         NEW from \in {"client", "get", "list", "frame", "boundary",
                       "mutate", "lost"},
         NEW status \in {"denied", "client", "lookup", "local", "backend"},
         from = "lost" => status = "backend",
         Fail(c, from, status)
  PROVE  EntityInv'
<1> USE DEF Fail, Step, Say, Said, fileee, books
<1>0. /\ pc[c] = from /\ pc' = [pc EXCEPT ![c] = "return"]
      /\ res' = [res EXCEPT ![c] = [status |-> status, id |-> NoId]]
      /\ UNCHANGED <<in, held, applied, store, filed, issued, answered,
                     begun>>
  OBVIOUS
<1>1. EntityTypeOK'
  BY <1>0 DEF EntityInv, EntityTypeOK, Answer
<1>2. res'[c].status = status /\ pc'[c] = "return"
  BY <1>0 DEF EntityInv, EntityTypeOK
<1>3. OwnStep(c)
  BY <1>0 DEF EntityInv, EntityTypeOK, OwnStep
<1>4. Identified'
  BY <1>0, <1>2, <1>3
  DEF EntityInv, Identified, Served, Succeeded, OwnStep, Acct, Tool
<1>5. NothingYet' /\ OnlyGetsRecord'
  BY <1>0, <1>2, <1>3
  DEF EntityInv, NothingYet, OnlyGetsRecord, OwnStep, Tool
<1>6. Targets' /\ ContentHeld' /\ Canonical' /\ CreatedIsStored'
  BY <1>0, <1>2, <1>3
  DEF EntityInv, Targets, ContentHeld, Canonical, CreatedIsStored, OwnStep,
      Tool, Acct, Reached, Succeeded, Exists, Target
<1>7. AnswersMatchEffects'
  BY <1>0, <1>2, <1>3
  DEF EntityInv, NothingYet, AnswersMatchEffects, OwnStep, Tool
<1>8. IssuedMeansRead'
  BY <1>0, <1>2, <1>3
  DEF EntityInv, IssuedMeansRead, OwnStep, Tool
<1> QED
  BY <1>1, <1>4, <1>5, <1>6, <1>7, <1>8 DEF EntityInv
\* A request that is on its way to the next one.
LEMMA AdvanceKeeps ==
  ASSUME EntityInv, NEW c \in Calls,
         NEW from \in {"client", "get", "list", "frame", "boundary"},
         NEW to \in {"get", "list", "frame", "record", "boundary", "mutate"},
         Step(c, from, to),
         UNCHANGED <<in, held, res, applied, fileee, books>>,
         in[c].subject \in Subjects, Acct(c) \in Accounts, InputOk(in[c]),
         to = "record" => Tool(c) \in Gets,
         Reached(c)' => Exists(Acct(c), in[c].id, ToolType[Tool(c)]),
         Tool(c) = "update_document" /\ to \in {"boundary", "mutate"} =>
           held[c]["detail"] = Target(c)["detail"]
  PROVE  EntityInv'
<1> USE DEF Step, fileee, books
<1>0. /\ pc[c] = from /\ pc' = [pc EXCEPT ![c] = to] /\ pc'[c] = to
      /\ UNCHANGED <<in, held, res, applied, store, filed, issued, answered,
                     begun>>
  BY DEF EntityInv, EntityTypeOK
<1>1. EntityTypeOK'
  BY <1>0 DEF EntityInv, EntityTypeOK
<1>2. OwnStep(c)
  BY <1>0 DEF EntityInv, EntityTypeOK, OwnStep
<1>3. Identified'
  BY <1>0, <1>2
  DEF EntityInv, Identified, Served, Succeeded, OwnStep, Acct, Tool
<1>4. NothingYet' /\ OnlyGetsRecord'
  BY <1>0, <1>2
  DEF EntityInv, NothingYet, OnlyGetsRecord, OwnStep, Tool
<1>5. Targets'
  BY <1>0, <1>2
  DEF EntityInv, Targets, OwnStep, Tool, Acct, Reached, Succeeded, Exists
<1>6. ContentHeld' /\ Canonical' /\ CreatedIsStored'
  BY <1>0, <1>2
  DEF EntityInv, ContentHeld, Canonical, CreatedIsStored, OwnStep, Tool, Acct,
      Succeeded, Target
<1>7. AnswersMatchEffects'
  BY <1>0, <1>2 DEF EntityInv, AnswersMatchEffects, OwnStep, Tool
<1>8. IssuedMeansRead'
  BY <1>0, <1>2 DEF EntityInv, IssuedMeansRead, OwnStep, Tool
<1> QED
  BY <1>1, <1>3, <1>4, <1>5, <1>6, <1>7, <1>8 DEF EntityInv

\* A read that is answered and leaves no trace in issued.Store.
LEMMA AnswerKeeps ==
  ASSUME EntityInv, NEW c \in Calls,
         NEW from \in {"client", "list", "frame"},
         Step(c, from, "return"), Say(c, "ok", NoId),
         UNCHANGED <<in, held, applied, fileee, books>>,
         Tool(c) \in Lists \cup Peeks \cup Plain \cup {"whoami"},
         from = "client" => Tool(c) = "whoami"
  PROVE  EntityInv'
<1> USE DEF Step, Say, Said, fileee, books
<1>0. /\ pc[c] = from /\ pc' = [pc EXCEPT ![c] = "return"]
      /\ res' = [res EXCEPT ![c] = [status |-> "ok", id |-> NoId]]
      /\ UNCHANGED <<in, held, applied, store, filed, issued, answered,
                     begun>>
  OBVIOUS
<1>1. EntityTypeOK'
  BY <1>0 DEF EntityInv, EntityTypeOK, Answer
<1>2. res'[c].status = "ok" /\ pc'[c] = "return"
  BY <1>0 DEF EntityInv, EntityTypeOK
<1>3. OwnStep(c)
  BY <1>0 DEF EntityInv, EntityTypeOK, OwnStep
<1>4. Tool(c) \notin Gets \cup Updates \cup Creates \cup Writes
  BY DEF Lists, Peeks, Plain, Gets, Updates, Creates, Writes, BoxTools
<1>5. Identified'
  BY <1>0, <1>2, <1>3
  DEF EntityInv, Identified, Served, Succeeded, OwnStep, Acct, Tool
<1>6. NothingYet' /\ OnlyGetsRecord'
  BY <1>0, <1>2, <1>3
  DEF EntityInv, NothingYet, OnlyGetsRecord, OwnStep, Tool
<1>7. Targets' /\ ContentHeld' /\ Canonical' /\ CreatedIsStored'
  BY <1>0, <1>2, <1>3, <1>4
  DEF EntityInv, Targets, ContentHeld, Canonical, CreatedIsStored, OwnStep,
      Tool, Acct, Reached, Succeeded, Exists, Target
<1>8. AnswersMatchEffects'
  BY <1>0, <1>2, <1>3, <1>4
  DEF EntityInv, NothingYet, AnswersMatchEffects, OwnStep, Tool
<1>9. IssuedMeansRead'
  BY <1>0, <1>2, <1>3, <1>4 DEF EntityInv, IssuedMeansRead, OwnStep, Tool
<1> QED
  BY <1>1, <1>5, <1>6, <1>7, <1>8, <1>9 DEF EntityInv

LEMMA StartKeeps ==
  ASSUME EntityInv, NEW c \in Calls, NEW i \in Requests, Start(c, i)
  PROVE  EntityInv'
<1> USE DEF fileee
<1>0. PICK to \in {"client", "return"} :
        /\ pc[c] = "idle" /\ pc' = [pc EXCEPT ![c] = to]
        /\ in' = [in EXCEPT ![c] = i]
        /\ to = "client" => InputOk(i)
        /\ \E status \in {"none", "input"} :
             res' = [res EXCEPT ![c] = [status |-> status, id |-> NoId]]
        /\ begun < MaxCalls /\ begun' = begun + 1
        /\ UNCHANGED <<held, applied, store, filed, issued, answered>>
  BY DEF Start, Step, Say, Said
<1>1. EntityTypeOK'
  BY <1>0, StoreAssumption DEF EntityInv, EntityTypeOK, Answer
<1>2. /\ pc'[c] = to /\ in'[c] = i
      /\ res'[c].status \in {"none", "input"}
  BY <1>0 DEF EntityInv, EntityTypeOK
<1>3. OwnStep(c)
  BY <1>0 DEF EntityInv, EntityTypeOK, OwnStep
<1>4. Identified'
  BY <1>0, <1>2, <1>3
  DEF EntityInv, Identified, Served, Succeeded, OwnStep, Acct, Tool
<1>5. NothingYet' /\ OnlyGetsRecord'
  BY <1>0, <1>2, <1>3
  DEF EntityInv, NothingYet, OnlyGetsRecord, OwnStep, Tool
<1>6. Targets' /\ ContentHeld' /\ Canonical' /\ CreatedIsStored'
  BY <1>0, <1>2, <1>3
  DEF EntityInv, Targets, ContentHeld, Canonical, CreatedIsStored, OwnStep,
      Tool, Acct, Reached, Succeeded, Exists, Target
<1>7. AnswersMatchEffects'
  BY <1>0, <1>2, <1>3
  DEF EntityInv, NothingYet, AnswersMatchEffects, OwnStep, Tool
<1>8. IssuedMeansRead'
  BY <1>0, <1>2, <1>3 DEF EntityInv, IssuedMeansRead, OwnStep, Tool
<1> QED
  BY <1>1, <1>4, <1>5, <1>6, <1>7, <1>8 DEF EntityInv

LEMMA ClientForKeeps ==
  ASSUME EntityInv, NEW c \in Calls, ClientFor(c)
  PROVE  EntityInv'
<1>1. CASE /\ in[c].subject # NoSubject /\ ~Unmapped(in[c].subject)
           /\ Step(c, "client", First(Tool(c)))
           /\ UNCHANGED <<in, held, res, applied, fileee, books>>
  <2> DEFINE to == First(Tool(c))
  <2>1. in[c] \in Input /\ InputOk(in[c])
    BY <1>1, InputsAreSensible DEF EntityInv, Identified, Step
  <2>2. in[c].subject \in Subjects /\ Acct(c) \in Accounts
    BY <1>1, <2>1, ToolsAssumption DEF Input, Unmapped, Acct
  <2>3. to \in {"get", "list", "boundary", "mutate"}
    BY DEF First
  <2>4. Tool(c) \in Updates => to = "get"
    BY DEF First, Updates, Lists, Plain
  <2>5. Tool(c) \in Gets => to = "get"
    BY DEF First, Gets, Lists, Plain
  <2>6. pc'[c] = to /\ Tool(c)' = Tool(c)
    BY <1>1 DEF EntityInv, EntityTypeOK, Step, Tool
  <2>7. ~Reached(c)'
    BY <2>3, <2>4, <2>5, <2>6 DEF Reached, Succeeded
  <2>8. Tool(c) = "update_document" => to \notin {"boundary", "mutate"}
    BY <2>4 DEF Updates
  <2> QED
    BY <1>1, <2>1, <2>2, <2>3, <2>7, <2>8, AdvanceKeeps
<1>2. CASE Fail(c, "client", "denied") \/ Fail(c, "client", "client")
  BY <1>2, FailKeeps
<1> QED
  BY <1>1, <1>2 DEF ClientFor

LEMMA WhoamiKeeps ==
  ASSUME EntityInv, NEW c \in Calls, Whoami(c)
  PROVE  EntityInv'
<1>1. CASE Fail(c, "client", "client")
  BY <1>1, FailKeeps
<1> QED
  BY <1>1, AnswerKeeps DEF Whoami
\* A lookup that finds its entity, of a tool that does not patch it.
LEMMA FoundKeeps ==
  ASSUME EntityInv, NEW c \in Calls, NEW to \in {"frame", "record"},
         Found(c, to), UNCHANGED held, Tool(c) \in Gets \cup Peeks,
         to = "record" => Tool(c) \in Gets
  PROVE  EntityInv'
<1>1. /\ Step(c, "get", to)
      /\ UNCHANGED <<in, held, res, applied, fileee, books>>
      /\ pc[c] = "get"
  BY DEF Found
<1>2. in[c].subject \in Subjects /\ Acct(c) \in Accounts /\ InputOk(in[c])
  BY <1>1 DEF EntityInv, Identified, Served
<1>3. Exists(Acct(c), in[c].id, ToolType[Tool(c)])
  BY DEF Found
<1> QED
  BY <1>1, <1>2, <1>3, AdvanceKeeps

\* An update that has loaded its entity holds it as it is now.
LEMMA GetForUpdateKeeps ==
  ASSUME EntityInv, NEW c \in Calls, GetForUpdate(c)
  PROVE  EntityInv'
<1> USE DEF Step, fileee, books
<1>0. /\ pc[c] = "get" /\ pc' = [pc EXCEPT ![c] = "boundary"]
      /\ held' = [held EXCEPT ![c] = Target(c)]
      /\ Tool(c) \in Updates
      /\ Exists(Acct(c), in[c].id, ToolType[Tool(c)])
      /\ UNCHANGED <<in, res, applied, store, filed, issued, answered, begun>>
  BY DEF GetForUpdate, Found, Target
<1>1. in[c].subject \in Subjects /\ Acct(c) \in Accounts /\ InputOk(in[c])
  BY <1>0 DEF EntityInv, Identified, Served
<1>2. in[c].id \in Ids /\ Alias[in[c].id] \in Ids
  BY <1>0, <1>1, NamedIds, ToolsAssumption DEF EntityInv
<1>3. Target(c) \in Entity
  BY <1>0, <1>1, <1>2 DEF EntityInv, EntityTypeOK, Target, Exists
<1>4. EntityTypeOK'
  BY <1>0, <1>3 DEF EntityInv, EntityTypeOK
<1>5. pc'[c] = "boundary" /\ held'[c] = Target(c)
  BY <1>0 DEF EntityInv, EntityTypeOK
<1>6. OwnStep(c)
  BY <1>0 DEF EntityInv, EntityTypeOK, OwnStep
<1>7. Identified'
  BY <1>0, <1>1, <1>5, <1>6
  DEF EntityInv, Identified, Served, Succeeded, OwnStep, Acct, Tool
<1>8. NothingYet' /\ OnlyGetsRecord'
  BY <1>0, <1>5, <1>6
  DEF EntityInv, NothingYet, OnlyGetsRecord, OwnStep, Tool
<1>9. Targets'
  BY <1>0, <1>5, <1>6
  DEF EntityInv, Targets, OwnStep, Tool, Acct, Reached, Succeeded, Exists
<1>10. ContentHeld'
  <2>1. \A d \in Calls : Target(d)' = Target(d) /\ Tool(d)' = Tool(d)
    BY <1>0 DEF Target, Acct, Tool
  <2> QED
    BY <1>0, <1>5, <1>6, <2>1 DEF EntityInv, ContentHeld, OwnStep
<1>11. Canonical' /\ CreatedIsStored'
  BY <1>0, <1>5, <1>6
  DEF EntityInv, Canonical, CreatedIsStored, OwnStep, Tool, Acct, Succeeded
<1>12. AnswersMatchEffects'
  BY <1>0, <1>5, <1>6 DEF EntityInv, AnswersMatchEffects, OwnStep, Tool
<1>13. IssuedMeansRead'
  BY <1>0, <1>5, <1>6 DEF EntityInv, IssuedMeansRead, OwnStep, Tool
<1> QED
  BY <1>4, <1>7, <1>8, <1>9, <1>10, <1>11, <1>12, <1>13 DEF EntityInv

LEMMA GetKeeps ==
  ASSUME EntityInv, NEW c \in Calls, Get(c)
  PROVE  EntityInv'
<1>1. CASE GetForUpdate(c)
  BY <1>1, GetForUpdateKeeps
<1>2. CASE GetFromService(c) \/ DocumentFromService(c)
             \/ DocumentPDFFromService(c)
  BY <1>2, FoundKeeps
  DEF GetFromService, DocumentFromService, DocumentPDFFromService, Gets
<1>3. CASE DocumentConversationsFromService(c)
             \/ DocumentPageOCRFromService(c) \/ DocumentPageImageFromService(c)
  <2>1. Tool(c) \in Peeks /\ Found(c, "frame") /\ UNCHANGED held
    BY <1>3
    DEF DocumentConversationsFromService, DocumentPageOCRFromService,
        DocumentPageImageFromService, Peeks
  <2> QED
    BY <2>1, FoundKeeps
<1>4. CASE BoxFromService(c)
  BY <1>4, FoundKeeps DEF BoxFromService, Gets
<1>5. CASE Fail(c, "get", "lookup")
  BY <1>5, FailKeeps
<1> QED
  BY <1>1, <1>2, <1>3, <1>4, <1>5 DEF Get

LEMMA ListKeeps ==
  ASSUME EntityInv, NEW c \in Calls, List(c)
  PROVE  EntityInv'
<1>1. CASE ListFromService(c)
  <2>1. /\ Tool(c) \in Lists /\ Step(c, "list", "frame")
        /\ UNCHANGED <<in, held, res, applied, fileee, books>>
    BY <1>1 DEF ListFromService
  <2>2. in[c].subject \in Subjects /\ Acct(c) \in Accounts /\ InputOk(in[c])
    BY <2>1 DEF EntityInv, Identified, Served, Step
  <2>3. Tool(c) \notin Gets \cup Updates /\ Tool(c)' = Tool(c)
    BY <2>1 DEF Lists, Gets, Updates, Tool
  <2>4. ~Reached(c)'
    BY <2>3 DEF Reached
  <2> QED
    BY <2>1, <2>2, <2>4, AdvanceKeeps
<1>2. CASE SearchDocuments(c) \/ AccountStatusFromService(c)
  BY <1>2, AnswerKeeps
  DEF SearchDocuments, AccountStatusFromService, Plainly, Plain
<1>3. CASE Fail(c, "list", "lookup")
  BY <1>3, FailKeeps
<1> QED
  BY <1>1, <1>2, <1>3 DEF List

LEMMA FrameKeeps ==
  ASSUME EntityInv, NEW c \in Calls, Frame(c)
  PROVE  EntityInv'
<1>1. CASE /\ Tool(c) \in Gets /\ Step(c, "frame", "record")
           /\ UNCHANGED <<in, held, res, applied, fileee, books>>
  <2>1. in[c].subject \in Subjects /\ Acct(c) \in Accounts /\ InputOk(in[c])
    BY <1>1 DEF EntityInv, Identified, Served, Step
  <2>2. Exists(Acct(c), in[c].id, ToolType[Tool(c)])
    BY <1>1 DEF EntityInv, Targets, Reached, Step
  <2> QED
    BY <1>1, <2>1, <2>2, AdvanceKeeps
<1>2. CASE /\ Tool(c) \in Lists \cup Peeks
           /\ Step(c, "frame", "return") /\ Say(c, "ok", NoId)
           /\ UNCHANGED <<in, held, applied, fileee, books>>
  BY <1>2, AnswerKeeps
<1>3. CASE Fail(c, "frame", "local")
  BY <1>3, FailKeeps
<1> QED
  BY <1>1, <1>2, <1>3 DEF Frame

LEMMA BoundaryKeeps ==
  ASSUME EntityInv, NEW c \in Calls, Boundary(c)
  PROVE  EntityInv'
<1>1. CASE /\ Step(c, "boundary", "mutate")
           /\ UNCHANGED <<in, held, res, applied, fileee, books>>
  <2>1. in[c].subject \in Subjects /\ Acct(c) \in Accounts /\ InputOk(in[c])
    BY <1>1 DEF EntityInv, Identified, Served, Step
  <2>2. pc'[c] = "mutate" /\ Tool(c)' = Tool(c) /\ pc[c] = "boundary"
    BY <1>1 DEF EntityInv, EntityTypeOK, Step, Tool
  <2>3. Reached(c)' => Exists(Acct(c), in[c].id, ToolType[Tool(c)])
    BY <2>2 DEF EntityInv, Targets, Reached, Succeeded
  <2>4. Tool(c) = "update_document" => held[c]["detail"] = Target(c)["detail"]
    BY <2>2 DEF EntityInv, ContentHeld
  <2> QED
    BY <1>1, <2>1, <2>3, <2>4, AdvanceKeeps
<1>2. CASE Fail(c, "boundary", "local")
  BY <1>2, FailKeeps
<1> QED
  BY <1>1, <1>2 DEF Boundary
\* The id a get records is one whose entity it has just read.
LEMMA RecordKeeps ==
  ASSUME EntityInv, NEW c \in Calls, Record(c)
  PROVE  EntityInv'
<1> USE DEF Step, Say, Said, fileee
<1> DEFINE p == <<in[c].subject, in[c].id>>
<1>0. /\ pc[c] = "record" /\ pc' = [pc EXCEPT ![c] = "return"]
      /\ res' = [res EXCEPT ![c] = [status |-> "ok",
                                    id |-> Alias[in[c].id]]]
      /\ issued' = issued \cup {p}
      /\ UNCHANGED <<in, held, applied, store, filed, answered, begun>>
  BY DEF Record, Recorded
<1>1. /\ in[c].subject \in Subjects /\ Acct(c) \in Accounts /\ InputOk(in[c])
      /\ Tool(c) \in Gets
      /\ Exists(Acct(c), in[c].id, ToolType[Tool(c)])
  BY <1>0 DEF EntityInv, Identified, Served, OnlyGetsRecord, Targets, Reached
<1>2. in[c].id \in Ids /\ Alias[in[c].id] \in Ids
  BY <1>1, NamedIds, ToolsAssumption DEF EntityInv
<1>3. EntityTypeOK'
  BY <1>0, <1>1, <1>2 DEF EntityInv, EntityTypeOK, Answer
<1>4. res'[c].status = "ok" /\ pc'[c] = "return"
  BY <1>0 DEF EntityInv, EntityTypeOK
<1>5. OwnStep(c)
  BY <1>0 DEF EntityInv, EntityTypeOK, OwnStep
<1>6. Tool(c) \notin Updates \cup Creates \cup Writes
  BY <1>1 DEF Gets, Updates, Creates, Writes, BoxTools
<1>7. Identified'
  BY <1>0, <1>1, <1>4, <1>5
  DEF EntityInv, Identified, Served, Succeeded, OwnStep, Acct, Tool
<1>8. NothingYet' /\ OnlyGetsRecord'
  BY <1>0, <1>4, <1>5
  DEF EntityInv, NothingYet, OnlyGetsRecord, OwnStep, Tool
<1>9. Targets'
  BY <1>0, <1>1, <1>4, <1>5
  DEF EntityInv, Targets, OwnStep, Tool, Acct, Reached, Succeeded, Exists
<1>10. ContentHeld' /\ Canonical' /\ CreatedIsStored'
  BY <1>0, <1>4, <1>5, <1>6
  DEF EntityInv, ContentHeld, Canonical, CreatedIsStored, OwnStep, Tool, Acct,
      Succeeded, Target
<1>11. AnswersMatchEffects'
  BY <1>0, <1>4, <1>5, <1>6
  DEF EntityInv, NothingYet, AnswersMatchEffects, OwnStep, Tool
<1>12. IssuedMeansRead'
  <2>1. \A q \in Subjects \X Ids : q \in issued' <=>
          \/ q \in answered'
          \/ \E d \in Calls : /\ pc'[d] = "return" /\ res'[d].status = "ok"
                              /\ Tool(d) \in Gets
                              /\ q = <<in[d].subject, in[d].id>>
    BY <1>0, <1>1, <1>4, <1>5 DEF EntityInv, IssuedMeansRead, OwnStep
  <2>2. /\ AccountOf[in[c].subject] # NoAccount
        /\ store[AccountOf[in[c].subject]][Alias[in[c].id]] # Absent
    BY <1>1, ToolsAssumption DEF Acct, Exists
  <2>3. p[1] = in[c].subject /\ p[2] = in[c].id
    OBVIOUS
  <2>4. \A q \in issued' : /\ AccountOf[q[1]] # NoAccount
                           /\ store[AccountOf[q[1]]][Alias[q[2]]] # Absent
    BY <1>0, <2>2, <2>3 DEF EntityInv, IssuedMeansRead
  <2> QED
    BY <1>0, <2>1, <2>4 DEF IssuedMeansRead, Tool
<1> QED
  BY <1>3, <1>7, <1>8, <1>9, <1>10, <1>11, <1>12 DEF EntityInv

\* What a get recorded counts as answered when its answer is.
LEMMA ReturnKeeps ==
  ASSUME EntityInv, NEW c \in Calls, Return(c)
  PROVE  EntityInv'
<1> USE DEF Step, Say, Said, fileee
<1> DEFINE p == <<in[c].subject, in[c].id>>
           read == Tool(c) \in Gets /\ res[c].status = "ok"
<1>0. /\ pc[c] = "return" /\ pc' = [pc EXCEPT ![c] = "idle"]
      /\ in' = [in EXCEPT ![c] = NoInput]
      /\ held' = [held EXCEPT ![c] = New]
      /\ applied' = [applied EXCEPT ![c] = 0]
      /\ res' = [res EXCEPT ![c] = [status |-> "none", id |-> NoId]]
      /\ answered' = IF read THEN answered \cup {p} ELSE answered
      /\ UNCHANGED <<store, filed, issued, begun>>
  BY DEF Return
<1>1. read => p \in Subjects \X Ids
  <2> SUFFICES ASSUME read PROVE p \in Subjects \X Ids
    OBVIOUS
  <2>1. Served(c)
    BY <1>0 DEF Served, Succeeded, Gets
  <2>2. in[c].subject \in Subjects /\ InputOk(in[c])
    BY <2>1 DEF EntityInv, Identified
  <2> QED
    BY <2>2, NamedIds DEF EntityInv
<1>2. New \in Entity
  BY DEF New, Entity, Value
<1>3. EntityTypeOK'
  BY <1>0, <1>1, <1>2 DEF EntityInv, EntityTypeOK, Answer
<1>4. /\ pc'[c] = "idle" /\ res'[c].status = "none" /\ applied'[c] = 0
  BY <1>0 DEF EntityInv, EntityTypeOK
<1>5. OwnStep(c)
  BY <1>0 DEF EntityInv, EntityTypeOK, OwnStep
<1>6. Identified'
  BY <1>0, <1>4, <1>5
  DEF EntityInv, Identified, Served, Succeeded, OwnStep, Acct, Tool
<1>7. NothingYet' /\ OnlyGetsRecord'
  BY <1>0, <1>4, <1>5
  DEF EntityInv, NothingYet, OnlyGetsRecord, OwnStep, Tool
<1>8. Targets' /\ ContentHeld' /\ Canonical' /\ CreatedIsStored'
  BY <1>0, <1>4, <1>5
  DEF EntityInv, Targets, ContentHeld, Canonical, CreatedIsStored, OwnStep,
      Tool, Acct, Reached, Succeeded, Exists, Target
<1>9. AnswersMatchEffects'
  BY <1>0, <1>4, <1>5 DEF EntityInv, AnswersMatchEffects, OwnStep, Tool
<1>10. IssuedMeansRead'
  <2>1. \A q \in Subjects \X Ids : q \in issued' <=>
          \/ q \in answered'
          \/ \E d \in Calls : /\ pc'[d] = "return" /\ res'[d].status = "ok"
                              /\ Tool(d)' \in Gets
                              /\ q = <<in'[d].subject, in'[d].id>>
    BY <1>0, <1>4, <1>5 DEF EntityInv, IssuedMeansRead, OwnStep, Tool
  <2> QED
    BY <1>0, <2>1 DEF EntityInv, IssuedMeansRead
<1> QED
  BY <1>3, <1>6, <1>7, <1>8, <1>9, <1>10 DEF EntityInv
\* A request Fileee carries out, whether or not its answer arrives.
LEMMA ChangeKeeps ==
  ASSUME EntityInv, NEW c \in Calls, NEW to \in {"return", "lost"},
         Step(c, "mutate", to), Change(c), UNCHANGED <<in, held>>
  PROVE  EntityInv'
<1>1. Changed(c) /\ pc[c] = "mutate" /\ pc' = [pc EXCEPT ![c] = to]
  BY ChangeChanges DEF Step
<1>2. PICK i \in Ids : res' = [res EXCEPT ![c] = [status |-> "ok", id |-> i]]
  BY <1>1 DEF Changed, Say, Said
<1>3. applied' = [applied EXCEPT ![c] = @ + 1] /\ applied[c] = 0
      /\ UNCHANGED <<in, held, issued, answered, begun>>
  BY <1>1 DEF Changed, Applied, books, EntityInv, NothingYet
<1>4. /\ Tool(c) \in Writes /\ Tool(c) \notin Gets
      /\ in[c].subject \in Subjects /\ Acct(c) \in Accounts /\ InputOk(in[c])
  <2>1. Tool(c) \in Writes
    BY <1>1 DEF Changed
  <2>2. Tool(c) \notin Gets
    BY <2>1 DEF Gets, Writes, Updates, Creates, BoxTools
  <2> QED
    BY <1>1, <2>1, <2>2 DEF EntityInv, Identified, Served
<1>5. EntityTypeOK'
  BY <1>1, <1>2, <1>3 DEF EntityInv, EntityTypeOK, Changed, Answer
<1>6. /\ pc'[c] = to /\ res'[c].status = "ok" /\ res'[c].id = i
      /\ applied'[c] = 1
  BY <1>1, <1>2, <1>3 DEF EntityInv, EntityTypeOK
<1>7. OwnStep(c)
  BY <1>1, <1>2, <1>3 DEF EntityInv, EntityTypeOK, OwnStep
<1>8. \A d \in Calls : Tool(d)' = Tool(d) /\ Acct(d)' = Acct(d)
  BY <1>3 DEF Tool, Acct
<1>9. Identified'
  BY <1>1, <1>3, <1>4, <1>6, <1>7, <1>8
  DEF EntityInv, Identified, Served, Succeeded, OwnStep
<1>10. NothingYet' /\ OnlyGetsRecord'
  BY <1>6, <1>7, <1>8 DEF EntityInv, NothingYet, OnlyGetsRecord, OwnStep
<1>11. \A d \in Calls : Reached(d)' => d # c /\ Reached(d)
  BY <1>4, <1>6, <1>7, <1>8 DEF Reached, Succeeded, OwnStep
<1>12. \A d \in Calls : Reached(d) =>
         /\ Acct(d) \in Accounts /\ in[d].id \in Ids /\ Alias[in[d].id] \in Ids
  <2> SUFFICES ASSUME NEW d \in Calls, Reached(d)
               PROVE  /\ Acct(d) \in Accounts /\ in[d].id \in Ids
                      /\ Alias[in[d].id] \in Ids
    OBVIOUS
  <2>1. Served(d)
    BY DEF Reached, Served, Succeeded, Gets
  <2>2. Acct(d) \in Accounts /\ InputOk(in[d])
    BY <2>1 DEF EntityInv, Identified
  <2>3. Tool(d) \in Gets \cup Updates
    BY DEF Reached
  <2> QED
    BY <2>2, <2>3, NamedIds, ToolsAssumption DEF EntityInv
<1>13. Grows /\ Canonical'
  BY <1>1 DEF Changed
<1>14. Targets'
  BY <1>3, <1>8, <1>11, <1>12, <1>13
  DEF EntityInv, Targets, Exists, Grows
<1>15. ContentHeld'
  <2> SUFFICES ASSUME NEW d \in Calls, Tool(d)' = "update_document",
                      pc'[d] \in {"boundary", "mutate"}
               PROVE  held'[d]["detail"] = (Target(d)["detail"])'
    BY DEF ContentHeld
  <2>1. d # c /\ pc[d] = pc'[d] /\ Tool(d) = "update_document"
    BY <1>6, <1>7, <1>8 DEF OwnStep
  <2>2. Reached(d)
    BY <2>1 DEF Reached, Updates
  <2>3. Exists(Acct(d), in[d].id, ToolType[Tool(d)])
        /\ held[d]["detail"] = Target(d)["detail"]
    BY <2>1, <2>2 DEF EntityInv, Targets, ContentHeld
  <2>4. ToolType[Tool(d)] = "document"
    BY <2>1 DEF ToolType, Tools, Writes, Updates
  <2>5. TypeOf[Alias[in[d].id]] = "document"
    BY <1>12, <2>2, <2>3, <2>4, ToolsAssumption DEF Exists
  <2> QED
    BY <1>3, <1>8, <1>12, <1>13, <2>1, <2>2, <2>3, <2>5
    DEF Target, Grows, Exists
<1>16. CreatedIsStored'
  <2> SUFFICES ASSUME NEW d \in Calls, Succeeded(d)', Tool(d) \in Creates
               PROVE  LET j == res'[d].id IN
                      /\ j \in Ids /\ TypeOf[j] = ToolType[Tool(d)]
                      /\ store'[Acct(d)][j] # Absent
                      /\ Tool(d) = "upload_document" =>
                           store'[Acct(d)][j]["detail"] = in[d].set["detail"]
    BY <1>3, <1>8 DEF CreatedIsStored
  <2>1. CASE d = c
    <3>1. in[c].set # Absent
      BY <2>1, CreatedIsEntity, StoreAssumption DEF EntityInv
    <3> QED
      BY <1>1, <2>1, <3>1 DEF Changed
  <2>2. CASE d # c
    <3>1. Succeeded(d) /\ res'[d] = res[d]
      BY <1>7, <2>2 DEF Succeeded, OwnStep
    <3>2. Acct(d) \in Accounts
      BY <3>1 DEF EntityInv, Identified, Served, Creates
    <3>3. Tool(d) = "upload_document" => ToolType[Tool(d)] = "document"
      BY DEF ToolType, Tools, Writes, Creates
    <3> QED
      BY <1>13, <3>1, <3>2, <3>3 DEF EntityInv, CreatedIsStored, Grows
  <2> QED
    BY <2>1, <2>2
<1>17. AnswersMatchEffects'
  BY <1>4, <1>6, <1>7, <1>8 DEF EntityInv, AnswersMatchEffects, OwnStep
<1>18. IssuedMeansRead'
  <2>1. \A q \in Subjects \X Ids : q \in issued <=>
          \/ q \in answered
          \/ \E d \in Calls : /\ pc'[d] = "return" /\ res'[d].status = "ok"
                              /\ Tool(d) \in Gets
                              /\ q = <<in[d].subject, in[d].id>>
    BY <1>1, <1>4, <1>6, <1>7 DEF EntityInv, IssuedMeansRead, OwnStep
  <2>2. \A q \in issued : /\ AccountOf[q[1]] # NoAccount
                          /\ store'[AccountOf[q[1]]][Alias[q[2]]] # Absent
    <3> SUFFICES ASSUME NEW q \in issued
                 PROVE  /\ AccountOf[q[1]] # NoAccount
                        /\ store'[AccountOf[q[1]]][Alias[q[2]]] # Absent
      OBVIOUS
    <3>1. q[1] \in Subjects /\ q[2] \in Ids
      BY DEF EntityInv, EntityTypeOK
    <3>2. /\ AccountOf[q[1]] # NoAccount
          /\ store[AccountOf[q[1]]][Alias[q[2]]] # Absent
      BY DEF EntityInv, IssuedMeansRead
    <3>3. AccountOf[q[1]] \in Accounts /\ Alias[q[2]] \in Ids
      BY <3>1, <3>2, ToolsAssumption
    <3> QED
      BY <1>13, <3>2, <3>3 DEF Grows
  <2> QED
    BY <1>3, <1>8, <2>1, <2>2 DEF IssuedMeansRead
<1> QED
  BY <1>5, <1>9, <1>10, <1>13, <1>14, <1>15, <1>16, <1>17, <1>18
  DEF EntityInv
\* A duplicate names the document that holds the content already.
LEMMA DuplicateKeeps ==
  ASSUME EntityInv, NEW c \in Calls, Step(c, "mutate", "return"),
         UploadDuplicate(c), UNCHANGED <<in, held>>
  PROVE  EntityInv'
<1> USE DEF fileee, books
<1>1. PICK i \in Copies(Acct(c), in[c].set["detail"]) : Say(c, "duplicate", i)
  BY DEF UploadDuplicate
<1>2. /\ i \in Ids /\ TypeOf[i] = "document" /\ store[Acct(c)][i] # Absent
      /\ store[Acct(c)][i]["detail"] = in[c].set["detail"]
  BY DEF Copies
<1>3. /\ pc[c] = "mutate" /\ pc' = [pc EXCEPT ![c] = "return"]
      /\ res' = [res EXCEPT ![c] = [status |-> "duplicate", id |-> i]]
      /\ Tool(c) = "upload_document"
      /\ UNCHANGED <<in, held, applied, store, filed, issued, answered,
                     begun>>
  BY <1>1 DEF Step, Say, Said, UploadDuplicate
<1>4. in[c].subject \in Subjects /\ Acct(c) \in Accounts /\ InputOk(in[c])
  BY <1>3 DEF EntityInv, Identified, Served
<1>5. ToolType[Tool(c)] = "document" /\ Tool(c) \notin Gets \cup Updates
  BY <1>3 DEF ToolType, Tools, Writes, Creates, Gets, Updates
<1>6. EntityTypeOK'
  BY <1>2, <1>3 DEF EntityInv, EntityTypeOK, Answer
<1>7. pc'[c] = "return" /\ res'[c].status = "duplicate" /\ res'[c].id = i
  BY <1>3 DEF EntityInv, EntityTypeOK
<1>8. OwnStep(c)
  BY <1>3 DEF EntityInv, EntityTypeOK, OwnStep
<1>9. Identified'
  BY <1>3, <1>4, <1>7, <1>8
  DEF EntityInv, Identified, Served, Succeeded, OwnStep, Acct, Tool
<1>10. NothingYet' /\ OnlyGetsRecord'
  BY <1>3, <1>7, <1>8
  DEF EntityInv, NothingYet, OnlyGetsRecord, OwnStep, Tool
<1>11. Targets' /\ ContentHeld' /\ Canonical'
  BY <1>3, <1>5, <1>7, <1>8
  DEF EntityInv, Targets, ContentHeld, Canonical, OwnStep, Tool, Acct, Reached,
      Succeeded, Exists, Target
<1>12. CreatedIsStored'
  BY <1>2, <1>3, <1>5, <1>7, <1>8
  DEF EntityInv, CreatedIsStored, OwnStep, Tool, Acct, Succeeded
<1>13. AnswersMatchEffects'
  BY <1>3, <1>7, <1>8
  DEF EntityInv, NothingYet, AnswersMatchEffects, OwnStep, Tool
<1>14. IssuedMeansRead'
  BY <1>3, <1>7, <1>8 DEF EntityInv, IssuedMeansRead, OwnStep, Tool
<1> QED
  BY <1>6, <1>9, <1>10, <1>11, <1>12, <1>13, <1>14 DEF EntityInv

LEMMA MutateKeeps ==
  ASSUME EntityInv, NEW c \in Calls, Mutate(c)
  PROVE  EntityInv'
<1>1. CASE Step(c, "mutate", "return") /\ Change(c) /\ UNCHANGED <<in, held>>
  BY <1>1, ChangeKeeps
<1>2. CASE /\ Step(c, "mutate", "return") /\ UploadDuplicate(c)
           /\ UNCHANGED <<in, held>>
  BY <1>2, DuplicateKeeps
<1>3. CASE Step(c, "mutate", "lost") /\ Change(c) /\ UNCHANGED <<in, held>>
  BY <1>3, ChangeKeeps
<1>4. CASE Fail(c, "mutate", "backend")
  BY <1>4, FailKeeps
<1> QED
  BY <1>1, <1>2, <1>3, <1>4 DEF Mutate

-----------------------------------------------------------------------------
LEMMA InvInit == Init => EntityInv
<1> SUFFICES ASSUME Init PROVE EntityInv
  OBVIOUS
<1>1. EntityTypeOK
  <2>1. New \in Entity /\ Pending \in Answer
    BY DEF New, Entity, Value, Pending, Answer
  <2>2. store \in [Accounts -> [Ids -> Entity \cup {Absent}]]
    BY StoreAssumption DEF Init
  <2> QED
    BY <2>1, <2>2, StoreAssumption DEF Init, EntityTypeOK
<1>2. \A a \in Accounts, i \in Ids : store[a][i] # Absent => Alias[i] = i
  BY ToolsAssumption DEF Init
<1>3. \A c \in Calls : pc[c] = "idle" /\ applied[c] = 0
  BY DEF Init
<1> QED
  BY <1>1, <1>2, <1>3
  DEF Init, EntityInv, Identified, Served, Succeeded, NothingYet,
      OnlyGetsRecord, Targets, Reached, ContentHeld, Canonical,
      CreatedIsStored, AnswersMatchEffects, IssuedMeansRead

LEMMA InvNext == EntityInv /\ [Next]_vars => EntityInv'
<1> SUFFICES ASSUME EntityInv, [Next]_vars PROVE EntityInv'
  OBVIOUS
<1>1. ASSUME NEW c \in Calls, CallStep(c)
      PROVE  EntityInv'
  <2>1. CASE \E i \in Requests : Start(c, i)
    BY <2>1, StartKeeps
  <2>2. CASE ClientFor(c) \/ Whoami(c)
    BY <2>2, ClientForKeeps, WhoamiKeeps
  <2>3. CASE Get(c) \/ List(c) \/ Frame(c) \/ Record(c)
    BY <2>3, GetKeeps, ListKeeps, FrameKeeps, RecordKeeps
  <2>4. CASE Boundary(c) \/ Mutate(c) \/ Return(c)
    BY <2>4, BoundaryKeeps, MutateKeeps, ReturnKeeps
  <2>5. CASE Lose(c)
    BY <2>5, FailKeeps DEF Lose
  <2> QED
    BY <1>1, <2>1, <2>2, <2>3, <2>4, <2>5 DEF CallStep
<1>2. CASE UNCHANGED vars
  BY <1>2
  DEF vars, EntityInv, EntityTypeOK, Identified, Served, Succeeded, NothingYet,
      OnlyGetsRecord, Targets, Reached, ContentHeld, Canonical,
      CreatedIsStored, AnswersMatchEffects, IssuedMeansRead, Acct, Tool,
      Exists, Target
<1> QED
  BY <1>1, <1>2 DEF Next

\* Every state the tools and Fileee reach satisfies the invariant.
THEOREM EntityInvHolds == Spec => []EntityInv
  BY InvInit, InvNext, PTL DEF Spec

\* Calls, answers, Fileee's store and the recorded ids stay what their types
\* say, for any tools' inputs and any account.
THEOREM EntityTypesHold == Spec => []EntityTypeOK
  BY EntityInvHolds, PTL DEF EntityInv

\* An error that is not Fileee's own means nothing was changed, a success
\* exactly one change (write_contacts.go to write_documents.go).
THEOREM AnswersAreTrue == Spec => []AnswersMatchEffects
  BY EntityInvHolds, PTL DEF EntityInv

\* The id a create or an upload answers is that of an entity of the caller's
\* account, with the uploaded content: no later call takes it away.
THEOREM CreatedIsNamed == Spec => []AnswersNameTheEntity
<1>1. EntityInv => AnswersNameTheEntity
  <2> SUFFICES ASSUME EntityInv, NEW c \in Calls,
                      Succeeded(c), Tool(c) \in Creates
               PROVE  /\ Exists(Acct(c), res[c].id, ToolType[Tool(c)])
                      /\ Tool(c) = "upload_document" =>
                           store[Acct(c)][res[c].id]["detail"]
                             = in[c].set["detail"]
    BY DEF AnswersNameTheEntity, Succeeded
  <2>1. /\ res[c].id \in Ids /\ TypeOf[res[c].id] = ToolType[Tool(c)]
        /\ store[Acct(c)][res[c].id] # Absent
        /\ Tool(c) = "upload_document" =>
             store[Acct(c)][res[c].id]["detail"] = in[c].set["detail"]
    BY DEF EntityInv, CreatedIsStored
  <2>2. Acct(c) \in Accounts
    BY DEF EntityInv, Identified, Served, Creates
  <2>3. Alias[res[c].id] = res[c].id
    BY <2>1, <2>2 DEF EntityInv, Canonical
  <2> QED
    BY <2>1, <2>3 DEF Exists
<1> QED
  BY <1>1, EntityInvHolds, PTL

\* What is recorded as issued to a subject is what it read itself, and it is
\* there in the subject's own account.
THEOREM IssuedIsWhatWasRead == Spec => []IssuedMeansRead
  BY EntityInvHolds, PTL DEF EntityInv
\* Only c's own Mutate is the step in which Fileee carries out its update.
LEMMA UpdatingIsUpdate ==
  ASSUME EntityInv, Next, NEW c \in Calls, Updating(c)
  PROVE  Update(c)
<1>1. pc[c] = "mutate" /\ Tool(c) \in Updates /\ pc'[c] # "mutate"
      /\ applied'[c] = 1 /\ applied[c] = 0
  BY DEF Updating, EntityInv, NothingYet
<1>2. PICK d \in Calls : CallStep(d)
  BY DEF Next
<1>3. pc \in [Calls -> {"idle", "client", "get", "list", "frame", "record",
                        "boundary", "mutate", "lost", "return"}]
  BY DEF EntityInv, EntityTypeOK
<1>4. \A from, to : Step(d, from, to) => d = c /\ from = "mutate"
  BY <1>1, <1>3 DEF Step
<1>5. Mutate(d)
  <2>1. ~(\E i \in Requests : Start(d, i)) /\ ~ClientFor(d) /\ ~Whoami(d)
    BY <1>4 DEF Start, ClientFor, Whoami, Fail
  <2>2. ~Get(d)
    BY <1>4 DEF Get, GetForUpdate, GetFromService, DocumentFromService,
                DocumentPDFFromService, DocumentConversationsFromService,
                DocumentPageOCRFromService, DocumentPageImageFromService,
                BoxFromService, Found, Fail
  <2>3. ~List(d) /\ ~Frame(d)
    BY <1>4 DEF List, ListFromService, SearchDocuments,
                AccountStatusFromService, Plainly, Frame, Fail
  <2>4. ~Record(d) /\ ~Boundary(d) /\ ~Lose(d) /\ ~Return(d)
    BY <1>4 DEF Record, Boundary, Lose, Return, Fail
  <2> QED
    BY <1>2, <2>1, <2>2, <2>3, <2>4 DEF CallStep
<1>6. d = c
  BY <1>4, <1>5 DEF Mutate, Fail
<1>7. ~Fail(c, "mutate", "backend")
  BY <1>1 DEF Fail
<1>8. Tool(c) \notin Creates \cup BoxTools
  BY <1>1 DEF Updates, Creates, BoxTools
<1>9. Change(c)
  BY <1>5, <1>6, <1>7, <1>8 DEF Mutate, UploadDuplicate, Creates
<1> QED
  BY <1>8, <1>9
  DEF Change, UpdateContact, UpdateReminder, UpdateDocument, CreateContact,
      CreateReminder, UploadNew, AddBoxDocument, RemoveBoxDocument, Creates,
      BoxTools

\* An update that no other write of the entity overtook changes the fields
\* its caller set, and only those.
THEOREM PatchesAreExact == Spec => UndisturbedPatchIsExact
<1>1. ASSUME EntityInv, Next, NEW c \in Calls, Updating(c),
             Target(c) = held[c], NEW f \in Fields
      PROVE  store'[Acct(c)][Alias[in[c].id]][f] =
               IF in[c].set[f] = Keep THEN Target(c)[f] ELSE in[c].set[f]
  <2>1. Update(c) /\ pc[c] = "mutate" /\ Tool(c) \in Updates
    BY <1>1, UpdatingIsUpdate DEF Updating
  <2>2. Acct(c) \in Accounts /\ InputOk(in[c])
    BY <1>1, <2>1, ServedInMutate
  <2>3. Alias[in[c].id] \in Ids
    BY <1>1, <2>1, <2>2, NamedIds, ToolsAssumption DEF EntityInv
  <2>4. store'[Acct(c)][Alias[in[c].id]] = Patched(held[c], in[c].set)
    BY <1>1, <2>1, <2>2, <2>3 DEF Update, EntityInv, EntityTypeOK
  <2> QED
    BY <1>1, <2>4 DEF Patched
<1>2. EntityInv /\ [Next]_vars =>
        [\A c \in Calls : Updating(c) /\ Target(c) = held[c] =>
           \A f \in Fields :
             store'[Acct(c)][Alias[in[c].id]][f] =
               IF in[c].set[f] = Keep THEN Target(c)[f]
               ELSE in[c].set[f]]_vars
  BY <1>1
<1> QED
  BY <1>2, EntityInvHolds, PTL DEF Spec, UndisturbedPatchIsExact
=============================================================================
