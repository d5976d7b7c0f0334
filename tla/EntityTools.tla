---------------------------- MODULE EntityTools -----------------------------
(***************************************************************************)
(* internal/tools: the tools that read, change and create single entities  *)
(* of a Fileee account.  Every one checks its input, asks the pool for the *)
(* caller's client, talks to Fileee in one or two requests and answers.    *)
(* Calls interleave at every request; Fileee may refuse a request, and it  *)
(* may carry one out without the answer reaching the server.               *)
(*                                                                         *)
(* An entity is a pair of fields: its name (contact name, reminder         *)
(* description, document title) and one more (a contact's e-mail, a        *)
(* reminder's date, a document's content).                                 *)
(***************************************************************************)
EXTENDS Naturals, FiniteSets

CONSTANTS
  Calls,      \* tool calls in flight, each used again after its answer
  Subjects,   \* subjects of verified identities
  Accounts,
  AccountOf,  \* the account a subject resolves to, or NoAccount
  Ids,        \* ids of contacts, reminders, documents, pages and boxes
  TypeOf,     \* the type of the entity an id stands for
  Alias,      \* the id Fileee's answer carries for an id it was asked for
  Existing,   \* the entities there are from the start
  Values,     \* non-blank field values
  Requests,   \* the inputs this instance's calls arrive with
  MaxCalls,   \* bound on the number of calls
  NoAccount, NoSubject, NoId, Blank, Keep, Absent

Types  == {"contact", "reminder", "document", "page", "box"}
Fields == {"name", "detail"}

Updates == {"update_contact", "update_reminder", "update_document"}
Creates == {"create_contact", "create_reminder", "upload_document"}
BoxTools == {"box_add_document", "box_remove_document"}
Gets    == {"get_contact", "get_reminder", "get_document", "get_box",
            "get_document_pdf"}
Binaries == {"get_document_pdf", "get_page_image"}
Peeks   == {"list_document_conversations", "get_page_ocr", "get_page_image"}
Lists   == {"list_contacts", "list_documents"}
Plain   == {"search_documents", "get_account_status"}
Writes  == Updates \cup Creates \cup BoxTools
Tools   == Gets \cup Peeks \cup Lists \cup Plain \cup {"whoami"} \cup Writes

ASSUME ToolsAssumption ==
  /\ AccountOf \in [Subjects -> Accounts \cup {NoAccount}]
  /\ NoAccount \notin Accounts /\ NoSubject \notin Subjects
  /\ TypeOf \in [Ids -> Types] /\ NoId \notin Ids
  /\ Alias \in [Ids -> Ids]
  /\ \A i \in Ids : TypeOf[Alias[i]] = TypeOf[i] /\ Alias[Alias[i]] = Alias[i]
  /\ DOMAIN Existing \subseteq {i \in Ids : Alias[i] = i}
  /\ Blank \notin Values /\ Keep \notin Values \cup {Blank}

VARIABLES
  pc,      \* where each call is
  in,      \* each call's input: tool, subject, ids and field values
  held,    \* the entity an update loaded with Get
  res,     \* each call's answer
  applied, \* how many changes Fileee carried out for each call
  store,   \* Fileee: the entities of each account
  filed,   \* Fileee: per account, which document is in which box
  issued,  \* issued.Store: the (subject, id) pairs recorded
  answered,\* the (subject, id) pairs get tools have answered with success
  begun    \* how many calls have begun

vars == <<pc, in, held, res, applied, store, filed, issued, answered, begun>>
fileee == <<store, filed>>
books  == <<issued, answered, begun>>

Value  == Values \cup {Blank}
Entity == [Fields -> Value]

ASSUME StoreAssumption ==
  /\ Absent \notin Entity /\ \A i \in DOMAIN Existing : Existing[i] \in Entity
  /\ MaxCalls \in Nat

Input  == [tool : Tools,
           subject : Subjects \cup {NoSubject},
           id : Ids \cup {NoId}, box : Ids \cup {NoId},
           set : [Fields -> Value \cup {Keep}]]
NoInput == [tool |-> "list_documents", subject |-> NoSubject, id |-> NoId,
            box |-> NoId, set |-> [f \in Fields |-> Keep]]
New    == [f \in Fields |-> Blank]
Answer == [status : {"none", "ok", "duplicate", "input", "denied", "client",
                     "lookup", "local", "backend"},
           id : Ids \cup {NoId}]
Pending == [status |-> "none", id |-> NoId]
Said(s, i) == [status |-> s, id |-> i]

ToolType == [t \in Tools |->
  CASE t \in {"update_contact", "create_contact", "get_contact",
              "list_contacts"} -> "contact"
    [] t \in {"update_reminder", "create_reminder", "get_reminder"} ->
         "reminder"
    [] t = "get_box" -> "box"
    [] t \in {"get_page_ocr", "get_page_image"} -> "page"
    [] OTHER -> "document"]

Acct(c) == AccountOf[in[c].subject]
Tool(c) == in[c].tool
Step(c, from, to) == pc[c] = from /\ pc' = [pc EXCEPT ![c] = to]
Say(c, status, i) == res' = [res EXCEPT ![c] = Said(status, i)]
Fail(c, from, status) ==
  /\ Step(c, from, "return") /\ Say(c, status, NoId)
  /\ UNCHANGED <<in, held, applied, fileee, books>>

-----------------------------------------------------------------------------
\* What the handlers reject before they ask for a client.

UpdateInputOk(i) == i.id # NoId
GetInputOk(i)    == i.id # NoId
SearchInputOk(i) == i.set["name"] # Blank
ContactInputOk(i)  == i.set["name"] # Blank
ReminderInputOk(i) == i.set["name"] # Blank
BoxInputOk(i)    == i.box # NoId /\ i.id # NoId

\* parsePDFMode, parseImageSize: blank stands for a mode or size that is none.
BinaryInputOk(i) == GetInputOk(i) /\ i.set["detail"] # Blank

InputOk(i) ==
  CASE i.tool \in Updates            -> UpdateInputOk(i)
    [] i.tool \in Binaries           -> BinaryInputOk(i)
    [] i.tool \in (Gets \cup Peeks) \ Binaries -> GetInputOk(i)
    [] i.tool = "search_documents"   -> SearchInputOk(i)
    [] i.tool = "create_contact"     -> ContactInputOk(i)
    [] i.tool = "create_reminder"    -> ReminderInputOk(i)
    [] i.tool \in BoxTools           -> BoxInputOk(i)
    [] OTHER                         -> TRUE

\* The inputs each tool's schema lets through: only updates can leave a
\* field alone, update_document has a title only, a search has a term.
Sensible(i) ==
  /\ i.tool \notin BoxTools => i.box = NoId
  /\ i.tool \in Creates \cup Lists \cup Plain \cup {"whoami"} => i.id = NoId
  /\ i.tool \in Creates => \A f \in Fields : i.set[f] # Keep
  /\ i.tool \notin Creates \cup Updates =>
       /\ i.tool # "search_documents" => i.set["name"] = Keep
       /\ i.tool \notin Binaries => i.set["detail"] = Keep
  /\ i.tool = "update_document" => i.set["detail"] = Keep

ASSUME RequestsAssumption == \A i \in Requests : i \in Input /\ Sensible(i)

Start(c, i) ==
  /\ begun < MaxCalls /\ begun' = begun + 1
  /\ in' = [in EXCEPT ![c] = i]
  /\ \/ /\ InputOk(i)
        /\ Step(c, "idle", "client") /\ Say(c, "none", NoId)
     \/ /\ ~InputOk(i)
        /\ Step(c, "idle", "return") /\ Say(c, "input", NoId)
  /\ UNCHANGED <<held, applied, fileee, issued, answered>>

\* clientFor: the identity resolves to an account and the pool has, or gets,
\* its client.  What comes next is each tool's first request.
First(t) ==
  CASE t \in Updates \cup Gets \cup Peeks -> "get"
    [] t \in Lists \cup Plain -> "list"
    [] t \in {"create_contact", "create_reminder"} -> "boundary"
    [] OTHER -> "mutate"

\* An identity without an account is denied access; every other failure, of
\* the login for one, is called something else.
Unmapped(s) == s # NoSubject /\ AccountOf[s] = NoAccount

ClientFor(c) ==
  LET s == in[c].subject IN
  /\ Tool(c) # "whoami"
  /\ \/ /\ s # NoSubject /\ ~Unmapped(s)
        /\ Step(c, "client", First(Tool(c)))
        /\ UNCHANGED <<in, held, res, applied, fileee, books>>
     \/ Unmapped(s) /\ Fail(c, "client", "denied")
     \/ ~Unmapped(s) /\ Fail(c, "client", "client")

\* whoami asks for no client: to have no account is an answer like any other.
Whoami(c) ==
  /\ Tool(c) = "whoami"
  /\ \/ /\ in[c].subject # NoSubject
        /\ Step(c, "client", "return") /\ Say(c, "ok", NoId)
        /\ UNCHANGED <<in, held, applied, fileee, books>>
     \/ in[c].subject = NoSubject /\ Fail(c, "client", "client")

-----------------------------------------------------------------------------
\* Reading.

Exists(a, i, type) == TypeOf[i] = type /\ store[a][Alias[i]] # Absent

\* service.Get, or DownloadPDF.
Found(c, next) ==
  /\ pc[c] = "get" /\ Exists(Acct(c), in[c].id, ToolType[Tool(c)])
  /\ Step(c, "get", next)
  /\ UNCHANGED <<in, res, applied, fileee, books>>

\* An update keeps what Get returned, to merge its patch into it.
GetForUpdate(c) ==
  /\ Tool(c) \in Updates
  /\ Found(c, "boundary")
  /\ held' = [held EXCEPT ![c] = store[Acct(c)][Alias[in[c].id]]]

GetFromService(c) ==
  /\ Tool(c) \in {"get_contact", "get_reminder"}
  /\ Found(c, "frame") /\ UNCHANGED held

DocumentFromService(c) ==
  /\ Tool(c) = "get_document"
  /\ Found(c, "frame") /\ UNCHANGED held

DocumentPDFFromService(c) ==
  /\ Tool(c) = "get_document_pdf"
  /\ Found(c, "frame") /\ UNCHANGED held

\* These name an id as well, but what they return is not that entity.
DocumentConversationsFromService(c) ==
  /\ Tool(c) = "list_document_conversations"
  /\ Found(c, "frame") /\ UNCHANGED held

DocumentPageOCRFromService(c) ==
  /\ Tool(c) = "get_page_ocr"
  /\ Found(c, "frame") /\ UNCHANGED held

DocumentPageImageFromService(c) ==
  /\ Tool(c) = "get_page_image"
  /\ Found(c, "frame") /\ UNCHANGED held

\* A box has no foreign text to frame.
BoxFromService(c) ==
  /\ Tool(c) = "get_box"
  /\ Found(c, "record") /\ UNCHANGED held

Get(c) == \/ GetForUpdate(c)
          \/ GetFromService(c)
          \/ DocumentFromService(c)
          \/ DocumentPDFFromService(c)
          \/ DocumentConversationsFromService(c)
          \/ DocumentPageOCRFromService(c)
          \/ DocumentPageImageFromService(c)
          \/ BoxFromService(c)
          \/ Fail(c, "get", "lookup")

\* list_* and the like: one request, and nothing is recorded.  Ids and the
\* account's status have no foreign text to frame.
ListFromService(c) ==
  /\ Tool(c) \in Lists
  /\ Step(c, "list", "frame")
  /\ UNCHANGED <<in, held, res, applied, fileee, books>>

Plainly(c) ==
  /\ Step(c, "list", "return") /\ Say(c, "ok", NoId)
  /\ UNCHANGED <<in, held, applied, fileee, books>>

SearchDocuments(c) == Tool(c) = "search_documents" /\ Plainly(c)
AccountStatusFromService(c) == Tool(c) = "get_account_status" /\ Plainly(c)

List(c) == \/ ListFromService(c)
           \/ SearchDocuments(c)
           \/ AccountStatusFromService(c)
           \/ Fail(c, "list", "lookup")

\* wrapUntrustedLines needs randomness, a PDF or an image has to be read
\* within limits.
Frame(c) ==
  \/ /\ Tool(c) \in Gets
     /\ Step(c, "frame", "record")
     /\ UNCHANGED <<in, held, res, applied, fileee, books>>
  \/ /\ Tool(c) \in Lists \cup Peeks
     /\ Step(c, "frame", "return") /\ Say(c, "ok", NoId)
     /\ UNCHANGED <<in, held, applied, fileee, books>>
  \/ Fail(c, "frame", "local")

\* Variant: Fileee's own id is recorded.
RecordedAnswer(c) == {<<in[c].subject, Alias[in[c].id]>>}

\* rec.Record(ctx, id): the id the caller named, once the answer is built.
Recorded(c) == {<<in[c].subject, in[c].id>>}

Record(c) ==
  /\ Step(c, "record", "return")
  /\ Say(c, "ok", Alias[in[c].id])
  /\ issued' = issued \cup Recorded(c)
  /\ UNCHANGED <<in, held, applied, fileee, answered, begun>>

-----------------------------------------------------------------------------
\* Writing.

\* newUntrustedBoundary, before anything is changed.
Boundary(c) ==
  \/ /\ Step(c, "boundary", "mutate")
     /\ UNCHANGED <<in, held, res, applied, fileee, books>>
  \/ Fail(c, "boundary", "local")

\* Fileee carries a request out, or refuses it as a whole.
Applied(c) == applied' = [applied EXCEPT ![c] = @ + 1]

\* Variants: the patch replaces, and "" is ignored.
PatchedRaw(e, set) == set
PatchedNonEmpty(e, set) ==
  [f \in Fields |-> IF set[f] \in {Keep, Blank} THEN e[f] ELSE set[f]]

Patched(e, set) == [f \in Fields |-> IF set[f] = Keep THEN e[f] ELSE set[f]]

\* service.Update sends the merged entity, which replaces Fileee's.
Update(c) ==
  LET a == Acct(c)
      i == Alias[in[c].id]
      e == Patched(held[c], in[c].set)
  IN  /\ store' = [store EXCEPT ![a][i] = e]
      /\ Say(c, "ok", i)
      /\ Applied(c)
      /\ UNCHANGED <<filed, books>>

UpdateContact(c)  == Tool(c) = "update_contact" /\ Update(c)
UpdateReminder(c) == Tool(c) = "update_reminder" /\ Update(c)
UpdateDocument(c) == Tool(c) = "update_document" /\ Update(c)

\* service.Create puts the entity under an id of Fileee's choosing.
Create(c) ==
  \E i \in Ids :
    /\ TypeOf[i] = ToolType[Tool(c)] /\ Alias[i] = i
    /\ store[Acct(c)][i] = Absent
    /\ store' = [store EXCEPT ![Acct(c)][i] = in[c].set]
    /\ Say(c, "ok", i)
    /\ Applied(c)
    /\ UNCHANGED <<filed, books>>

CreateContact(c)  == Tool(c) = "create_contact" /\ Create(c)
CreateReminder(c) == Tool(c) = "create_reminder" /\ Create(c)

\* service.Upload: content Fileee has is answered with the document it is
\* in, as ErrDuplicateDocument, which the tool reports as a success.  Both
\* answers hold a document, as go-fileee promises; should one hold none,
\* uploadDocumentResult makes it an error, which to the caller is Lose.
Copies(a, content) ==
  {i \in Ids : TypeOf[i] = "document" /\ store[a][i] # Absent
               /\ store[a][i]["detail"] = content}

\* Variant: the id this upload drew for itself.
UploadDuplicateOwnId(c) ==
  /\ Tool(c) = "upload_document"
  /\ Copies(Acct(c), in[c].set["detail"]) # {}
  /\ \E i \in Ids : store[Acct(c)][i] = Absent /\ Say(c, "duplicate", i)
  /\ UNCHANGED <<applied, fileee, books>>

UploadDuplicate(c) ==
  /\ Tool(c) = "upload_document"
  /\ \E i \in Copies(Acct(c), in[c].set["detail"]) : Say(c, "duplicate", i)
  /\ UNCHANGED <<applied, fileee, books>>

UploadNew(c) ==
  /\ Tool(c) = "upload_document"
  /\ Copies(Acct(c), in[c].set["detail"]) = {}
  /\ Create(c)

\* A document's place in a box is added or removed; no entity changes.
InBox(c) == <<Alias[in[c].box], Alias[in[c].id]>>

Refile(c, places) ==
  /\ Exists(Acct(c), in[c].box, "box")
  /\ Exists(Acct(c), in[c].id, "document")
  /\ filed' = [filed EXCEPT ![Acct(c)] = places]
  /\ Say(c, "ok", in[c].id)
  /\ Applied(c)
  /\ UNCHANGED <<store, books>>

AddBoxDocument(c) ==
  /\ Tool(c) = "box_add_document"
  /\ Refile(c, filed[Acct(c)] \cup {InBox(c)})

RemoveBoxDocument(c) ==
  /\ Tool(c) = "box_remove_document"
  /\ Refile(c, filed[Acct(c)] \ {InBox(c)})

Change(c) == \/ UpdateContact(c)
             \/ UpdateReminder(c)
             \/ UpdateDocument(c)
             \/ CreateContact(c)
             \/ CreateReminder(c)
             \/ UploadNew(c)
             \/ AddBoxDocument(c)
             \/ RemoveBoxDocument(c)

\* Variant: the boundary is drawn after the request, where it can fail too.
MutateThenFrame(c) ==
  \/ /\ Step(c, "mutate", "return")
     /\ Change(c) \/ UploadDuplicate(c)
     /\ UNCHANGED <<in, held>>
  \/ /\ Step(c, "mutate", "frame")
     /\ Change(c)
     /\ UNCHANGED <<in, held>>
  \/ Fail(c, "mutate", "backend")

\* The request succeeds, or is carried out and its answer is lost, or fails.
Mutate(c) ==
  \/ /\ Step(c, "mutate", "return")
     /\ Change(c) \/ UploadDuplicate(c)
     /\ UNCHANGED <<in, held>>
  \/ /\ Step(c, "mutate", "lost")
     /\ Change(c)
     /\ UNCHANGED <<in, held>>
  \/ Fail(c, "mutate", "backend")

Lose(c) == Fail(c, "lost", "backend")

Return(c) ==
  /\ Step(c, "return", "idle")
  /\ answered' = IF Tool(c) \in Gets /\ res[c].status = "ok"
                 THEN answered \cup {<<in[c].subject, in[c].id>>}
                 ELSE answered
  /\ in' = [in EXCEPT ![c] = NoInput]
  /\ held' = [held EXCEPT ![c] = New]
  /\ applied' = [applied EXCEPT ![c] = 0]
  /\ Say(c, "none", NoId)
  /\ UNCHANGED <<fileee, issued, begun>>

-----------------------------------------------------------------------------
Init ==
  /\ pc = [c \in Calls |-> "idle"]
  /\ in = [c \in Calls |-> NoInput]
  /\ held = [c \in Calls |-> New]
  /\ res = [c \in Calls |-> Pending]
  /\ applied = [c \in Calls |-> 0]
  /\ store = [a \in Accounts |->
                [i \in Ids |-> IF i \in DOMAIN Existing THEN Existing[i]
                                                        ELSE Absent]]
  /\ filed = [a \in Accounts |-> {}]
  /\ issued = {} /\ answered = {} /\ begun = 0

CallStep(c) ==
  \/ \E i \in Requests : Start(c, i)
  \/ ClientFor(c)
  \/ Whoami(c)
  \/ Get(c)
  \/ List(c)
  \/ Frame(c)
  \/ Record(c)
  \/ Boundary(c)
  \/ Mutate(c)
  \/ Lose(c)
  \/ Return(c)

Next == \E c \in Calls : CallStep(c)

Spec == Init /\ [][Next]_vars

-----------------------------------------------------------------------------
\* Types; an entity never has a field that is neither blank nor a value.
EntityTypeOK ==
  /\ pc \in [Calls -> {"idle", "client", "get", "list", "frame", "record",
                       "boundary", "mutate", "lost", "return"}]
  /\ in \in [Calls -> Requests \cup {NoInput}]
  /\ held \in [Calls -> Entity]
  /\ res \in [Calls -> Answer]
  /\ applied \in [Calls -> {0, 1}]
  /\ store \in [Accounts -> [Ids -> Entity \cup {Absent}]]
  /\ filed \in [Accounts -> SUBSET (Ids \X Ids)]
  /\ issued \subseteq Subjects \X Ids
  /\ answered \subseteq Subjects \X Ids
  /\ begun \in 0 .. MaxCalls

\* An error that is not Fileee's own means nothing was changed, so calling
\* again duplicates nothing; a success means exactly one change, or the
\* duplicate it reports: the boundary is drawn before the request that
\* changes anything, and nothing after that request can fail but the answer
\* itself: it is lost, or lacks what go-fileee promises it to hold.
AnswersMatchEffects ==
  \A c \in Calls : pc[c] = "return" =>
    /\ res[c].status \in {"input", "denied", "client", "lookup", "local",
                          "duplicate"} => applied[c] = 0
    /\ res[c].status = "ok" =>
         applied[c] = IF Tool(c) \in Writes THEN 1 ELSE 0

\* The id in the answer of a create or an upload is that of an entity in the
\* caller's own account, for an upload one that holds the uploaded content,
\* also when an earlier call uploaded it and its answer was lost.
AnswersNameTheEntity ==
  \A c \in Calls :
    /\ pc[c] = "return" /\ res[c].status \in {"ok", "duplicate"}
    /\ Tool(c) \in Creates
    => /\ Exists(Acct(c), res[c].id, ToolType[Tool(c)])
       /\ Tool(c) = "upload_document" =>
            store[Acct(c)][res[c].id]["detail"] = in[c].set["detail"]

\* The ids issued to a subject are those it named itself in a get tool that
\* answered with success, and they stand for entities of its own account:
\* nothing listed, nothing that only came along in an answer, no id Fileee
\* used instead, nothing whose answer failed (ADR-0019).
IssuedMeansRead ==
  /\ \A p \in Subjects \X Ids : p \in issued <=>
       \/ p \in answered
       \/ \E c \in Calls : /\ pc[c] = "return" /\ res[c].status = "ok"
                           /\ Tool(c) \in Gets
                           /\ p = <<in[c].subject, in[c].id>>
  /\ \A p \in issued : /\ AccountOf[p[1]] # NoAccount
                       /\ store[AccountOf[p[1]]][Alias[p[2]]] # Absent

\* The step in which Fileee carries out c's update.
Updating(c) == /\ pc[c] = "mutate" /\ Tool(c) \in Updates
               /\ pc'[c] # "mutate" /\ applied'[c] = 1

Target(c) == store[Acct(c)][Alias[in[c].id]]

\* An update no other write of the entity overtook changes the fields the
\* caller set, and only those.
UndisturbedPatchIsExact ==
  [][\A c \in Calls : Updating(c) /\ Target(c) = held[c] =>
       \A f \in Fields :
         store'[Acct(c)][Alias[in[c].id]][f] =
           IF in[c].set[f] = Keep THEN Target(c)[f] ELSE in[c].set[f]]_vars

\* What the descriptions of the update tools say: "any field you omit keeps
\* its current value, it is not cleared".
OmittedFieldsKept ==
  [][\A c \in Calls : Updating(c) =>
       \A f \in Fields : in[c].set[f] = Keep =>
         store'[Acct(c)][Alias[in[c].id]][f] = Target(c)[f]]_vars
=============================================================================
