--------------------------- MODULE MCEntityTools ----------------------------
EXTENDS EntityTools, TLC

CONSTANTS c1, c2, s1, s2, s3, a1, i1, i2, i3, i4, i5, i6, n1, n2, n3, v1, v2

Symmetry == Permutations({c1, c2})

\* Two subjects share an account, a third resolves to none.
Shared == s1 :> a1 @@ s2 :> a1 @@ s3 :> NoAccount

Set(n, d) == [f \in Fields |-> IF f = "name" THEN n ELSE d]
Untouched == Set(Keep, Keep)
Call(t, s, i, b, set) ==
  [tool |-> t, subject |-> s, id |-> i, box |-> b, set |-> set]

\* One contact under its own id and another one, a reminder, a box, a
\* document with a page, and room for one more contact, reminder and document.
EntityTypes == i1 :> "contact" @@ i2 :> "contact" @@ i3 :> "reminder"
                 @@ i4 :> "box" @@ i5 :> "document" @@ i6 :> "page"
                 @@ n1 :> "contact" @@ n2 :> "reminder" @@ n3 :> "document"
OtherName == [i \in Ids |-> IF i = i2 THEN i1 ELSE i]
Stored == i1 :> Set(v2, v2) @@ i3 :> Set(v2, v2) @@ i4 :> Set(v1, Blank)
            @@ i5 :> Set(v2, v2) @@ i6 :> Set(Blank, v2)

Patches ==
  {Call("update_contact", s1, i1, NoId, Set(v1, Keep)),
   Call("update_contact", s2, i2, NoId, Set(Keep, v1)),
   Call("update_contact", s1, NoId, NoId, Set(v1, Keep)),
   Call("update_contact", s1, i3, NoId, Set(Blank, Keep)),
   Call("update_reminder", s2, i3, NoId, Set(v1, Blank)),
   Call("update_document", s1, i5, NoId, Set(v1, Keep))}
Creations ==
  {Call("upload_document", s1, NoId, NoId, Set(v1, v1)),
   Call("upload_document", s2, NoId, NoId, Set(v2, v1)),
   Call("create_contact", s1, NoId, NoId, Set(v1, Blank)),
   Call("create_contact", s1, NoId, NoId, Set(Blank, v1)),
   Call("create_reminder", s2, NoId, NoId, Set(v1, v2))}
Moves ==
  {Call("box_add_document", s1, i5, i4, Untouched),
   Call("box_remove_document", s2, i5, i4, Untouched),
   Call("box_add_document", s1, i5, NoId, Untouched)}
Reads ==
  {Call("get_contact", s2, i2, NoId, Untouched),
   Call("get_contact", s3, i1, NoId, Untouched),
   Call("get_contact", NoSubject, i1, NoId, Untouched),
   Call("get_box", s1, i4, NoId, Untouched),
   Call("get_document_pdf", s2, i5, NoId, Untouched),
   Call("get_document", s1, n3, NoId, Untouched),
   Call("list_contacts", s1, NoId, NoId, Untouched)}
Peeking ==
  {Call("list_document_conversations", s1, i5, NoId, Untouched),
   Call("get_page_ocr", s2, i6, NoId, Untouched),
   Call("get_page_image", s2, i6, NoId, Set(Keep, Blank)),
   Call("get_page_image", s1, i6, NoId, Untouched),
   Call("search_documents", s1, NoId, NoId, Set(v1, Keep)),
   Call("search_documents", s1, NoId, NoId, Set(Blank, Keep)),
   Call("get_account_status", s2, NoId, NoId, Untouched),
   Call("whoami", s3, NoId, NoId, Untouched)}
AllRequests == Patches \cup Creations \cup Moves \cup Reads \cup Peeking
=============================================================================
