------------------------------- MODULE Limits -------------------------------
(***************************************************************************)
(* The limits an operator sets and where they bite: config.ladeZahlenwerte *)
(* reads them, server.New turns the ttl into a duration, upload_document   *)
(* measures an upload twice (encoded, then decoded) and the binary reading *)
(* tools cap what they take from Fileee's stream.  int64 is finite here:   *)
(* what the code computes wraps at MaxInt unless the code saturates.       *)
(*                                                                         *)
(* The handlers share nothing but the configuration, so one call at a time *)
(* is enough.  MaxInt is 2^63 - 1 in the program.                          *)
(***************************************************************************)
EXTENDS Integers

CONSTANTS
  MaxInt,        \* the largest int64
  Frame,         \* rahmenZuschlag: room for JSON-RPC around an upload
  Second,        \* time.Second, in nanoseconds
  BinaryLimit,   \* maxBinaryBytes
  DefaultUpload, DefaultTtl,   \* what an unset variable stands for
  UploadSettings, TtlSettings, \* what the variables may hold, Unset included
  Uploads,       \* the contents callers send
  Streams,       \* the lengths of the files Fileee sends
  Unset

Int64 == -(MaxInt + 1) .. MaxInt
Wrap(x) == IF x \in Int64 THEN x
           ELSE ((x + MaxInt + 1) % (2 * (MaxInt + 1))) - (MaxInt + 1)

\* The length of the encoding of n bytes, were there no int64.
Blocks(n) == (n + 2) \div 3

\* A content: how many bytes it decodes to, how many line breaks lie within
\* the encoding (base64.StdEncoding skips them) and whether it is base64.
EncLen(u) == 4 * Blocks(u.bytes) + u.breaks

ASSUME LimitsAssumption ==
  /\ MaxInt \in Nat /\ MaxInt % 4 = 3
  /\ Frame \in 3 .. MaxInt /\ Second \in Nat \ {0}
  /\ BinaryLimit \in 0 .. MaxInt - 1
  /\ DefaultUpload \in 0 .. MaxInt /\ DefaultTtl \in 0 .. MaxInt
  /\ Unset \notin Int64
  /\ UploadSettings \subseteq Int64 \cup {Unset}
  /\ TtlSettings \subseteq Int64 \cup {Unset}
  /\ Uploads \subseteq [bytes : Nat, breaks : Nat, valid : BOOLEAN]
  /\ \A u \in Uploads : EncLen(u) <= MaxInt
  /\ Streams \subseteq Nat

VARIABLES
  pc,       \* where the process, then its current call, is
  limits,   \* Config and the store's ttl
  upload,   \* the content of an upload_document call
  stream,   \* the length of the file a download opened
  read,     \* how many bytes of it have arrived
  open,     \* whether the response body is still open
  verdict   \* how the last call ended

vars == <<pc, limits, upload, stream, read, open, verdict>>

Verdicts == {"none", "tooLarge", "invalid", "passed",
             "failed", "overLimit", "whole"}
NoLimits == [upload |-> 0, body |-> 0, ttl |-> 0, ttlSeconds |-> 0]
NoUpload == [bytes |-> 0, breaks |-> 0, valid |-> FALSE]

-----------------------------------------------------------------------------
\* Variant: the formula before it was made to saturate.
Base64EncodedLenWraps(n) == Wrap(4 * (Wrap(n + 2) \div 3))

\* base64EncodedLenFor: whole blocks of three bytes, saturating.
Base64EncodedLenFor(n) ==
  LET blocks == n \div 3 + (IF n % 3 # 0 THEN 1 ELSE 0)
  IN  IF blocks > MaxInt \div 4 THEN MaxInt ELSE Wrap(4 * blocks)

\* Variant: the first version, which saturated as soon as n*4 did not fit.
MaxRequestBodyBytesEarly(n) ==
  IF n > MaxInt \div 4 THEN MaxInt ELSE Wrap((4 * n) \div 3 + Frame)

\* maxRequestBodyBytesFor: n*4/3 by quotient and rest, plus the frame.
MaxRequestBodyBytesFor(n) ==
  LET quotient == n \div 3
      inflated == Wrap(4 * quotient + (4 * (n % 3)) \div 3)
  IN  IF quotient > MaxInt \div 4 \/ inflated > MaxInt - Frame
      THEN MaxInt ELSE Wrap(inflated + Frame)

\* intWert: an unset variable is its default, a negative one an error.
IntWert(v, fallback) == IF v = Unset THEN fallback ELSE v

Rejected(v) == v # Unset /\ v < 0

\* server.New: time.Duration(IssuedIDTTLSeconds) * time.Second.
Lifetime(s) == Wrap(s * Second)

\* A refused process has ended; the next one reads the variables anew.
LadeZahlenwerte(u, t) ==
  /\ pc \in {"start", "refused"}
  /\ \/ /\ Rejected(u) \/ Rejected(t)
        /\ pc' = "refused" /\ UNCHANGED limits
     \/ /\ ~(Rejected(u) \/ Rejected(t))
        /\ pc' = "idle"
        /\ LET max == IntWert(u, DefaultUpload)
               s   == IntWert(t, DefaultTtl)
           IN  limits' = [upload |-> max, body |-> MaxRequestBodyBytesFor(max),
                          ttl |-> Lifetime(s), ttlSeconds |-> s]
  /\ UNCHANGED <<upload, stream, read, open, verdict>>

-----------------------------------------------------------------------------
\* uploadDocumentHandler up to the point where it asks for a client.

Answer(v) == pc' = "idle" /\ verdict' = v

UploadDocument(u) ==
  /\ pc = "idle" /\ pc' = "encoded"
  /\ upload' = u /\ verdict' = "none"
  /\ UNCHANGED <<limits, stream, read, open>>

TooLong == EncLen(upload) > Base64EncodedLenFor(limits.upload)

EncodedGate ==
  /\ pc = "encoded"
  /\ \/ TooLong /\ Answer("tooLarge")
     \/ ~TooLong /\ pc' = "decode" /\ UNCHANGED verdict
  /\ UNCHANGED <<limits, upload, stream, read, open>>

Decode ==
  /\ pc = "decode"
  /\ \/ ~upload.valid /\ Answer("invalid")
     \/ upload.valid /\ pc' = "decoded" /\ UNCHANGED verdict
  /\ UNCHANGED <<limits, upload, stream, read, open>>

DecodedGate ==
  /\ pc = "decoded"
  /\ \/ upload.bytes > limits.upload /\ Answer("tooLarge")
     \/ upload.bytes <= limits.upload /\ Answer("passed")
  /\ UNCHANGED <<limits, upload, stream, read, open>>

-----------------------------------------------------------------------------
\* readLimited, for get_document_pdf and get_page_image: at most one byte
\* more than the limit is read, the body is closed on every path.

Download(n) ==
  /\ pc = "idle" /\ pc' = "reading"
  /\ stream' = n /\ read' = 0 /\ open' = TRUE /\ verdict' = "none"
  /\ UNCHANGED <<limits, upload>>

\* Variant: the reader stops at the limit.
ReadCapAtLimit == BinaryLimit

ReadCap == BinaryLimit + 1

ReadMore ==
  /\ pc = "reading" /\ read < stream /\ read < ReadCap
  /\ read' = read + 1
  /\ UNCHANGED <<pc, limits, upload, stream, open, verdict>>

\* The connection breaks before the reader has what it wants.
ReadBreaks ==
  /\ pc = "reading" /\ read < ReadCap
  /\ Answer("failed") /\ open' = FALSE
  /\ UNCHANGED <<limits, upload, stream, read>>

ReadEnds ==
  /\ pc = "reading" /\ (read = stream \/ read = ReadCap)
  /\ Answer(IF read > BinaryLimit THEN "overLimit" ELSE "whole")
  /\ open' = FALSE
  /\ UNCHANGED <<limits, upload, stream, read>>

-----------------------------------------------------------------------------
Init ==
  /\ pc = "start" /\ limits = NoLimits
  /\ upload = NoUpload /\ stream = 0 /\ read = 0 /\ open = FALSE
  /\ verdict = "none"

Next ==
  \/ \E u \in UploadSettings, t \in TtlSettings : LadeZahlenwerte(u, t)
  \/ \E u \in Uploads : UploadDocument(u)
  \/ EncodedGate
  \/ Decode
  \/ DecodedGate
  \/ \E n \in Streams : Download(n)
  \/ ReadMore
  \/ ReadBreaks
  \/ ReadEnds

Spec == Init /\ [][Next]_vars

-----------------------------------------------------------------------------
\* The limits are int64 values, the upload limit is never negative, and a
\* call is in one of the handlers' steps.
TypeOK ==
  /\ pc \in {"start", "refused", "idle", "encoded", "decode", "decoded",
             "reading"}
  /\ limits \in [upload : 0 .. MaxInt, body : Int64, ttl : Int64,
                 ttlSeconds : 0 .. MaxInt]
  /\ upload \in Uploads \cup {NoUpload}
  /\ stream \in Nat /\ read \in Nat /\ open \in BOOLEAN
  /\ verdict \in Verdicts

\* upload_document (write_documents.go:269-291): content that is encoded in
\* one line and within the limit gets through both gates, whatever the
\* limit: the encoded gate must not round down, nor wrap for a limit near
\* the largest int64.
WithinLimitPasses ==
  upload.valid /\ upload.breaks = 0 /\ upload.bytes <= limits.upload =>
    verdict # "tooLarge"

\* What passes the gates decodes to no more than the limit, though the
\* encoded gate alone lets up to two bytes more through.
PassedIsWithin == verdict = "passed" => upload.bytes <= limits.upload

\* readLimited (read_binary.go:117-147): a download that is answered with
\* content is the whole file, never a prefix of it, and within the limit.
DownloadIsWhole == verdict = "whole" => read = stream /\ read <= BinaryLimit

\* However a read ends, the response body is closed, and at no time have
\* more than limit + 1 bytes been taken from it.
BodyClosed == (open <=> pc = "reading") /\ read <= BinaryLimit + 1

\* maxRequestBodyBytesFor (config.go:802-881): the derived request limit has
\* room for the encoding of every upload within the upload limit, and is the
\* largest int64 only if n*4/3 plus the frame reaches that: it must neither
\* wrap nor saturate because a value on the way does not fit.
BodyHoldsUpload ==
  pc \notin {"start", "refused"} =>
    /\ \/ limits.body = MaxInt
       \/ limits.body >= 4 * Blocks(limits.upload) + (Frame - 3)
    /\ limits.body = MaxInt => (4 * limits.upload) \div 3 + Frame >= MaxInt

\* What the comment on IssuedIDTTLSeconds says (config.go:243-250): a
\* positive number of seconds bounds how long an id stays valid, and only 0
\* means that it expires at once.  Times time.Second it wraps.
PositiveTtlStaysPositive == limits.ttlSeconds > 0 => limits.ttl > 0
=============================================================================
