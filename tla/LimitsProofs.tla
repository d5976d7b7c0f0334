---------------------------- MODULE LimitsProofs -----------------------------
(***************************************************************************)
(* The saturating arithmetic of the limits is exact for every width of     *)
(* integer, and so no upload within the limit is refused and no download   *)
(* cut short, whatever the operator configures.                            *)
(***************************************************************************)
EXTENDS Limits, TLAPS

USE DEF Int64

\* Whole blocks: at least as many as thirds, and no more bytes than blocks.
LEMMA BlocksBounds ==
  ASSUME NEW n \in Nat
  PROVE  /\ Blocks(n) \in Nat
         /\ 3 * Blocks(n) >= n /\ 3 * Blocks(n) <= n + 2
  BY DEF Blocks

\* More bytes never take fewer blocks.
LEMMA BlocksMonotone ==
  ASSUME NEW m \in Nat, NEW n \in Nat, m <= n
  PROVE  Blocks(m) <= Blocks(n)
  BY BlocksBounds

\* A quarter of the largest integer, which ends in two ones.
LEMMA QuarterBounds ==
  /\ MaxInt \in Nat /\ MaxInt \div 4 \in Nat
  /\ MaxInt = 4 * (MaxInt \div 4) + 3
  BY LimitsAssumption

\* base64EncodedLenFor (write_documents.go:224-233) is the encoded length of
\* n bytes, or the largest int64 when that length is no int64.
THEOREM EncodedLenExact ==
  ASSUME NEW n \in 0 .. MaxInt
  PROVE  Base64EncodedLenFor(n) =
           IF 4 * Blocks(n) <= MaxInt THEN 4 * Blocks(n) ELSE MaxInt
<1>1. MaxInt \in Nat /\ n \in Nat
  BY QuarterBounds
<1> DEFINE b == n \div 3 + (IF n % 3 # 0 THEN 1 ELSE 0)
<1>2. b = Blocks(n)
  BY <1>1 DEF Blocks
<1>3. b \in Nat
  BY <1>2, <1>1, BlocksBounds
<1>4. b > MaxInt \div 4 <=> ~(4 * b <= MaxInt)
  BY <1>3, QuarterBounds
<1>5. ~(b > MaxInt \div 4) => Wrap(4 * b) = 4 * b
  BY <1>3, <1>4, QuarterBounds DEF Wrap
<1>6. Base64EncodedLenFor(n) = IF b > MaxInt \div 4 THEN MaxInt
                               ELSE Wrap(4 * b)
  BY DEF Base64EncodedLenFor
<1> HIDE DEF b
<1> QED BY <1>2, <1>4, <1>5, <1>6

\* maxRequestBodyBytesFor (config.go:861-881) is n * 4/3 plus the frame, or
\* the largest int64 exactly when that sum is no int64.
THEOREM BodyBytesExact ==
  ASSUME NEW n \in 0 .. MaxInt
  PROVE  MaxRequestBodyBytesFor(n) =
           IF (4 * n) \div 3 + Frame <= MaxInt THEN (4 * n) \div 3 + Frame
           ELSE MaxInt
<1> DEFINE q == n \div 3
           r == n % 3
           a == 4 * q + (4 * r) \div 3
<1>1. n \in Nat /\ q \in Nat /\ r \in 0 .. 2 /\ n = 3 * q + r
  BY QuarterBounds
<1>2. Frame \in Nat /\ Frame >= 3 /\ Frame <= MaxInt
  BY LimitsAssumption, QuarterBounds
<1>3. a = (4 * n) \div 3 /\ a \in Nat
  BY <1>1
<1>4. q > MaxInt \div 4 => (4 * n) \div 3 + Frame > MaxInt
  BY <1>1, <1>2, QuarterBounds
<1>5. ~(q > MaxInt \div 4) => a <= MaxInt
  BY <1>1, QuarterBounds
<1>6. ~(q > MaxInt \div 4) => Wrap(a) = a
  BY <1>3, <1>5, QuarterBounds DEF Wrap
<1>7. a <= MaxInt - Frame => Wrap(a + Frame) = a + Frame
  BY <1>2, <1>3, QuarterBounds DEF Wrap
<1>8. MaxRequestBodyBytesFor(n) =
        IF q > MaxInt \div 4 \/ Wrap(a) > MaxInt - Frame
        THEN MaxInt ELSE Wrap(Wrap(a) + Frame)
  BY DEF MaxRequestBodyBytesFor
<1> HIDE DEF q, a
<1>9. CASE q > MaxInt \div 4
  BY <1>4, <1>8, <1>9, <1>2, QuarterBounds, <1>3
<1>10. CASE ~(q > MaxInt \div 4)
  <2>1. Wrap(a) = a
    BY <1>10, <1>6
  <2>2. MaxRequestBodyBytesFor(n) =
          IF a > MaxInt - Frame THEN MaxInt ELSE Wrap(a + Frame)
    BY <1>10, <1>8, <2>1
  <2>3. CASE a > MaxInt - Frame
    BY <2>2, <2>3, <1>2, <1>3, QuarterBounds
  <2>4. CASE ~(a > MaxInt - Frame)
    <3>1. a <= MaxInt - Frame
      BY <2>4, <1>2, <1>3, QuarterBounds
    <3> QED BY <3>1, <2>2, <2>4, <1>7, <1>2, <1>3, QuarterBounds
  <2> QED BY <2>3, <2>4
<1> QED BY <1>9, <1>10

-----------------------------------------------------------------------------
\* Before the configuration is read no call has ended, and a call under way
\* has not; only valid content reaches the second gate.
Steps ==
  /\ pc \in {"start", "refused", "encoded", "decode", "decoded", "reading"} =>
       verdict = "none"
  /\ pc = "decoded" => upload.valid

IInv == /\ TypeOK /\ Steps
        /\ WithinLimitPasses /\ PassedIsWithin
        /\ DownloadIsWhole /\ BodyClosed /\ BodyHoldsUpload

\* The encoded gate lets every content in one line pass that is within the
\* limit.
LEMMA LimitBounds ==
  ASSUME NEW m \in 0 .. MaxInt, NEW u \in Uploads,
         u.breaks = 0, u.bytes <= m
  PROVE  ~(EncLen(u) > Base64EncodedLenFor(m))
<1>1. /\ u.bytes \in Nat /\ m \in Nat /\ EncLen(u) <= MaxInt
      /\ EncLen(u) = 4 * Blocks(u.bytes)
  BY LimitsAssumption, QuarterBounds, BlocksBounds DEF EncLen
<1>2. Blocks(u.bytes) <= Blocks(m) /\ Blocks(m) \in Nat
      /\ Blocks(u.bytes) \in Nat
  BY <1>1, BlocksMonotone, BlocksBounds
<1>3. Base64EncodedLenFor(m) =
        IF 4 * Blocks(m) <= MaxInt THEN 4 * Blocks(m) ELSE MaxInt
  BY EncodedLenExact
<1> QED BY <1>1, <1>2, <1>3, QuarterBounds

\* The derived request limit is in range, has room for the upload limit and
\* is the largest integer only if it has to be.
LEMMA BodyBounds ==
  ASSUME NEW n \in 0 .. MaxInt
  PROVE  /\ MaxRequestBodyBytesFor(n) \in 0 .. MaxInt
         /\ \/ MaxRequestBodyBytesFor(n) = MaxInt
            \/ MaxRequestBodyBytesFor(n) >= 4 * Blocks(n) + (Frame - 3)
         /\ MaxRequestBodyBytesFor(n) = MaxInt =>
              (4 * n) \div 3 + Frame >= MaxInt
<1>1. n \in Nat /\ MaxInt \in Nat /\ Frame \in Nat /\ Frame >= 3
  BY LimitsAssumption, QuarterBounds
<1>2. (4 * n) \div 3 \in Nat /\ (4 * n) \div 3 >= 4 * Blocks(n) - 3
      /\ Blocks(n) \in Nat
  BY <1>1 DEF Blocks
<1> QED BY <1>1, <1>2, BodyBytesExact

\* time.Duration(s) * time.Second wraps, but stays an int64.
LEMMA WrapInt ==
  ASSUME NEW x \in Int
  PROVE  Wrap(x) \in Int64
<1>1. CASE x \in Int64
  BY <1>1 DEF Wrap
<1>2. CASE ~(x \in Int64)
  <2> DEFINE w == 2 * (MaxInt + 1)
             y == x + MaxInt + 1
  <2>1. w \in Nat /\ w > 0 /\ y \in Int
    BY QuarterBounds
  <2> HIDE DEF w, y
  <2>2. y % w \in 0 .. w - 1
    BY <2>1
  <2>3. Wrap(x) = (y % w) - (MaxInt + 1)
    BY <1>2 DEF Wrap, w, y
  <2> QED BY <2>2, <2>3, QuarterBounds DEF w
<1> QED BY <1>1, <1>2

-----------------------------------------------------------------------------
\* The invariant holds before anything is configured.
LEMMA InitInv == Init => IInv
<1> SUFFICES ASSUME Init PROVE IInv
  OBVIOUS
<1> USE DEF Init
<1>1. TypeOK
  <2>1. NoLimits \in [upload : 0 .. MaxInt, body : Int64, ttl : Int64,
                      ttlSeconds : 0 .. MaxInt]
    BY QuarterBounds DEF NoLimits
  <2> QED BY <2>1 DEF TypeOK, Verdicts
<1>2. Steps
  BY DEF Steps
<1>3. WithinLimitPasses /\ PassedIsWithin /\ DownloadIsWhole
  BY DEF WithinLimitPasses, PassedIsWithin, DownloadIsWhole
<1>4. BodyClosed
  BY LimitsAssumption DEF BodyClosed
<1>5. BodyHoldsUpload
  BY DEF BodyHoldsUpload
<1> QED BY <1>1, <1>2, <1>3, <1>4, <1>5 DEF IInv

\* What ladeZahlenwerte accepts are int64 values with a limit that is not
\* negative, and the derived limits belong to them.
LEMMA LoadLimits ==
  ASSUME NEW u \in UploadSettings, NEW t \in TtlSettings,
         LadeZahlenwerte(u, t), pc' = "idle"
  PROVE  /\ limits'.upload \in 0 .. MaxInt
         /\ limits'.body = MaxRequestBodyBytesFor(limits'.upload)
         /\ limits' \in [upload : 0 .. MaxInt, body : Int64, ttl : Int64,
                         ttlSeconds : 0 .. MaxInt]
<1> DEFINE max == IntWert(u, DefaultUpload)
           s   == IntWert(t, DefaultTtl)
<1>1. ~Rejected(u) /\ ~Rejected(t)
      /\ limits' = [upload |-> max, body |-> MaxRequestBodyBytesFor(max),
                    ttl |-> Lifetime(s), ttlSeconds |-> s]
  BY DEF LadeZahlenwerte
<1>2. max \in 0 .. MaxInt
  BY <1>1, LimitsAssumption, QuarterBounds DEF Rejected, IntWert
<1>3. s \in 0 .. MaxInt
  BY <1>1, LimitsAssumption, QuarterBounds DEF Rejected, IntWert
<1>4. Lifetime(s) \in Int64
  <2>1. s * Second \in Int
    BY <1>3, LimitsAssumption, QuarterBounds
  <2> QED BY <2>1, WrapInt DEF Lifetime
<1>5. MaxRequestBodyBytesFor(max) \in Int64
  <2>1. MaxRequestBodyBytesFor(max) \in 0 .. MaxInt
    BY <1>2, BodyBounds
  <2> QED BY <2>1, QuarterBounds
<1> HIDE DEF max, s
<1> QED BY <1>1, <1>2, <1>3, <1>4, <1>5

\* Every step keeps it: setting the limits, the gates, and the reader.
LEMMA StepInv == IInv /\ [Next]_vars => IInv'
<1> SUFFICES ASSUME IInv, [Next]_vars PROVE IInv'
  OBVIOUS
<1> USE DEF IInv
<1> DEFINE Ty == [upload : 0 .. MaxInt, body : Int64, ttl : Int64,
                  ttlSeconds : 0 .. MaxInt]
<1>0. /\ MaxInt \in Nat /\ Frame \in Nat /\ BinaryLimit \in Nat
      /\ limits \in Ty /\ limits.upload \in 0 .. MaxInt
      /\ read \in Nat /\ stream \in Nat
  BY LimitsAssumption, QuarterBounds DEF TypeOK
<1>u. ASSUME NEW v \in Uploads
      PROVE  v.bytes \in Nat /\ v.breaks \in Nat /\ v.valid \in BOOLEAN
  BY LimitsAssumption
<1>1. ASSUME NEW u \in UploadSettings, NEW t \in TtlSettings,
             LadeZahlenwerte(u, t)
      PROVE  IInv'
  <2> USE <1>1
  <2>0. /\ UNCHANGED <<upload, stream, read, open, verdict>>
        /\ pc \in {"start", "refused"} /\ verdict = "none"
    BY DEF LadeZahlenwerte, Steps
  <2>1. CASE pc' = "refused" /\ UNCHANGED limits
    <3>1. TypeOK' BY <2>0, <2>1 DEF TypeOK
    <3>2. Steps' BY <2>0, <2>1 DEF Steps
    <3>3. (WithinLimitPasses /\ PassedIsWithin /\ DownloadIsWhole)'
      BY <2>0 DEF WithinLimitPasses, PassedIsWithin, DownloadIsWhole
    <3>4. BodyClosed' BY <2>0, <2>1 DEF BodyClosed
    <3>5. BodyHoldsUpload' BY <2>1 DEF BodyHoldsUpload
    <3> QED BY <3>1, <3>2, <3>3, <3>4, <3>5
  <2>2. CASE pc' = "idle"
    <3>0. /\ limits' \in Ty /\ limits'.upload \in 0 .. MaxInt
          /\ limits'.body = MaxRequestBodyBytesFor(limits'.upload)
      BY <2>2, LoadLimits
    <3>1. TypeOK' BY <2>0, <2>2, <3>0 DEF TypeOK
    <3>2. Steps' BY <2>0, <2>2 DEF Steps
    <3>3. (WithinLimitPasses /\ PassedIsWithin /\ DownloadIsWhole)'
      BY <2>0 DEF WithinLimitPasses, PassedIsWithin, DownloadIsWhole
    <3>4. BodyClosed' BY <2>0, <2>2 DEF BodyClosed
    <3>5. BodyHoldsUpload' BY <3>0, BodyBounds DEF BodyHoldsUpload
    <3> QED BY <3>1, <3>2, <3>3, <3>4, <3>5
  <2> QED BY <2>1, <2>2 DEF LadeZahlenwerte
<1>2. ASSUME NEW u \in Uploads, UploadDocument(u) PROVE IInv'
  <2> USE <1>2 DEF UploadDocument
  <2>1. TypeOK' BY DEF TypeOK, Verdicts
  <2>2. Steps' BY DEF Steps
  <2>3. (WithinLimitPasses /\ PassedIsWithin /\ DownloadIsWhole)'
    BY DEF WithinLimitPasses, PassedIsWithin, DownloadIsWhole
  <2>4. BodyClosed' BY DEF BodyClosed
  <2>5. BodyHoldsUpload' BY DEF BodyHoldsUpload
  <2> QED BY <2>1, <2>2, <2>3, <2>4, <2>5
<1>3. CASE EncodedGate
  <2> USE <1>3 DEF EncodedGate, Answer
  <2>0. verdict = "none" BY DEF Steps
  <2>1. TypeOK' BY DEF TypeOK, Verdicts
  <2>2. Steps' BY <2>0 DEF Steps
  <2>3. WithinLimitPasses'
    <3> SUFFICES ASSUME TooLong, upload.valid, upload.breaks = 0,
                        upload.bytes <= limits.upload
                 PROVE  FALSE
      BY <2>0 DEF WithinLimitPasses
    <3>1. upload \in Uploads BY DEF TypeOK, NoUpload
    <3> QED BY <3>1, <1>0, LimitBounds DEF TooLong
  <2>4. (PassedIsWithin /\ DownloadIsWhole)'
    BY <2>0 DEF PassedIsWithin, DownloadIsWhole
  <2>5. BodyClosed' BY DEF BodyClosed
  <2>6. BodyHoldsUpload' BY DEF BodyHoldsUpload
  <2> QED BY <2>1, <2>2, <2>3, <2>4, <2>5, <2>6
<1>4. CASE Decode
  <2> USE <1>4 DEF Decode, Answer
  <2>0. verdict = "none" BY DEF Steps
  <2>1. TypeOK' BY DEF TypeOK, Verdicts
  <2>2. Steps' BY <2>0 DEF Steps
  <2>3. (WithinLimitPasses /\ PassedIsWithin /\ DownloadIsWhole)'
    BY <2>0 DEF WithinLimitPasses, PassedIsWithin, DownloadIsWhole
  <2>4. BodyClosed' BY DEF BodyClosed
  <2>5. BodyHoldsUpload' BY DEF BodyHoldsUpload
  <2> QED BY <2>1, <2>2, <2>3, <2>4, <2>5
<1>5. CASE DecodedGate
  <2> USE <1>5 DEF DecodedGate, Answer
  <2>0. upload.bytes \in Nat
    BY <1>u DEF TypeOK, NoUpload
  <2>1. TypeOK' BY DEF TypeOK, Verdicts
  <2>2. Steps' BY DEF Steps
  <2>3. (WithinLimitPasses /\ PassedIsWithin /\ DownloadIsWhole)'
    BY <2>0, <1>0 DEF WithinLimitPasses, PassedIsWithin, DownloadIsWhole
  <2>4. BodyClosed' BY DEF BodyClosed
  <2>5. BodyHoldsUpload' BY DEF BodyHoldsUpload
  <2> QED BY <2>1, <2>2, <2>3, <2>4, <2>5
<1>6. ASSUME NEW n \in Streams, Download(n) PROVE IInv'
  <2> USE <1>6 DEF Download
  <2>1. TypeOK' BY LimitsAssumption DEF TypeOK, Verdicts
  <2>2. Steps' BY DEF Steps
  <2>3. (WithinLimitPasses /\ PassedIsWithin /\ DownloadIsWhole)'
    BY DEF WithinLimitPasses, PassedIsWithin, DownloadIsWhole
  <2>4. BodyClosed' BY <1>0 DEF BodyClosed
  <2>5. BodyHoldsUpload' BY DEF BodyHoldsUpload
  <2> QED BY <2>1, <2>2, <2>3, <2>4, <2>5
<1>7. CASE ReadMore
  <2> USE <1>7 DEF ReadMore
  <2>0. verdict = "none" BY DEF Steps
  <2>1. TypeOK' BY <1>0 DEF TypeOK
  <2>2. Steps' BY DEF Steps
  <2>3. (WithinLimitPasses /\ PassedIsWithin /\ DownloadIsWhole)'
    BY <2>0 DEF WithinLimitPasses, PassedIsWithin, DownloadIsWhole
  <2>4. BodyClosed' BY <1>0 DEF BodyClosed, ReadCap
  <2>5. BodyHoldsUpload' BY DEF BodyHoldsUpload
  <2> QED BY <2>1, <2>2, <2>3, <2>4, <2>5
<1>8. CASE ReadBreaks
  <2> USE <1>8 DEF ReadBreaks, Answer
  <2>1. TypeOK' BY DEF TypeOK, Verdicts
  <2>2. Steps' BY DEF Steps
  <2>3. (WithinLimitPasses /\ PassedIsWithin /\ DownloadIsWhole)'
    BY DEF WithinLimitPasses, PassedIsWithin, DownloadIsWhole
  <2>4. BodyClosed' BY DEF BodyClosed
  <2>5. BodyHoldsUpload' BY DEF BodyHoldsUpload
  <2> QED BY <2>1, <2>2, <2>3, <2>4, <2>5
<1>9. CASE ReadEnds
  <2> USE <1>9 DEF ReadEnds, Answer
  <2>1. TypeOK' BY DEF TypeOK, Verdicts
  <2>2. Steps' BY DEF Steps
  <2>3. (WithinLimitPasses /\ PassedIsWithin)'
    BY DEF WithinLimitPasses, PassedIsWithin
  <2>4. DownloadIsWhole' BY <1>0 DEF DownloadIsWhole, ReadCap
  <2>5. BodyClosed' BY DEF BodyClosed
  <2>6. BodyHoldsUpload' BY DEF BodyHoldsUpload
  <2> QED BY <2>1, <2>2, <2>3, <2>4, <2>5, <2>6
<1>10. CASE UNCHANGED vars
  <2> USE <1>10 DEF vars
  <2>1. TypeOK' BY DEF TypeOK
  <2>2. Steps' BY DEF Steps
  <2>3. (WithinLimitPasses /\ PassedIsWithin /\ DownloadIsWhole)'
    BY DEF WithinLimitPasses, PassedIsWithin, DownloadIsWhole
  <2>4. BodyClosed' BY DEF BodyClosed
  <2>5. BodyHoldsUpload' BY DEF BodyHoldsUpload
  <2> QED BY <2>1, <2>2, <2>3, <2>4, <2>5
<1> QED
  BY <1>1, <1>2, <1>3, <1>4, <1>5, <1>6, <1>7, <1>8, <1>9, <1>10 DEF Next

\* For every width of integer, limit and content: content that is encoded in
\* one line and decodes to no more than the limit is not refused as too
\* large, and what passes the gates is within the limit.
THEOREM UploadLimitExact == Spec => [](WithinLimitPasses /\ PassedIsWithin)
<1>1. IInv => WithinLimitPasses /\ PassedIsWithin
  BY DEF IInv
<1> QED BY InitInv, StepInv, <1>1, PTL DEF Spec

\* For every limit and every file: a download that is answered with content
\* is the whole file, and the body of the response is closed at the end.
THEOREM DownloadsWhole == Spec => [](DownloadIsWhole /\ BodyClosed)
<1>1. IInv => DownloadIsWhole /\ BodyClosed
  BY DEF IInv
<1> QED BY InitInv, StepInv, <1>1, PTL DEF Spec

\* The derived request limit has room for every upload within the limit.
THEOREM BodyLimitHolds == Spec => [](TypeOK /\ BodyHoldsUpload)
<1>1. IInv => TypeOK /\ BodyHoldsUpload
  BY DEF IInv
<1> QED BY InitInv, StepInv, <1>1, PTL DEF Spec
=============================================================================
