---------------------------- MODULE HiveFileProofs ----------------------------
(***************************************************************************)
(* Proofs about HiveFile, for files of any length and any number of        *)
(* changes of the remote file and of the source.                           *)
(***************************************************************************)
EXTENDS HiveFile, SequenceTheorems, TLAPS

Whole == Seq(Nat \ {0})

-----------------------------------------------------------------------------
(* Types, as far as the proofs need them.  A block of a stored file is     *)
(* never 0; a buffer may hold zeros, except one that is about to be sent.  *)

TypeInv ==
    /\ remote \in [Backend -> Whole]
    /\ source = NoSource \/ source \in Whole
    /\ version \in Nat
    /\ backend \in Backend
    /\ room \in Nat
    /\ len \in Nat
    /\ buf \in Seq(Nat)
    /\ pc = "read_source" => source \in Whole
    /\ pc = "upload" => buf \in Whole

LEMMA WholeIsSeq == ASSUME NEW s \in Whole PROVE s \in Seq(Nat) /\ Len(s) \in Nat
  BY DEF Whole

LEMMA ContentType ==
  ASSUME NEW v \in Nat \ {0}, NEW n \in Nat
  PROVE  Content(v, n) \in Whole
  BY DEF Content, Whole

LEMMA FilledType ==
  ASSUME NEW b \in Seq(Nat), NEW n \in Nat
  PROVE  Filled(b, n) \in Seq(Nat)
<1>1. \A i \in 1..n : (IF i <= Len(b) THEN b[i] ELSE 0) \in Nat
  <2> SUFFICES ASSUME NEW i \in 1..n, i <= Len(b) PROVE b[i] \in Nat
    OBVIOUS
  <2>1. i \in 1..Len(b)
    OBVIOUS
  <2>2. QED
    BY <2>1, ElementOfSeq
<1>2. QED
  BY <1>1 DEF Filled

LEMMA SubSeqType ==
  ASSUME NEW S, NEW b \in Seq(S), NEW n \in Nat, n <= Len(b)
  PROVE  SubSeq(b, 1, n) \in Seq(S) /\ Len(SubSeq(b, 1, n)) = n
  OBVIOUS

LEMMA EmptyType == <<>> \in Seq(Nat)
  OBVIOUS

LEMMA LengthType ==
  ASSUME TypeInv, NEW n \in {Len(remote[backend]), Bogus}
  PROVE  n \in Nat
<1>1. remote[backend] \in Whole
  BY DEF TypeInv
<1>2. QED
  BY <1>1, WholeIsSeq, BoundAssumption DEF Bogus

LEMMA BodyType ==
  ASSUME TypeInv, NEW b \in PartBodies, NEW n \in Nat
  PROVE  Filled(b, n) \in Seq(Nat)
<1>1. remote[backend] \in Seq(Nat) /\ ErrorText \in Nat \ {0}
  BY WholeIsSeq, BoundAssumption DEF TypeInv, ErrorText
<1>2. \A m \in 0..MaxSize :
        Filled(remote[backend], m) \in Seq(Nat) /\ Content(ErrorText, m) \in Seq(Nat)
  <2> SUFFICES ASSUME NEW m \in 0..MaxSize
               PROVE  Filled(remote[backend], m) \in Seq(Nat) /\ Content(ErrorText, m) \in Seq(Nat)
    OBVIOUS
  <2>1. m \in Nat
    BY BoundAssumption
  <2>2. Filled(remote[backend], m) \in Seq(Nat)
    BY <1>1, <2>1, FilledType
  <2>3. Content(ErrorText, m) \in Whole
    BY <1>1, <2>1, ContentType
  <2>4. QED
    BY <2>2, <2>3, WholeIsSeq
<1>3. b \in Seq(Nat)
  BY <1>2 DEF PartBodies
<1>4. QED
  BY <1>3, FilledType

LEMMA TypeInit == Init => TypeInv
<1> SUFFICES ASSUME Init PROVE TypeInv
  OBVIOUS
<1>1. remote \in [Backend -> Whole]
  <2>1. PICK n \in 0..MaxSize : remote = [b \in Backend |-> Content(1, n)]
    BY DEF Init
  <2>2. Content(1, n) \in Whole
    BY ContentType, BoundAssumption
  <2>3. QED
    BY <2>1, <2>2
<1>2. source = NoSource \/ source \in Whole
  <2>1. source = NoSource \/ \E n \in 0..MaxSize : source = Content(1, n)
    BY DEF Init
  <2>2. \A n \in 0..MaxSize : Content(1, n) \in Whole
    BY ContentType, BoundAssumption
  <2>3. QED
    BY <2>1, <2>2
<1>3. QED
  BY <1>1, <1>2, EmptyType DEF Init, TypeInv, Backend

(* Steps that leave files and buffer alone, and send nothing.              *)
LEMMA TypeKept ==
  ASSUME TypeInv, UNCHANGED <<files, room, buf>>, backend' \in Backend, len' \in Nat,
         pc' # "read_source", pc' # "upload"
  PROVE  TypeInv'
  BY DEF TypeInv, files

(* Steps that end, or go on to anything but an upload, with a new buffer.  *)
LEMMA TypeRefilled ==
  ASSUME TypeInv, UNCHANGED files, backend' \in Backend, len' \in Nat, room' \in Nat,
         buf' \in Seq(Nat), pc' # "read_source", pc' # "upload"
  PROVE  TypeInv'
  BY DEF TypeInv, files

LEMMA BeginType ==
  ASSUME TypeInv, GetLength \/ GetFile \/ PutFile \/ GetToBuffer
  PROVE  TypeInv'
<1>1. UNCHANGED files /\ backend' \in Backend /\ len' = 0
      /\ pc' # "read_source" /\ pc' # "upload"
  BY DEF GetLength, GetFile, PutFile, GetToBuffer, Begin
<1>2. room' \in Nat /\ buf' \in Seq(Nat)
  <2>1. CASE room' = 0 /\ buf' = <<>>
    BY <2>1, EmptyType
  <2>2. CASE \E n \in 1..MaxSize : room' = n /\ buf' = Filled(<<>>, n)
    <3>1. PICK n \in 1..MaxSize : room' = n /\ buf' = Filled(<<>>, n)
      BY <2>2
    <3>2. n \in Nat
      BY BoundAssumption
    <3>3. QED
      BY <3>1, <3>2, EmptyType, FilledType
  <2>3. QED
    BY <2>1, <2>2 DEF GetLength, GetFile, PutFile, GetToBuffer
<1>3. QED
  BY <1>1, <1>2, TypeRefilled

LEMMA DownloadType ==
  ASSUME TypeInv,
         Length \/ Open \/ Info \/ ReadOneDrive \/ Overrun \/ ErrorOverruns \/ ReadIpfs
             \/ ReadFails \/ Write \/ WriteFails
  PROVE  TypeInv'
<1>1. CASE Length
  <2>1. len' \in Nat
    BY <1>1, LengthType DEF Length, TypeInv
  <2>2. pc' # "read_source" /\ pc' # "upload" /\ UNCHANGED <<files, room, buf, backend>>
    BY <1>1 DEF Length, Return, call
  <2>3. QED
    BY <2>1, <2>2, TypeKept DEF TypeInv
<1>2. CASE Open
  <2>1. UNCHANGED <<files, backend, len>> /\ pc' # "read_source" /\ pc' # "upload"
    BY <1>2 DEF Open, call, Fail, Return
  <2>2. room' \in Nat /\ buf' \in Seq(Nat)
    <3>1. CASE UNCHANGED <<room, buf>>
      BY <3>1 DEF TypeInv
    <3>2. CASE room' = len /\ buf' = Filled(<<>>, IF len = Bogus THEN MaxSize ELSE len)
      BY <3>2, EmptyType, FilledType, BoundAssumption DEF TypeInv
    <3>3. QED
      BY <1>2, <3>1, <3>2 DEF Open
  <2>3. QED
    BY <2>1, <2>2, TypeRefilled DEF TypeInv
<1>3. CASE Info
  <2>1. len' \in Nat
    BY <1>3, LengthType, BoundAssumption DEF Info, Deliver, Bogus
  <2>2. pc' # "read_source" /\ pc' # "upload" /\ UNCHANGED <<files, room, buf, backend>>
    BY <1>3 DEF Info, Deliver, Return, call
  <2>3. QED
    BY <2>1, <2>2, TypeKept DEF TypeInv
<1>4. CASE ReadOneDrive
  <2>1. pc' # "read_source" /\ pc' # "upload" /\ UNCHANGED <<files, room, backend, len>>
    BY <1>4 DEF ReadOneDrive, Deliver, Return, call
  <2>2. buf' \in Seq(Nat)
    <3>1. remote[backend] \in Seq(Nat) /\ Len(buf) \in Nat
      BY WholeIsSeq DEF TypeInv
    <3>2. QED
      BY <1>4, <3>1, FilledType DEF ReadOneDrive
  <2>3. QED
    BY <2>1, <2>2, TypeRefilled DEF TypeInv
<1>5. CASE ReadIpfs
  <2>1. pc' # "read_source" /\ pc' # "upload" /\ UNCHANGED <<files, room, backend>>
    BY <1>5 DEF ReadIpfs, Deliver, Return, Fail, call
  <2>2. len' \in Nat
    BY <1>5, BoundAssumption DEF ReadIpfs, Deliver, Bogus, TypeInv
  <2>3. buf' \in Seq(Nat)
    <3>1. remote[backend] \in Seq(Nat) /\ Len(buf) \in Nat
      BY WholeIsSeq DEF TypeInv
    <3>2. Filled(Filled(remote[backend], len), Len(buf)) \in Seq(Nat)
      BY <3>1, FilledType DEF TypeInv
    <3>3. \A b \in PartBodies : Filled(b, Len(buf)) \in Seq(Nat)
      BY <3>1, BodyType
    <3>4. QED
      BY <1>5, <3>2, <3>3 DEF ReadIpfs
  <2>4. QED
    BY <2>1, <2>2, <2>3, TypeRefilled DEF TypeInv
<1>6. CASE Overrun \/ ErrorOverruns \/ Write \/ WriteFails
  <2>1. pc' = "idle" /\ UNCHANGED <<files, room, buf, backend, len>>
    BY <1>6 DEF Overrun, ErrorOverruns, Write, WriteFails, Return, Fail, call
  <2>2. QED
    BY <2>1, TypeKept DEF TypeInv
<1>7. CASE ReadFails
  <2>1. pc' = "idle" /\ UNCHANGED <<files, room, backend, len>>
    BY <1>7 DEF ReadFails, Return, Fail, call
  <2>2. PICK b \in PartBodies : buf' = Filled(b, Len(buf))
    BY <1>7 DEF ReadFails
  <2>3. Len(buf) \in Nat
    BY DEF TypeInv
  <2>4. buf' \in Seq(Nat)
    BY <2>2, <2>3, BodyType
  <2>5. QED
    BY <2>1, <2>4, TypeRefilled DEF TypeInv
<1>8. QED
  BY <1>1, <1>2, <1>3, <1>4, <1>5, <1>6, <1>7

(* The source of an upload: the read is whole or the call fails, so what   *)
(* is sent holds no zeros.                                                 *)
LEMMA UploadType ==
  ASSUME TypeInv, OpenSource \/ ReadSource \/ Upload \/ UploadUnanswered
  PROVE  TypeInv'
<1>1. CASE OpenSource
  <2>1. UNCHANGED <<files, backend, len>> /\ pc' # "upload"
    BY <1>1 DEF OpenSource, call, Fail, Return
  <2>2. CASE pc' = "idle" /\ UNCHANGED <<room, buf>>
    BY <2>1, <2>2, TypeKept DEF TypeInv
  <2>3. CASE /\ source # NoSource
             /\ room' = Len(source)
             /\ buf' = Filled(<<>>, Len(source))
    <3>1. source \in Whole /\ Len(source) \in Nat
      BY <2>3, WholeIsSeq DEF TypeInv
    <3>2. room' \in Nat /\ buf' \in Seq(Nat)
      BY <2>3, <3>1, EmptyType, FilledType
    <3>3. QED
      BY <2>1, <3>1, <3>2 DEF TypeInv, files
  <2>4. QED
    BY <1>1, <2>2, <2>3 DEF OpenSource, Fail, Return
<1>2. CASE ReadSource
  <2>1. UNCHANGED <<files, backend, len, room>> /\ pc' # "read_source" /\ source \in Whole
    BY <1>2 DEF ReadSource, call, Fail, Return, TypeInv
  <2>2. CASE pc' = "idle" /\ UNCHANGED buf
    BY <2>1, <2>2, TypeKept DEF TypeInv
  <2>3. CASE Len(source) >= room /\ buf' = SubSeq(source, 1, room)
    <3>1. buf' \in Whole
      BY <2>1, <2>3, SubSeqType DEF TypeInv, Whole
    <3>2. QED
      BY <2>1, <3>1, WholeIsSeq DEF TypeInv, files
  <2>4. QED
    BY <1>2, <2>2, <2>3 DEF ReadSource, Fail, Return
<1>3. CASE Upload \/ UploadUnanswered
  <2>1. pc' = "idle" /\ UNCHANGED <<source, version, backend, len, room, buf>> /\ buf \in Whole
    BY <1>3 DEF Upload, UploadUnanswered, Return, Fail, call, TypeInv
  <2>2. remote' = [remote EXCEPT ![backend] = buf]
    BY <1>3 DEF Upload, UploadUnanswered
  <2>3. remote' \in [Backend -> Whole]
    BY <2>1, <2>2 DEF TypeInv
  <2>4. QED
    BY <2>1, <2>3 DEF TypeInv
<1>4. QED
  BY <1>1, <1>2, <1>3

LEMMA OthersType ==
  ASSUME TypeInv,
         RequestFails \/ EmptyAnswer \/ Replace \/ ReplaceSource \/ UserChangesFile
             \/ UNCHANGED vars
  PROVE  TypeInv'
<1>1. CASE RequestFails \/ EmptyAnswer \/ UserChangesFile
  <2>1. pc' = "idle" /\ UNCHANGED <<files, room, buf, backend, len>>
    BY <1>1 DEF RequestFails, EmptyAnswer, UserChangesFile, Return, Fail, call
  <2>2. QED
    BY <2>1, TypeKept DEF TypeInv
<1>2. CASE Replace
  <2>1. PICK n \in 0..MaxSize : remote' = [remote EXCEPT !["onedrive"] = Content(version + 1, n)]
    BY <1>2 DEF Replace
  <2>2. Content(version + 1, n) \in Whole
    BY ContentType, BoundAssumption DEF TypeInv
  <2>3. remote' \in [Backend -> Whole]
    BY <2>1, <2>2 DEF TypeInv
  <2>4. QED
    BY <1>2, <2>3 DEF Replace, TypeInv, call
<1>3. CASE ReplaceSource
  <2>1. source' \in Whole
    BY <1>3, ContentType, BoundAssumption DEF ReplaceSource, TypeInv
  <2>2. QED
    BY <1>3, <2>1 DEF ReplaceSource, TypeInv, call
<1>4. CASE UNCHANGED vars
  BY <1>4 DEF vars, files, call, TypeInv
<1>5. QED
  BY <1>1, <1>2, <1>3, <1>4

LEMMA TypeStep ==
  ASSUME TypeInv, [Next]_vars
  PROVE  TypeInv'
  BY BeginType, DownloadType, UploadType, OthersType DEF Next

THEOREM TypeInvariance == Spec => []TypeInv
  BY TypeInit, TypeStep, PTL DEF Spec

(* What an upload stores holds no zeros: a source that shrinks between     *)
(* lseek and read makes the call fail.                                     *)
THEOREM UploadsAreNotPadded == Spec => []UploadsNotPadded
<1>1. TypeInv => UploadsNotPadded
  <2> SUFFICES ASSUME TypeInv, NEW b \in Backend, NEW i \in DOMAIN remote[b]
               PROVE  remote[b][i] # 0
    BY DEF UploadsNotPadded
  <2>1. remote[b] \in Seq(Nat \ {0})
    BY DEF TypeInv, Whole
  <2>2. i \in 1..Len(remote[b])
    BY <2>1
  <2>3. remote[b][i] \in Nat \ {0}
    BY <2>1, <2>2, ElementOfSeq
  <2>4. QED
    BY <2>3
<1>2. QED
  BY TypeInvariance, <1>1, PTL

-----------------------------------------------------------------------------
(* The download of OneDrive.  Until somebody replaces the file, the length *)
(* that was compared with the buffer is the one that arrives with it.      *)

FitsInv ==
    /\ FileFitsUnlessReplaced
    /\ pc = "read" /\ backend = "onedrive" /\ ~replaced => Len(remote["onedrive"]) <= room

LEMMA FitsStep ==
  ASSUME TypeInv, FitsInv, [Next]_vars
  PROVE  FitsInv'
<1>1. CASE GetLength \/ GetFile \/ PutFile \/ GetToBuffer
  BY <1>1 DEF GetLength, GetFile, PutFile, GetToBuffer, Begin, FitsInv, FileFitsUnlessReplaced
<1>2. CASE Info
  <2>1. UNCHANGED <<remote, backend, room, replaced>>
    BY <1>2 DEF Info, files, call
  <2>2. result' = result \/ result' = "ok"
    BY <1>2 DEF Info, Deliver, Return
  <2>3. pc' = "read" /\ backend = "onedrive" => Len(remote["onedrive"]) <= room
    BY <1>2 DEF Info, Deliver, Return
  <2>4. QED
    BY <2>1, <2>2, <2>3 DEF FitsInv, FileFitsUnlessReplaced
<1>3. CASE Overrun
  <2>1. Len(remote["onedrive"]) \in Nat /\ room \in Nat
    BY WholeIsSeq DEF TypeInv, Backend
  <2>2. backend = "onedrive" /\ replaced
    BY <1>3, <2>1 DEF Overrun, FitsInv
  <2>3. QED
    BY <1>3, <2>2 DEF Overrun, Return, FitsInv, FileFitsUnlessReplaced, call
<1>4. CASE Replace
  BY <1>4 DEF Replace, FitsInv, FileFitsUnlessReplaced, call
<1>5. CASE UNCHANGED vars
  BY <1>5 DEF vars, files, call, FitsInv, FileFitsUnlessReplaced
<1>6. ASSUME pc' # "read", result' = result \/ result' # "overrun",
             UNCHANGED <<backend, replaced>>
      PROVE  FitsInv'
  BY <1>6 DEF FitsInv, FileFitsUnlessReplaced
<1>7. CASE Length \/ Open \/ ReadOneDrive \/ ErrorOverruns \/ ReadIpfs \/ ReadFails
  BY <1>6, <1>7 DEF Length, Open, ReadOneDrive, ErrorOverruns, ReadIpfs, ReadFails, Deliver,
                    Return, Fail, call
<1>8. CASE Write \/ WriteFails \/ OpenSource \/ ReadSource \/ Upload \/ UploadUnanswered
  BY <1>6, <1>8 DEF Write, WriteFails, OpenSource, ReadSource, Upload, UploadUnanswered,
                    Return, Fail, call
<1>9. CASE RequestFails \/ EmptyAnswer \/ UserChangesFile
  BY <1>6, <1>9 DEF RequestFails, EmptyAnswer, UserChangesFile, Return, Fail, call
<1>10. CASE ReplaceSource
  BY <1>10 DEF ReplaceSource, FitsInv, FileFitsUnlessReplaced, call
<1>11. QED
  BY <1>1, <1>2, <1>3, <1>4, <1>5, <1>7, <1>8, <1>9, <1>10 DEF Next

(* The content of a file runs over its buffer only when another client     *)
(* replaced the OneDrive file after its length was compared with it.       *)
THEOREM FilesFitUnlessReplaced == Spec => []FileFitsUnlessReplaced
<1>1. Init => FitsInv
  BY DEF Init, FitsInv, FileFitsUnlessReplaced
<1>2. FitsInv => FileFitsUnlessReplaced
  BY DEF FitsInv
<1>3. QED
  BY TypeInvariance, <1>1, <1>2, FitsStep, PTL DEF Spec

-----------------------------------------------------------------------------
(* The local file.  A download that has opened its file holds no foreign   *)
(* one any more, and only such a download comes to the write.              *)

LocalInv ==
    /\ pc \in {"info", "read"} /\ op # "buffer" => local.kind # "foreign"
    /\ pc = "write" => local.kind # "foreign"
    /\ pc \in {"open_source", "read_source", "upload"} => op = "put"
    /\ ReturnsWhatItWrote

(* Steps that leave the local file alone and do not return a length.       *)
LEMMA LocalKept ==
  ASSUME LocalInv, UNCHANGED <<local, op>>, result' # "ok",
         pc' \notin {"info", "read", "write", "open_source", "read_source", "upload"}
  PROVE  LocalInv'
  BY DEF LocalInv, ReturnsWhatItWrote

LEMMA LocalStep ==
  ASSUME TypeInv, LocalInv, [Next]_vars
  PROVE  LocalInv'
<1>1. CASE GetLength \/ GetFile \/ PutFile \/ GetToBuffer
  BY <1>1 DEF GetLength, GetFile, PutFile, GetToBuffer, Begin, LocalInv, ReturnsWhatItWrote
<1>2. CASE Length
  BY <1>2 DEF Length, Return, LocalInv, ReturnsWhatItWrote, call, localFiles
<1>3. CASE Open
  <2>1. CASE Fail /\ UNCHANGED <<op, localFiles>>
    BY <2>1, LocalKept DEF Fail, Return, localFiles
  <2>2. CASE local' = File(<<>>)
    <3>1. local'.kind = "downloaded" /\ Len(local'.blocks) = 0
      BY <2>2 DEF File
    <3>2. pc' \in {"idle", "info"} /\ (pc' = "idle" /\ result' = "ok" => ret' = 0)
      BY <1>3 DEF Open, Return, Fail
    <3>3. QED
      BY <3>1, <3>2 DEF LocalInv, ReturnsWhatItWrote
  <2>3. QED
    BY <1>3, <2>1, <2>2 DEF Open, call
<1>4. ASSUME pc \in {"info", "read"}, UNCHANGED <<local, op>>,
             \/ pc' \in {"info", "read"}
             \/ pc' = "write" /\ op # "buffer"
             \/ pc' = "idle" /\ (result' = "ok" => op = "buffer")
      PROVE  LocalInv'
  BY <1>4 DEF LocalInv, ReturnsWhatItWrote
<1>5. CASE Info
  BY <1>4, <1>5 DEF Info, Deliver, Return, call, localFiles
<1>6. CASE ReadOneDrive \/ Overrun \/ ErrorOverruns \/ ReadIpfs \/ ReadFails
  BY <1>4, <1>6 DEF ReadOneDrive, Overrun, ErrorOverruns, ReadIpfs, ReadFails, Deliver, Return,
                    Fail, call, localFiles
<1>7. CASE Write
  <2>1. local' = File(SubSeq(buf, 1, len)) /\ ret' = len /\ pc' = "idle"
    BY <1>7 DEF Write, Return
  <2>2. Len(SubSeq(buf, 1, len)) = len
    BY DEF TypeInv
  <2>3. local'.kind = "downloaded" /\ Len(local'.blocks) = ret'
    BY <2>1, <2>2 DEF File
  <2>4. QED
    BY <2>1, <2>3 DEF LocalInv, ReturnsWhatItWrote
<1>8. CASE WriteFails
  BY <1>8 DEF WriteFails, Fail, Return, LocalInv, ReturnsWhatItWrote
<1>9. CASE OpenSource \/ ReadSource \/ Upload \/ UploadUnanswered
  <2>1. UNCHANGED <<local, op, created>> /\ pc' \in {"idle", "read_source", "upload"}
    BY <1>9 DEF OpenSource, ReadSource, Upload, UploadUnanswered, Return, Fail, call, localFiles
  <2>2. op = "put"
    BY <1>9 DEF OpenSource, ReadSource, Upload, UploadUnanswered, LocalInv
  <2>3. QED
    BY <2>1, <2>2 DEF LocalInv, ReturnsWhatItWrote
<1>10. CASE RequestFails \/ EmptyAnswer
  <2>1. UNCHANGED <<local, op>> /\ pc' = "idle" /\ result' # "ok"
    BY <1>10 DEF RequestFails, EmptyAnswer, Return, Fail, call, localFiles
  <2>2. QED
    BY <2>1, LocalKept
<1>11. CASE UserChangesFile
  BY <1>11 DEF UserChangesFile, LocalInv, ReturnsWhatItWrote
<1>12. CASE Replace \/ ReplaceSource \/ UNCHANGED vars
  <2>1. UNCHANGED <<pc, op, result, ret, local, created>>
    BY <1>12 DEF Replace, ReplaceSource, vars, call, localFiles
  <2>2. QED
    BY <2>1 DEF LocalInv, ReturnsWhatItWrote
<1>13. QED
  BY <1>1, <1>2, <1>3, <1>5, <1>6, <1>7, <1>8, <1>9, <1>10, <1>11, <1>12 DEF Next

(* What hive_get_file returns is the length of the file it left.           *)
THEOREM LengthsOfFilesWritten == Spec => []ReturnsWhatItWrote
<1>1. Init => LocalInv
  BY DEF Init, LocalInv, ReturnsWhatItWrote
<1>2. LocalInv => ReturnsWhatItWrote
  BY DEF LocalInv
<1>3. QED
  BY TypeInvariance, <1>1, <1>2, LocalStep, PTL DEF Spec

(* A file the application had at the destination is never touched while a  *)
(* call runs.                                                              *)
THEOREM ForeignFilesAreKept == Spec => ForeignFileKept
<1>1. Init => LocalInv
  BY DEF Init, LocalInv, ReturnsWhatItWrote
<1>2. LocalInv /\ [Next]_vars => [local.kind = "foreign" /\ pc # "idle" => local' = local]_vars
  <2> SUFFICES ASSUME LocalInv, Next, local.kind = "foreign", pc # "idle"
               PROVE  local' = local
    OBVIOUS
  <2>1. CASE Open
    BY <2>1 DEF Open, localFiles, NoFile
  <2>2. CASE Write \/ WriteFails
    BY <2>2 DEF Write, WriteFails, LocalInv
  <2>3. CASE GetLength \/ GetFile \/ PutFile \/ GetToBuffer \/ UserChangesFile
    BY <2>3 DEF GetLength, GetFile, PutFile, GetToBuffer, Begin, UserChangesFile
  <2>4. CASE Length \/ Info \/ ReadOneDrive \/ Overrun \/ ErrorOverruns \/ ReadIpfs \/ ReadFails
    BY <2>4 DEF Length, Info, ReadOneDrive, Overrun, ErrorOverruns, ReadIpfs, ReadFails,
                localFiles
  <2>5. CASE OpenSource \/ ReadSource \/ Upload \/ UploadUnanswered
    BY <2>5 DEF OpenSource, ReadSource, Upload, UploadUnanswered, localFiles
  <2>6. CASE RequestFails \/ EmptyAnswer \/ Replace \/ ReplaceSource
    BY <2>6 DEF RequestFails, EmptyAnswer, Replace, ReplaceSource, localFiles
  <2>7. QED
    BY <2>1, <2>2, <2>3, <2>4, <2>5, <2>6 DEF Next
<1>3. QED
  BY TypeInvariance, <1>1, <1>2, LocalStep, PTL DEF Spec, ForeignFileKept

-----------------------------------------------------------------------------
(* Sizes.  Files are within the bound; the buffer of a download has room   *)
(* blocks, or as many as any file has when it was allocated for Bogus.     *)

SizeInv ==
    /\ \A b \in Backend : Len(remote[b]) <= MaxSize
    /\ source # NoSource => Len(source) <= MaxSize
    /\ pc = "upload" => Len(buf) <= MaxSize

BufferInv ==
    /\ pc \in {"info", "read"} => Len(buf) = IF room = Bogus THEN MaxSize ELSE room
    /\ pc = "read" => len <= room

LEMMA ContentSize ==
  ASSUME NEW v, NEW n \in 0..MaxSize
  PROVE  Len(Content(v, n)) = n /\ Len(Content(v, n)) <= MaxSize
  BY BoundAssumption DEF Content

LEMMA FilledSize ==
  ASSUME NEW b, NEW n \in Nat
  PROVE  Len(Filled(b, n)) = n
  BY DEF Filled

LEMMA SizeInit == Init => SizeInv
<1> SUFFICES ASSUME Init PROVE SizeInv
  OBVIOUS
<1>1. PICK n \in 0..MaxSize : remote = [b \in Backend |-> Content(1, n)]
  BY DEF Init
<1>2. \A b \in Backend : Len(remote[b]) <= MaxSize
  BY <1>1, ContentSize
<1>3. source # NoSource => Len(source) <= MaxSize
  BY ContentSize DEF Init
<1>4. QED
  BY <1>2, <1>3 DEF Init, SizeInv

LEMMA SizeStep ==
  ASSUME TypeInv, SizeInv, [Next]_vars
  PROVE  SizeInv'
<1>1. ASSUME UNCHANGED <<remote, source>>, pc' # "upload" PROVE SizeInv'
  BY <1>1 DEF SizeInv
<1>2. CASE GetLength \/ GetFile \/ PutFile \/ GetToBuffer
  BY <1>1, <1>2 DEF GetLength, GetFile, PutFile, GetToBuffer, Begin, files
<1>3. CASE Length \/ Open \/ Info \/ ReadOneDrive \/ ReadIpfs
  BY <1>1, <1>3 DEF Length, Open, Info, ReadOneDrive, ReadIpfs, Deliver, Return, Fail, files
<1>4. CASE Overrun \/ ErrorOverruns \/ ReadFails \/ Write \/ WriteFails \/ OpenSource
             \/ RequestFails \/ EmptyAnswer \/ UserChangesFile
  BY <1>1, <1>4 DEF Overrun, ErrorOverruns, ReadFails, Write, WriteFails, OpenSource,
                    RequestFails, EmptyAnswer, UserChangesFile, Return, Fail, files
<1>5. CASE ReadSource
  <2>1. UNCHANGED <<remote, source>> /\ source \in Whole
    BY <1>5 DEF ReadSource, files, TypeInv
  <2>2. CASE Fail
    BY <1>1, <2>1, <2>2 DEF Fail, Return
  <2>3. CASE Len(source) >= room /\ buf' = SubSeq(source, 1, room)
    <3>1. Len(buf') = room /\ Len(source) \in Nat /\ room \in Nat
      BY <2>1, <2>3, SubSeqType, WholeIsSeq DEF TypeInv, Whole
    <3>2. source # NoSource
      <4>1. NoSource \notin Whole
        <5> SUFFICES ASSUME NoSource \in Seq(Nat \ {0}) PROVE FALSE
          BY DEF Whole
        <5>1. Len(NoSource) = 1 /\ NoSource[1] = 0
          BY DEF NoSource
        <5>2. NoSource[1] \in Nat \ {0}
          BY <5>1, ElementOfSeq
        <5>3. QED
          BY <5>1, <5>2
      <4>2. QED
        BY <2>1, <4>1
    <3>3. Len(buf') <= MaxSize
      BY <2>3, <3>1, <3>2, BoundAssumption DEF SizeInv
    <3>4. QED
      BY <2>1, <3>3 DEF SizeInv
  <2>4. QED
    BY <1>5, <2>2, <2>3 DEF ReadSource
<1>6. CASE Upload \/ UploadUnanswered
  <2>1. /\ pc = "upload" /\ pc' = "idle" /\ UNCHANGED source
        /\ remote' = [remote EXCEPT ![backend] = buf]
    BY <1>6 DEF Upload, UploadUnanswered, Return, Fail
  <2>2. \A b \in Backend : remote'[b] = IF b = backend THEN buf ELSE remote[b]
    BY <2>1 DEF TypeInv
  <2>3. QED
    BY <2>1, <2>2 DEF SizeInv
<1>7. CASE Replace
  <2>1. PICK n \in 0..MaxSize : remote' = [remote EXCEPT !["onedrive"] = Content(version + 1, n)]
    BY <1>7 DEF Replace
  <2>2. \A b \in Backend : remote'[b] = IF b = "onedrive" THEN Content(version + 1, n)
                                        ELSE remote[b]
    BY <2>1 DEF TypeInv
  <2>3. UNCHANGED <<source, pc, buf>>
    BY <1>7 DEF Replace
  <2>4. QED
    BY <2>2, <2>3, ContentSize DEF SizeInv
<1>8. CASE ReplaceSource
  BY <1>8, ContentSize DEF ReplaceSource, SizeInv
<1>9. CASE UNCHANGED vars
  BY <1>9 DEF vars, files, SizeInv
<1>10. QED
  BY <1>2, <1>3, <1>4, <1>5, <1>6, <1>7, <1>8, <1>9 DEF Next

LEMMA BufferStep ==
  ASSUME TypeInv, SizeInv, BufferInv, [Next]_vars
  PROVE  BufferInv'
<1>1. ASSUME pc' \notin {"info", "read"} PROVE BufferInv'
  BY <1>1 DEF BufferInv
<1>2. CASE GetLength \/ GetFile \/ PutFile
  BY <1>1, <1>2 DEF GetLength, GetFile, PutFile, Begin
<1>3. CASE GetToBuffer
  <2>1. PICK n \in 1..MaxSize : room' = n /\ buf' = Filled(<<>>, n)
    BY <1>3 DEF GetToBuffer
  <2>2. n # Bogus /\ Len(buf') = n
    BY <2>1, FilledSize, BoundAssumption DEF Bogus
  <2>3. QED
    BY <1>3, <2>1, <2>2 DEF GetToBuffer, Begin, BufferInv
<1>4. CASE Open
  <2>1. CASE pc' = "idle"
    BY <1>1, <2>1
  <2>2. CASE pc' = "info"
    <3>1. room' = len /\ buf' = Filled(<<>>, IF len = Bogus THEN MaxSize ELSE len)
      BY <1>4, <2>2 DEF Open, Fail, Return
    <3>2. Len(buf') = IF len = Bogus THEN MaxSize ELSE len
      BY <3>1, FilledSize, BoundAssumption DEF TypeInv
    <3>3. QED
      BY <2>2, <3>1, <3>2 DEF BufferInv
  <2>3. QED
    BY <1>4, <2>1, <2>2 DEF Open, Fail, Return
<1>5. CASE Info
  <2>1. UNCHANGED <<room, buf>> /\ pc = "info"
    BY <1>5 DEF Info
  <2>2. CASE pc' = "read"
    <3>1. len' <= room
      BY <1>5, <2>2 DEF Info, Deliver, Return
    <3>2. QED
      BY <2>1, <2>2, <3>1 DEF BufferInv
  <2>3. CASE pc' \in {"idle", "write"}
    BY <1>1, <2>3
  <2>4. QED
    BY <1>5, <2>2, <2>3 DEF Info, Deliver, Return
<1>6. CASE Length \/ ReadOneDrive \/ Overrun \/ ErrorOverruns \/ ReadIpfs \/ ReadFails
             \/ Write \/ WriteFails
  BY <1>1, <1>6 DEF Length, ReadOneDrive, Overrun, ErrorOverruns, ReadIpfs, ReadFails, Write,
                    WriteFails, Deliver, Return, Fail
<1>7. CASE OpenSource \/ ReadSource \/ Upload \/ UploadUnanswered \/ RequestFails \/ EmptyAnswer
             \/ UserChangesFile
  BY <1>1, <1>7 DEF OpenSource, ReadSource, Upload, UploadUnanswered, RequestFails, EmptyAnswer,
                    UserChangesFile, Return, Fail
<1>8. CASE Replace \/ ReplaceSource \/ UNCHANGED vars
  BY <1>8 DEF Replace, ReplaceSource, vars, BufferInv
<1>9. QED
  BY <1>2, <1>3, <1>4, <1>5, <1>6, <1>7, <1>8 DEF Next

-----------------------------------------------------------------------------
(* What a download delivers.  As long as the file is the one the call      *)
(* began with, a length is that of the file or an error code, and what the *)
(* buffer holds of it is the file.                                         *)

Intact == replaced => backend = "ipfs"

(* The first n blocks of the buffer b are the file f.                      *)
Holds(b, n, f) == n = Len(f) /\ SubSeq(b, 1, n) = f

ExactInv ==
    /\ Intact =>
          /\ pc = "open" => len \in {Bogus, Len(remote[backend])}
          /\ pc = "read" =>
                \/ len = Bogus /\ backend = "ipfs"
                \/ len = Len(remote[backend]) /\ len <= Len(buf)
          /\ pc = "write" => len = Bogus \/ Holds(buf, len, remote[backend])
    /\ DownloadExact

LEMMA FilledHolds ==
  ASSUME NEW f \in Seq(Nat), NEW m \in Nat, Len(f) <= m
  PROVE  Holds(Filled(f, m), Len(f), f)
<1> DEFINE b == Filled(f, m)
           p == SubSeq(b, 1, Len(f))
<1>1. b \in Seq(Nat) /\ Len(b) = m
  BY FilledType, FilledSize
<1>2. p \in Seq(Nat) /\ Len(p) = Len(f)
  BY <1>1, SubSeqType
<1>3. ASSUME NEW i \in 1..Len(f) PROVE p[i] = f[i]
  <2>1. p[i] = b[i]
    BY <1>1
  <2>2. b[i] = f[i]
    BY DEF Filled
  <2>3. QED
    BY <2>1, <2>2
<1>4. p = f
  BY <1>2, <1>3, SeqEqual
<1>5. QED
  BY <1>4 DEF Holds

LEMMA FilledWhole ==
  ASSUME NEW f \in Seq(Nat)
  PROVE  Filled(f, Len(f)) = f
<1>1. Filled(f, Len(f)) \in Seq(Nat) /\ Len(Filled(f, Len(f))) = Len(f)
  BY FilledType, FilledSize
<1>2. \A i \in 1..Len(f) : Filled(f, Len(f))[i] = f[i]
  BY DEF Filled
<1>3. QED
  BY <1>1, <1>2, SeqEqual

LEMMA EmptyHolds ==
  ASSUME NEW b \in Seq(Nat), NEW f \in Seq(Nat), Len(f) = 0
  PROVE  Holds(b, 0, f)
<1>1. f = <<>> /\ SubSeq(b, 1, 0) = <<>>
  OBVIOUS
<1>2. QED
  BY <1>1 DEF Holds

(* Most steps of a call deliver nothing and rely on no length.             *)
LEMMA ExactKept ==
  ASSUME pc' \notin {"open", "read", "write"},
         pc' = "idle" /\ result' = "ok" => op' \notin {"file", "buffer"}
  PROVE  ExactInv'
  BY DEF ExactInv, DownloadExact

(* get_file_to_buffer delivers n: the error code, or the whole file.       *)
LEMMA DeliverExact ==
  ASSUME NEW n \in Nat, Deliver(n), UNCHANGED <<remote, backend, op, replaced>>,
         Intact => n = Bogus \/ Holds(buf', n, remote[backend])
  PROVE  ExactInv'
<1>1. CASE op = "buffer"
  <2>1. pc' = "idle" /\ ret' = n /\ op' = "buffer"
    BY <1>1 DEF Deliver, Return
  <2>2. QED
    BY <2>1 DEF ExactInv, DownloadExact, Intact, Holds
<1>2. CASE op # "buffer"
  BY <1>2 DEF Deliver, ExactInv, DownloadExact, Intact, Holds
<1>3. QED
  BY <1>1, <1>2

LEMMA RemoteIsSeq ==
  ASSUME TypeInv, SizeInv
  PROVE  /\ remote[backend] \in Seq(Nat)
         /\ Len(remote[backend]) \in 0..MaxSize
         /\ Bogus \in Nat /\ Bogus > MaxSize /\ MaxSize \in Nat
         /\ Bogus # Len(remote[backend])
<1>1. remote[backend] \in Whole /\ Len(remote[backend]) <= MaxSize
  BY DEF TypeInv, SizeInv
<1>2. QED
  BY <1>1, WholeIsSeq, BoundAssumption DEF Bogus

(* The steps that read, from the file the call began with.                 *)
LEMMA ReadExact ==
  ASSUME TypeInv, SizeInv, BufferInv, ExactInv, ReadOneDrive \/ ReadIpfs
  PROVE  ExactInv'
<1> DEFINE f == remote[backend]
<1>0. f \in Seq(Nat) /\ Len(f) \in 0..MaxSize /\ Bogus # Len(f) /\ Bogus > MaxSize
      /\ Bogus \in Nat /\ MaxSize \in Nat
  BY RemoteIsSeq
<1>1. Len(buf) \in Nat /\ len \in Nat /\ room \in Nat
  BY DEF TypeInv
<1>2. CASE ReadOneDrive
  <2>1. /\ Deliver(len) /\ UNCHANGED <<remote, backend, op, replaced>>
        /\ buf' = Filled(f, Len(buf)) /\ pc = "read" /\ backend = "onedrive"
    BY <1>2 DEF ReadOneDrive, files, call
  <2>2. Intact => Holds(buf', len, f)
    BY <1>0, <1>1, <2>1, FilledHolds DEF ExactInv
  <2>3. QED
    BY <1>1, <2>1, <2>2, DeliverExact
<1>3. CASE ReadIpfs
  <2>1. \/ Deliver(Bogus)
        \/ /\ len # Bogus
           /\ buf' = Filled(Filled(f, len), Len(buf))
           /\ Deliver(len)
    BY <1>3 DEF ReadIpfs
  <2>2. UNCHANGED <<remote, backend, op, replaced>> /\ pc = "read" /\ backend = "ipfs"
    BY <1>3 DEF ReadIpfs, files, call
  <2>3. CASE Deliver(Bogus)
    BY <1>0, <2>2, <2>3, DeliverExact
  <2>4. CASE len # Bogus /\ Deliver(len) /\ buf' = Filled(Filled(f, len), Len(buf))
    <3>1. len = Len(f) /\ len <= Len(buf)
      BY <2>2, <2>4 DEF ExactInv, Intact
    <3>2. buf' = Filled(f, Len(buf))
      BY <1>0, <2>4, <3>1, FilledWhole
    <3>3. Holds(buf', len, f)
      BY <1>0, <1>1, <3>1, <3>2, FilledHolds
    <3>4. QED
      BY <1>1, <2>2, <2>4, <3>3, DeliverExact
  <2>5. QED
    BY <2>1, <2>3, <2>4
<1>4. QED
  BY <1>2, <1>3

LEMMA ExactStep ==
  ASSUME TypeInv, SizeInv, BufferInv, LocalInv, ExactInv, [Next]_vars
  PROVE  ExactInv'
<1> DEFINE f == remote[backend]
<1>0. f \in Seq(Nat) /\ Len(f) \in 0..MaxSize /\ Bogus # Len(f) /\ Bogus > MaxSize
      /\ Bogus \in Nat /\ MaxSize \in Nat
  BY RemoteIsSeq
<1>1. Len(buf) \in Nat /\ buf \in Seq(Nat) /\ len \in Nat /\ room \in Nat
  BY DEF TypeInv
<1>2. CASE GetLength \/ GetFile \/ PutFile \/ GetToBuffer
  BY <1>2, ExactKept DEF GetLength, GetFile, PutFile, GetToBuffer, Begin
<1>3. CASE Length
  <2>1. CASE op = "length"
    BY <1>3, <2>1, ExactKept DEF Length, Return, call
  <2>2. CASE op # "length"
    <3>1. pc' = "open" /\ len' \in {Bogus, Len(f)} /\ UNCHANGED <<remote, backend>>
      BY <1>3, <2>2 DEF Length, files, call
    <3>2. QED
      BY <3>1 DEF ExactInv, DownloadExact
  <2>3. QED
    BY <2>1, <2>2
<1>4. CASE Open
  <2>1. CASE pc' = "info" \/ Fail
    BY <2>1, ExactKept DEF Fail, Return
  <2>2. CASE len = 0 /\ Return("ok", 0) /\ local' = File(<<>>)
    <3>1. UNCHANGED <<remote, backend, op, replaced>> /\ buf' = Filled(<<>>, 0) /\ pc = "open"
      BY <1>0, <1>4, <2>2 DEF Open, files, call, Fail, Return
    <3>2. Intact => Len(f) = 0
      BY <1>0, <2>2, <3>1 DEF ExactInv
    <3>3. buf' \in Seq(Nat)
      BY <3>1, EmptyType, FilledType
    <3>4. Intact => Holds(buf', 0, f) /\ f = <<>>
      BY <1>0, <3>2, <3>3, EmptyHolds
    <3>5. QED
      BY <2>2, <3>1, <3>4 DEF ExactInv, DownloadExact, Intact, Holds, Return
  <2>3. QED
    BY <1>4, <2>1, <2>2 DEF Open
<1>5. CASE Info
  <2>1. PICK n \in {Len(f), Bogus} :
          \/ /\ n > room \/ (backend = "onedrive" /\ n = Bogus)
             /\ Deliver(Bogus)
          \/ n = 0 /\ Deliver(0)
          \/ /\ n \in 1..room
             /\ backend = "onedrive" => n # Bogus
             /\ len' = n
             /\ pc' = "read"
    BY <1>5 DEF Info
  <2>2. UNCHANGED <<remote, backend, op, replaced, buf, room>> /\ pc = "info"
    BY <1>5 DEF Info, files, call
  <2>3. CASE Deliver(Bogus)
    BY <1>0, <2>2, <2>3, DeliverExact
  <2>4. CASE n = 0 /\ Deliver(0)
    <3>1. Len(f) = 0
      BY <1>0, <2>1, <2>4
    <3>2. Holds(buf', 0, f)
      BY <1>0, <1>1, <2>2, <3>1, EmptyHolds
    <3>3. QED
      BY <2>2, <2>4, <3>2, DeliverExact
  <2>5. CASE /\ n \in 1..room
             /\ backend = "onedrive" => n # Bogus
             /\ len' = n
             /\ pc' = "read"
    <3>1. backend \in Backend
      BY DEF TypeInv
    <3>2. n = Len(f) => n <= Len(buf)
      BY <1>0, <1>1, <2>2, <2>5 DEF BufferInv
    <3>3. n = Bogus => backend = "ipfs"
      BY <2>5, <3>1 DEF Backend
    <3>4. QED
      BY <2>1, <2>2, <2>5, <3>2, <3>3 DEF ExactInv, DownloadExact
  <2>6. QED
    BY <2>1, <2>3, <2>4, <2>5
<1>6. CASE ReadOneDrive \/ ReadIpfs
  BY <1>6, ReadExact
<1>7. CASE Write
  <2>1. /\ pc = "write" /\ len # Bogus /\ local' = File(SubSeq(buf, 1, len))
        /\ pc' = "idle" /\ ret' = len /\ UNCHANGED <<remote, backend, op, replaced, buf>>
    BY <1>7 DEF Write, Return, files, call
  <2>2. Intact => SubSeq(buf, 1, len) = f
    BY <2>1 DEF ExactInv, Holds
  <2>3. QED
    BY <2>1, <2>2 DEF ExactInv, DownloadExact, Intact
<1>8. CASE Overrun \/ ErrorOverruns \/ ReadFails \/ WriteFails \/ RequestFails \/ EmptyAnswer
             \/ UserChangesFile
  BY <1>8, ExactKept DEF Overrun, ErrorOverruns, ReadFails, WriteFails, RequestFails,
                         EmptyAnswer, UserChangesFile, Fail, Return
<1>9. CASE OpenSource \/ ReadSource \/ Upload \/ UploadUnanswered
  <2>1. pc' \in {"idle", "read_source", "upload"} /\ op' = "put"
    BY <1>9 DEF OpenSource, ReadSource, Upload, UploadUnanswered, Fail, Return, call, LocalInv
  <2>2. QED
    BY <2>1, ExactKept
<1>10. CASE Replace
  <2>1. /\ replaced' /\ UNCHANGED <<pc, op, backend, len, buf, result, ret, local, created>>
        /\ backend = "ipfs" => UNCHANGED f
    BY <1>10 DEF Replace, call, localFiles, TypeInv
  <2>2. Intact' => backend = "ipfs" /\ Intact
    BY <2>1 DEF Intact
  <2>3. QED
    BY <2>1, <2>2 DEF ExactInv, DownloadExact
<1>11. CASE ReplaceSource \/ UNCHANGED vars
  <2>1. /\ UNCHANGED <<remote, pc, op, backend, len, buf, result, ret, local, created>>
        /\ replaced => replaced'
    BY <1>11 DEF ReplaceSource, vars, files, call, localFiles
  <2>2. Intact' => Intact
    BY <2>1 DEF Intact
  <2>3. QED
    BY <2>1, <2>2 DEF ExactInv, DownloadExact, Intact
<1>12. QED
  BY <1>2, <1>3, <1>4, <1>5, <1>6, <1>7, <1>8, <1>9, <1>10, <1>11 DEF Next

(* A download that returns a length delivered the remote file, unless      *)
(* another client replaced it meanwhile; and in IPFS whatever the node     *)
(* served.  The body of an error answer is copied to the same buffer and   *)
(* never delivered.                                                        *)
THEOREM DownloadsAreExact == Spec => []DownloadExact
<1>1. Init => BufferInv /\ LocalInv /\ ExactInv
  BY DEF Init, BufferInv, LocalInv, ReturnsWhatItWrote, ExactInv, DownloadExact
<1>2. TypeInv /\ SizeInv /\ BufferInv /\ LocalInv /\ ExactInv /\ [Next]_vars
      => (SizeInv /\ BufferInv /\ LocalInv /\ ExactInv)'
  BY SizeStep, BufferStep, LocalStep, ExactStep
<1>3. ExactInv => DownloadExact
  BY DEF ExactInv
<1>4. QED
  BY TypeInvariance, SizeInit, <1>1, <1>2, <1>3, PTL DEF Spec

-----------------------------------------------------------------------------
(* The types in full, and the buffer: what is written comes from it.       *)

(* The files within the bounds.                                            *)
Blocks == BlocksUpTo(MaxSize)

FileTypes ==
    /\ remote \in [Backend -> Blocks]
    /\ source \in Blocks
    /\ version \in 1..MaxVersion
    /\ local \in [kind : {"none", "foreign", "garbage", "downloaded"}, blocks : Blocks]
    /\ created \in BOOLEAN /\ namesake \in BOOLEAN /\ replaced \in BOOLEAN

CallTypes ==
    /\ pc \in {"idle", "length", "open", "info", "read", "write",
               "open_source", "read_source", "upload"}
    /\ op \in {"none", "length", "buffer", "file", "put"}
    /\ backend \in Backend
    /\ room \in 0..Bogus /\ len \in 0..Bogus /\ ret \in 0..Bogus
    /\ buf \in Blocks
    /\ result \in {"none", "ok", "failed", "try_again", "died", "overrun", "overrun_by_error"}

WriteInv == pc = "write" => len = Bogus \/ len <= Len(buf)

FullInv ==
    /\ FileTypes
    /\ CallTypes
    /\ BufferInv
    /\ WriteInv

LEMMA BlocksAre ==
  ASSUME NEW s
  PROVE  s \in Blocks <=> s \in Seq(Block) /\ Len(s) \in 0..MaxSize
<1>1. ASSUME s \in Blocks PROVE s \in Seq(Block) /\ Len(s) \in 0..MaxSize
  <2>1. PICK m \in 0..MaxSize : s \in [1..m -> Block]
    BY <1>1 DEF Blocks, BlocksUpTo
  <2>2. m \in Nat
    BY BoundAssumption
  <2>3. QED
    BY <2>1, <2>2, SeqDef
<1>2. ASSUME s \in Seq(Block), Len(s) \in 0..MaxSize PROVE s \in Blocks
  <2>1. s \in [1..Len(s) -> Block]
    BY <1>2
  <2>2. QED
    BY <1>2, <2>1 DEF Blocks, BlocksUpTo
<1>3. QED
  BY <1>1, <1>2

LEMMA Bounds ==
  /\ MaxSize \in Nat /\ MaxSize >= 1 /\ MaxVersion \in Nat /\ MaxVersion >= 1
  /\ Bogus \in Nat /\ Bogus = MaxSize + 1 /\ 0 \in Block /\ ErrorText = MaxVersion + 1
  BY BoundAssumption DEF Bogus, Block, ErrorText

LEMMA FilledBlocks ==
  ASSUME NEW b \in Seq(Block), NEW n \in 0..MaxSize
  PROVE  Filled(b, n) \in Blocks /\ Len(Filled(b, n)) = n
<1>1. n \in Nat
  BY Bounds
<1>2. \A i \in 1..n : (IF i <= Len(b) THEN b[i] ELSE 0) \in Block
  <2> SUFFICES ASSUME NEW i \in 1..n, i <= Len(b) PROVE b[i] \in Block
    BY Bounds
  <2>1. i \in 1..Len(b)
    BY <1>1
  <2>2. QED
    BY <2>1, ElementOfSeq
<1> HIDE DEF Block
<1>3. Filled(b, n) \in Seq(Block) /\ Len(Filled(b, n)) = n
  BY <1>1, <1>2 DEF Filled
<1>4. QED
  BY <1>3, BlocksAre

LEMMA EmptyBlocks == <<>> \in Seq(Block) /\ <<>> \in Blocks
<1>1. <<>> \in Seq(Block) /\ Len(<<>>) \in 0..MaxSize
  BY Bounds
<1>2. QED
  BY <1>1, BlocksAre

LEMMA BeginningBlocks ==
  ASSUME NEW b \in Blocks, NEW n \in Nat, n <= Len(b)
  PROVE  SubSeq(b, 1, n) \in Blocks
<1>1. b \in Seq(Block) /\ Len(b) \in 0..MaxSize
  BY BlocksAre
<1>2. SubSeq(b, 1, n) \in Seq(Block) /\ Len(SubSeq(b, 1, n)) = n
  BY <1>1, SubSeqType
<1>3. n \in 0..MaxSize
  BY <1>1, Bounds
<1>4. QED
  BY <1>2, <1>3, BlocksAre

LEMMA ContentBlocks ==
  ASSUME NEW v \in Block, NEW n \in 0..MaxSize
  PROVE  Content(v, n) \in Blocks
<1> HIDE DEF Block
<1>1. Content(v, n) \in Seq(Block) /\ Len(Content(v, n)) = n
  BY Bounds DEF Content
<1>2. QED
  BY <1>1, BlocksAre

LEMMA FullInit == Init => FullInv
<1> SUFFICES ASSUME Init PROVE FullInv
  OBVIOUS
<1>1. 1 \in Block /\ \A n \in 0..MaxSize : Content(1, n) \in Blocks
  <2>1. 1 \in Block
    BY Bounds DEF Block
  <2>2. QED
    BY <2>1, ContentBlocks
<1>2. NoSource \in Blocks
  <2>1. NoSource \in Seq(Block) /\ Len(NoSource) \in 0..MaxSize
    BY Bounds DEF NoSource
  <2>2. QED
    BY <2>1, BlocksAre
<1>3. remote \in [Backend -> Blocks] /\ source \in Blocks
  BY <1>1, <1>2 DEF Init
<1>4. version \in 1..MaxVersion
  BY Bounds DEF Init
<1>5. FileTypes
  BY <1>3, <1>4, EmptyBlocks DEF Init, FileTypes, NoFile
<1>6. CallTypes
  BY EmptyBlocks, Bounds DEF Init, CallTypes, Backend
<1>7. QED
  BY <1>5, <1>6 DEF Init, FullInv, BufferInv, WriteInv

LEMMA RemoteBlocks ==
  ASSUME FullInv
  PROVE  /\ remote[backend] \in Blocks /\ remote[backend] \in Seq(Block)
         /\ Len(remote[backend]) \in 0..MaxSize /\ Len(remote[backend]) \in 0..Bogus
         /\ Bogus \in 0..Bogus /\ 0 \in 0..Bogus
<1>1. remote[backend] \in Blocks
  BY DEF FullInv, FileTypes, CallTypes
<1>2. QED
  BY <1>1, BlocksAre, Bounds

LEMMA BufBlocks ==
  ASSUME FullInv
  PROVE  buf \in Seq(Block) /\ Len(buf) \in 0..MaxSize /\ Len(buf) \in Nat
  BY BlocksAre, Bounds DEF FullInv, CallTypes

LEMMA BodyBlocks ==
  ASSUME FullInv, NEW b \in PartBodies
  PROVE  Filled(b, Len(buf)) \in Blocks /\ Len(Filled(b, Len(buf))) = Len(buf)
<1>1. ErrorText \in Block
  BY Bounds DEF Block
<1>2. \A n \in 0..MaxSize :
        Filled(remote[backend], n) \in Blocks /\ Content(ErrorText, n) \in Blocks
  BY <1>1, RemoteBlocks, FilledBlocks, ContentBlocks
<1>3. b \in Blocks
  BY <1>2 DEF PartBodies
<1>4. b \in Seq(Block) /\ Len(buf) \in 0..MaxSize
  BY <1>3, BlocksAre, BufBlocks
<1>5. QED
  BY <1>4, FilledBlocks

(* A step of a call that touches no file.                                  *)
LEMMA FileTypesKept ==
  ASSUME FullInv, UNCHANGED <<files, localFiles, replaced>>
  PROVE  FileTypes'
  BY DEF FullInv, FileTypes, files, localFiles

(* The end of a call.                                                      *)
LEMMA ReturnTypes ==
  ASSUME FullInv,
         NEW r \in {"ok", "failed", "try_again", "died", "overrun", "overrun_by_error"},
         NEW n \in 0..Bogus, Return(r, n),
         UNCHANGED call, room' \in 0..Bogus, len' \in 0..Bogus, buf' \in Blocks
  PROVE  CallTypes' /\ WriteInv'
  BY DEF FullInv, CallTypes, WriteInv, Return, call

LEMMA BeginTypes ==
  ASSUME FullInv, GetLength \/ GetFile \/ PutFile \/ GetToBuffer
  PROVE  FileTypes' /\ CallTypes' /\ WriteInv'
<1>1. PICK o \in {"length", "buffer", "file", "put"},
           label \in {"length", "open_source", "info"} : Begin(o, label)
  BY DEF GetLength, GetFile, PutFile, GetToBuffer
<1>2. room' \in 0..Bogus /\ buf' \in Blocks
  <2>1. CASE room' = 0 /\ buf' = <<>>
    BY <2>1, EmptyBlocks, Bounds
  <2>2. CASE \E n \in 1..MaxSize : room' = n /\ buf' = Filled(<<>>, n)
    <3>1. PICK n \in 1..MaxSize : room' = n /\ buf' = Filled(<<>>, n)
      BY <2>2
    <3>2. n \in 0..MaxSize /\ n \in 0..Bogus
      BY Bounds
    <3>3. QED
      BY <3>1, <3>2, EmptyBlocks, FilledBlocks
  <2>3. QED
    BY <2>1, <2>2 DEF GetLength, GetFile, PutFile, GetToBuffer
<1>3. FileTypes'
  BY <1>1 DEF FullInv, FileTypes, Begin, files
<1>4. CallTypes' /\ WriteInv'
  BY <1>1, <1>2, Bounds DEF FullInv, CallTypes, WriteInv, Begin
<1>5. QED
  BY <1>3, <1>4

LEMMA LengthTypes ==
  ASSUME FullInv, Length
  PROVE  FileTypes' /\ CallTypes' /\ WriteInv'
<1>1. FileTypes'
  BY FileTypesKept DEF Length
<1>2. PICK n \in {Len(remote[backend]), Bogus} :
         IF op = "length" THEN Return("ok", n) /\ UNCHANGED len
         ELSE pc' = "open" /\ len' = n /\ UNCHANGED <<result, ret>>
  BY DEF Length
<1>3. n \in 0..Bogus
  BY RemoteBlocks
<1>4. CallTypes' /\ WriteInv'
  BY <1>2, <1>3 DEF Length, Return, FullInv, CallTypes, WriteInv, call
<1>5. QED
  BY <1>1, <1>4

LEMMA OpenTypes ==
  ASSUME FullInv, Open
  PROVE  FileTypes' /\ CallTypes' /\ WriteInv'
<1>1. FileTypes'
  <2>1. CASE UNCHANGED localFiles
    BY <2>1, FileTypesKept DEF Open
  <2>2. CASE local' = File(<<>>) /\ created' = TRUE /\ UNCHANGED namesake
    BY <2>2, EmptyBlocks DEF Open, FullInv, FileTypes, File, files
  <2>3. QED
    BY <2>1, <2>2 DEF Open
<1>2. room' \in 0..Bogus /\ buf' \in Blocks
  <2>1. CASE UNCHANGED <<room, buf>>
    BY <2>1 DEF FullInv, CallTypes
  <2>2. CASE room' = len /\ buf' = Filled(<<>>, IF len = Bogus THEN MaxSize ELSE len)
    <3>1. len \in 0..Bogus
      BY DEF FullInv, CallTypes
    <3>2. (IF len = Bogus THEN MaxSize ELSE len) \in 0..MaxSize
      BY <3>1, Bounds
    <3>3. QED
      BY <2>2, <3>1, <3>2, EmptyBlocks, FilledBlocks
  <2>3. QED
    BY <2>1, <2>2 DEF Open
<1>3. CallTypes' /\ WriteInv'
  BY <1>2, Bounds DEF Open, Fail, Return, FullInv, CallTypes, WriteInv, call
<1>4. QED
  BY <1>1, <1>3

LEMMA DeliverTypes ==
  ASSUME FullInv, NEW n \in 0..Bogus, Deliver(n), n = Bogus \/ n <= Len(buf'),
         UNCHANGED <<call, room>>, buf' \in Blocks
  PROVE  CallTypes' /\ WriteInv'
<1>1. CASE op = "buffer"
  <2>1. Return("ok", n) /\ len' = n
    BY <1>1 DEF Deliver
  <2>2. QED
    BY <2>1, ReturnTypes DEF FullInv, CallTypes
<1>2. CASE op # "buffer"
  BY <1>2 DEF Deliver, FullInv, CallTypes, WriteInv, call
<1>3. QED
  BY <1>1, <1>2

LEMMA InfoTypes ==
  ASSUME FullInv, Info
  PROVE  FileTypes' /\ CallTypes' /\ WriteInv'
<1>1. FileTypes'
  BY FileTypesKept DEF Info
<1>2. PICK n \in {Len(remote[backend]), Bogus} :
          \/ Deliver(Bogus)
          \/ n = 0 /\ Deliver(0)
          \/ n \in 1..room /\ len' = n /\ pc' = "read" /\ UNCHANGED <<result, ret>>
  BY DEF Info
<1>3. UNCHANGED <<call, room, buf>> /\ buf \in Blocks
  BY DEF Info, FullInv, CallTypes
<1>4. n \in 0..Bogus /\ 0 <= Len(buf)
  BY RemoteBlocks, BufBlocks
<1>5. CASE Deliver(Bogus) \/ Deliver(0)
  BY <1>1, <1>3, <1>4, <1>5, RemoteBlocks, DeliverTypes
<1>6. CASE n \in 1..room /\ len' = n /\ pc' = "read" /\ UNCHANGED <<result, ret>>
  BY <1>1, <1>3, <1>4, <1>6, Bounds DEF FullInv, CallTypes, WriteInv, call
<1>7. QED
  BY <1>1, <1>2, <1>5, <1>6

(* What is read fits into the buffer, or is an error code.                 *)
LEMMA ReadTypes ==
  ASSUME FullInv, ReadOneDrive \/ ReadIpfs \/ ReadFails
  PROVE  FileTypes' /\ CallTypes' /\ WriteInv'
<1>1. FileTypes'
  BY FileTypesKept DEF ReadOneDrive, ReadIpfs, ReadFails
<1>2. UNCHANGED <<call, room>> /\ pc = "read"
  BY DEF ReadOneDrive, ReadIpfs, ReadFails
<1>3. len \in 0..Bogus /\ (len = Bogus \/ len <= Len(buf))
  BY <1>2, BufBlocks, Bounds DEF FullInv, CallTypes, BufferInv
<1>4. CASE ReadOneDrive
  <2>1. buf' = Filled(remote[backend], Len(buf)) /\ Deliver(len)
    BY <1>4 DEF ReadOneDrive
  <2>2. buf' \in Blocks /\ Len(buf') = Len(buf)
    BY <2>1, RemoteBlocks, BufBlocks, FilledBlocks
  <2>3. QED
    BY <1>1, <1>2, <1>3, <2>1, <2>2, DeliverTypes
<1>5. CASE ReadIpfs
  <2>1. CASE \E b \in PartBodies : buf' = Filled(b, Len(buf)) /\ Deliver(Bogus)
    <3>1. PICK b \in PartBodies : buf' = Filled(b, Len(buf)) /\ Deliver(Bogus)
      BY <2>1
    <3>2. buf' \in Blocks /\ Len(buf') = Len(buf)
      BY <3>1, BodyBlocks
    <3>3. QED
      BY <1>1, <1>2, <1>3, <3>1, <3>2, RemoteBlocks, DeliverTypes
  <2>2. CASE /\ len # Bogus
             /\ buf' = Filled(Filled(remote[backend], len), Len(buf))
             /\ Deliver(len)
    <3>1. len \in 0..MaxSize
      BY <1>3, <2>2, Bounds
    <3>2. Filled(remote[backend], len) \in Seq(Block)
      BY <3>1, RemoteBlocks, FilledBlocks, BlocksAre
    <3>3. buf' \in Blocks /\ Len(buf') = Len(buf)
      BY <2>2, <3>2, BufBlocks, FilledBlocks
    <3>4. QED
      BY <1>1, <1>2, <1>3, <2>2, <3>3, RemoteBlocks, DeliverTypes
  <2>3. QED
    BY <1>5, <2>1, <2>2 DEF ReadIpfs
<1>6. CASE ReadFails
  <2>1. PICK b \in PartBodies : buf' = Filled(b, Len(buf))
    BY <1>6 DEF ReadFails
  <2>2. buf' \in Blocks
    BY <2>1, BodyBlocks
  <2>3. len' \in 0..Bogus /\ room' \in 0..Bogus
    BY <1>6 DEF ReadFails, FullInv, CallTypes
  <2>4. Return("failed", 0) \/ Return("try_again", 0)
    BY <1>6 DEF ReadFails, Fail
  <2>5. QED
    BY <1>1, <1>2, <2>2, <2>3, <2>4, RemoteBlocks, ReturnTypes
<1>7. QED
  BY <1>4, <1>5, <1>6

LEMMA WriteTypes ==
  ASSUME FullInv, Write \/ WriteFails
  PROVE  FileTypes' /\ CallTypes' /\ WriteInv'
<1>1. pc = "write" /\ UNCHANGED <<files, call, room, len, buf, created, replaced>>
  BY DEF Write, WriteFails
<1>2. buf \in Blocks /\ len \in 0..Bogus
  BY DEF FullInv, CallTypes
<1>3. CASE Write
  <2>1. len \in Nat /\ len <= Len(buf)
    BY <1>1, <1>2, <1>3, Bounds DEF Write, FullInv, WriteInv
  <2>2. SubSeq(buf, 1, len) \in Blocks
    BY <1>2, <2>1, BeginningBlocks
  <2>3. FileTypes'
    BY <1>1, <1>3, <2>2 DEF Write, FullInv, FileTypes, File, files
  <2>4. CallTypes' /\ WriteInv'
    BY <1>1, <1>2, <1>3, ReturnTypes DEF Write, FullInv, CallTypes
  <2>5. QED
    BY <2>3, <2>4
<1>4. CASE WriteFails
  <2>1. \A n \in 0..Len(buf) : SubSeq(buf, 1, n) \in Blocks
    BY <1>2, BufBlocks, BeginningBlocks
  <2>2. local' \in [kind : {"none", "foreign", "garbage", "downloaded"}, blocks : Blocks]
    <3>1. /\ Garbage \in [kind : {"none", "foreign", "garbage", "downloaded"}, blocks : Blocks]
          /\ NoFile \in [kind : {"none", "foreign", "garbage", "downloaded"}, blocks : Blocks]
      BY EmptyBlocks DEF Garbage, NoFile
    <3>2. \A n \in 0..Len(buf) : File(SubSeq(buf, 1, n))
             \in [kind : {"none", "foreign", "garbage", "downloaded"}, blocks : Blocks]
      BY <2>1 DEF File
    <3>3. \/ \E n \in 0..Len(buf) : local' = File(SubSeq(buf, 1, n))
          \/ local' = Garbage
          \/ local' = NoFile
      BY <1>4 DEF WriteFails
    <3>4. QED
      BY <3>1, <3>2, <3>3
  <2>3. namesake' \in BOOLEAN
    BY <1>4 DEF WriteFails, FullInv, FileTypes
  <2>4. FileTypes'
    BY <1>1, <2>2, <2>3 DEF FullInv, FileTypes, files
  <2>5. CallTypes' /\ WriteInv'
    BY <1>1, <1>2, <1>4, RemoteBlocks, ReturnTypes DEF WriteFails, Fail, FullInv, CallTypes
  <2>6. QED
    BY <2>4, <2>5
<1>5. QED
  BY <1>3, <1>4

LEMMA UploadTypes ==
  ASSUME FullInv, OpenSource \/ ReadSource \/ Upload \/ UploadUnanswered
  PROVE  FileTypes' /\ CallTypes' /\ WriteInv'
<1>0. /\ source \in Blocks /\ source \in Seq(Block) /\ Len(source) \in 0..MaxSize
      /\ buf \in Blocks /\ room \in 0..Bogus /\ len \in 0..Bogus
  BY BlocksAre DEF FullInv, FileTypes, CallTypes
<1>1. CASE OpenSource
  <2>1. FileTypes'
    BY <1>1, FileTypesKept DEF OpenSource
  <2>2. \/ Fail /\ UNCHANGED <<room, buf>>
        \/ /\ pc' = "read_source"
           /\ room' = Len(source)
           /\ buf' = Filled(<<>>, Len(source))
           /\ UNCHANGED <<result, ret>>
    BY <1>1 DEF OpenSource
  <2>3. UNCHANGED <<call, len>>
    BY <1>1 DEF OpenSource
  <2>4. CASE Fail /\ UNCHANGED <<room, buf>>
    BY <1>0, <2>1, <2>3, <2>4, RemoteBlocks, ReturnTypes DEF Fail
  <2>5. CASE /\ pc' = "read_source"
             /\ room' = Len(source)
             /\ buf' = Filled(<<>>, Len(source))
             /\ UNCHANGED <<result, ret>>
    <3>1. room' \in 0..Bogus /\ buf' \in Blocks
      <4>1. Len(source) \in 0..Bogus
        BY <1>0, Bounds
      <4>2. Filled(<<>>, Len(source)) \in Blocks
        BY <1>0, EmptyBlocks, FilledBlocks
      <4>3. QED
        BY <2>5, <4>1, <4>2
    <3>2. CallTypes'
      BY <1>0, <2>3, <2>5, <3>1 DEF FullInv, CallTypes, call
    <3>3. QED
      BY <2>1, <2>5, <3>2 DEF WriteInv
  <2>6. QED
    BY <2>2, <2>4, <2>5
<1>2. CASE ReadSource
  <2>1. FileTypes'
    BY <1>2, FileTypesKept DEF ReadSource
  <2>2. UNCHANGED <<call, room, len>>
    BY <1>2 DEF ReadSource
  <2>3. CASE Fail /\ UNCHANGED buf
    BY <1>0, <2>1, <2>2, <2>3, RemoteBlocks, ReturnTypes DEF Fail
  <2>4. CASE /\ Len(source) >= room
             /\ buf' = SubSeq(source, 1, room)
             /\ pc' = "upload"
             /\ UNCHANGED <<result, ret>>
    <3>1. room \in Nat /\ room <= Len(source)
      BY <1>0, <2>4, Bounds
    <3>2. buf' \in Blocks
      BY <1>0, <2>4, <3>1, BeginningBlocks
    <3>3. QED
      BY <2>1, <2>2, <2>4, <3>2 DEF FullInv, CallTypes, WriteInv, call
  <2>5. QED
    BY <1>2, <2>3, <2>4 DEF ReadSource
<1>3. CASE Upload \/ UploadUnanswered
  <2>1. /\ remote' = [remote EXCEPT ![backend] = buf]
        /\ UNCHANGED <<source, version, call, room, len, buf, localFiles, replaced>>
        /\ Return("ok", 0) \/ Return("failed", 0)
    BY <1>3 DEF Upload, UploadUnanswered, Fail
  <2>2. FileTypes'
    BY <1>0, <2>1 DEF FullInv, FileTypes, localFiles
  <2>3. CallTypes' /\ WriteInv'
    BY <1>0, <2>1, RemoteBlocks, ReturnTypes
  <2>4. QED
    BY <2>2, <2>3
<1>4. QED
  BY <1>1, <1>2, <1>3

LEMMA OthersTypes ==
  ASSUME FullInv,
         Overrun \/ ErrorOverruns \/ RequestFails \/ EmptyAnswer \/ Replace \/ ReplaceSource
             \/ UserChangesFile \/ UNCHANGED vars
  PROVE  FileTypes' /\ CallTypes' /\ WriteInv'
<1>0. /\ buf \in Blocks /\ room \in 0..Bogus /\ len \in 0..Bogus
  BY DEF FullInv, CallTypes
<1>1. CASE Overrun \/ ErrorOverruns \/ RequestFails \/ EmptyAnswer
  <2>1. /\ \E r \in {"ok", "failed", "try_again", "died", "overrun", "overrun_by_error"} :
              Return(r, 0)
        /\ UNCHANGED <<files, call, room, len, buf, localFiles, replaced>>
    BY <1>1 DEF Overrun, ErrorOverruns, RequestFails, EmptyAnswer, Fail
  <2>2. FileTypes'
    BY <2>1, FileTypesKept
  <2>3. CallTypes' /\ WriteInv'
    BY <1>0, <2>1, RemoteBlocks, ReturnTypes
  <2>4. QED
    BY <2>2, <2>3
<1>2. ASSUME version < MaxVersion PROVE version + 1 \in 1..MaxVersion /\ version + 1 \in Block
  BY <1>2, Bounds DEF FullInv, FileTypes, Block
<1>3. CASE Replace
  <2>1. PICK n \in 0..MaxSize :
          remote' = [remote EXCEPT !["onedrive"] = Content(version + 1, n)]
    BY <1>3 DEF Replace
  <2>2. remote' \in [Backend -> Blocks]
    BY <1>2, <1>3, <2>1, ContentBlocks DEF Replace, FullInv, FileTypes
  <2>3. QED
    BY <1>2, <1>3, <2>2 DEF Replace, FullInv, FileTypes, CallTypes, WriteInv, call, localFiles
<1>4. CASE ReplaceSource
  <2>1. source' \in Blocks
    BY <1>2, <1>4, ContentBlocks DEF ReplaceSource
  <2>2. QED
    BY <1>2, <1>4, <2>1 DEF ReplaceSource, FullInv, FileTypes, CallTypes, WriteInv, call, localFiles
<1>5. CASE UserChangesFile
  <2>1. local' \in [kind : {"none", "foreign", "garbage", "downloaded"}, blocks : Blocks]
    BY <1>5, EmptyBlocks DEF UserChangesFile, NoFile, Foreign
  <2>2. QED
    BY <1>5, <2>1 DEF UserChangesFile, FullInv, FileTypes, CallTypes, WriteInv, call, files
<1>6. CASE UNCHANGED vars
  BY <1>6 DEF vars, FullInv, FileTypes, CallTypes, WriteInv, call, files, localFiles
<1>7. QED
  BY <1>1, <1>3, <1>4, <1>5, <1>6

LEMMA FullStep ==
  ASSUME TypeInv, SizeInv, FullInv, [Next]_vars
  PROVE  FullInv'
<1>1. FileTypes' /\ CallTypes' /\ WriteInv'
  BY BeginTypes, LengthTypes, OpenTypes, InfoTypes, ReadTypes, WriteTypes, UploadTypes,
     OthersTypes DEF Next
<1>2. BufferInv'
  BY BufferStep DEF FullInv
<1>3. QED
  BY <1>1, <1>2 DEF FullInv

(* Whatever length a file, a node or an error code has, a download or an   *)
(* upload reads no more into the buffer than what was allocated, and what  *)
(* it leaves at any step is a file within the bounds.                      *)
THEOREM TypeCorrect == Spec => []TypeOK
<1>1. FullInv => TypeOK
  BY Bounds DEF FullInv, FileTypes, CallTypes, BufferInv, Blocks, TypeOK
<1>2. TypeInv /\ SizeInv /\ FullInv /\ [Next]_vars => (SizeInv /\ FullInv)'
  BY SizeStep, FullStep
<1>3. QED
  BY TypeInvariance, SizeInit, FullInit, <1>1, <1>2, PTL DEF Spec
=============================================================================
