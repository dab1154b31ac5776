------------------------------ MODULE HiveFile ------------------------------
(***************************************************************************)
(* The file transfers of hive_file.c over the backends' get_file_length,   *)
(* get_file_to_buffer and put_file_from_buffer: a download asks for the    *)
(* length, creates the local file, asks for the length again, fetches the  *)
(* content and writes it; an upload measures the source, reads it in one   *)
(* read and sends it.  Files change between any two of these steps: the    *)
(* remote file of OneDrive by other clients, the source of an upload by    *)
(* other processes.  A file in IPFS never changes, but a node may serve    *)
(* too much or too little of it.                                           *)
(*                                                                         *)
(* A length is an ssize_t, an error code an unsigned int or, with an HTTP  *)
(* status in it, a long: a code that is returned directly arrives as the   *)
(* number 0x81000000 and more, and only one that went through an int is    *)
(* negative.  Bogus is such a number.  It is longer than any file, and     *)
(* than the 0x7ffff000 bytes one write can take.                           *)
(***************************************************************************)
EXTENDS Naturals, Sequences

CONSTANTS
    MaxSize,        \* bound: blocks in a file
    MaxFileSize,    \* HIVE_MAX_FILE_SIZE in blocks
    MaxVersion      \* bound: versions of the files

ASSUME BoundAssumption ==
    MaxSize \in Nat \ {0} /\ MaxFileSize \in Nat /\ MaxVersion \in Nat \ {0}

Backend == {"onedrive", "ipfs"}
Bogus == MaxSize + 1
ErrorText == MaxVersion + 1     \* a block of the body of an error answer

VARIABLES
    remote,     \* by backend, the file the name or the cid stands for
    source,     \* the local file to upload
    version,    \* versions so far, over all files
    pc,
    op,         \* the running or last call: length, buffer, file or put
    backend,    \* and its backend
    room,       \* blocks the buffer holds
    len,        \* the length of the content about to be read or written
    buf,        \* the buffer
    result,
    ret,        \* the length the last call returned
    local,      \* the file at the destination path
    created,    \* observer: it was created by the running or last call
    namesake,   \* a local file named like the remote file exists
    replaced    \* observer: another party changed a file since the call began

files == <<remote, source, version>>
localFiles == <<local, created, namesake>>
call == <<op, backend>>
vars == <<files, pc, call, room, len, buf, result, ret, localFiles, replaced>>

(* Version v of a file, n blocks long: the version number once per block.  *)
Content(v, n) == [i \in 1..n |-> v]
NoSource == <<0>>

(* "foreign" is a file the application put there before, "garbage" what a  *)
(* write of Bogus bytes leaves: memory from the buffer and beyond it.      *)
NoFile == [kind |-> "none", blocks |-> <<>>]
Foreign == [kind |-> "foreign", blocks |-> <<>>]
Garbage == [kind |-> "garbage", blocks |-> <<>>]
File(b) == [kind |-> "downloaded", blocks |-> b]

(* A calloc'ed buffer of n blocks after b was copied to it.                *)
Filled(b, n) == [i \in 1..n |-> IF i <= Len(b) THEN b[i] ELSE 0]

Init ==
    /\ version = 1
    /\ \E n \in 0..MaxSize : remote = [b \in Backend |-> Content(1, n)]
    /\ source \in {NoSource} \cup {Content(1, n) : n \in 0..MaxSize}
    /\ pc = "idle"
    /\ op = "none"
    /\ backend = "onedrive"
    /\ room = 0
    /\ len = 0
    /\ buf = <<>>
    /\ result = "none"
    /\ ret = 0
    /\ local = NoFile
    /\ created = FALSE
    /\ namesake \in BOOLEAN
    /\ replaced = FALSE

-----------------------------------------------------------------------------
(* The calls.                                                              *)

Begin(o, label) ==
    /\ pc = "idle"
    /\ pc' = label
    /\ op' = o
    /\ backend' \in Backend
    /\ result' = "none"
    /\ ret' = 0
    /\ len' = 0
    /\ created' = FALSE
    /\ replaced' = FALSE
    /\ UNCHANGED <<files, local, namesake>>

(* hive_get_file_length, hive_get_file, hive_put_file and their IPFS twins *)
GetLength == Begin("length", "length") /\ room' = 0 /\ buf' = <<>>
GetFile == Begin("file", "length") /\ room' = 0 /\ buf' = <<>>
PutFile == Begin("put", "open_source") /\ room' = 0 /\ buf' = <<>>

(* hive_get_file_to_buffer with room for at least one block                *)
GetToBuffer ==
    /\ Begin("buffer", "info")
    /\ \E n \in 1..MaxSize : room' = n /\ buf' = Filled(<<>>, n)

Return(r, n) ==
    /\ pc' = "idle"
    /\ result' = r
    /\ ret' = n

Fail == Return("failed", 0)

-----------------------------------------------------------------------------
(* Downloads                                                               *)

(* get_file_length.  Answers a node formats badly (IPFS), a name that is   *)
(* too long (OneDrive) and exhausted memory are returned as Bogus.         *)
Length ==
    /\ pc = "length"
    /\ \E n \in {Len(remote[backend]), Bogus} :
          IF op = "length"
          THEN Return("ok", n) /\ UNCHANGED len
          ELSE pc' = "open" /\ len' = n /\ UNCHANGED <<result, ret>>
    /\ UNCHANGED <<files, call, room, buf, localFiles, replaced>>

(* Variant of Open that writes over an existing file (no O_EXCL).          *)
OpenOverwrites ==
    /\ pc = "open"
    /\ local' = File(<<>>)
    /\ created' = TRUE
    /\ room' = len
    /\ buf' = Filled(<<>>, IF len = Bogus THEN MaxSize ELSE len)
    /\ IF len = 0 THEN Return("ok", 0) ELSE pc' = "info" /\ UNCHANGED <<result, ret>>
    /\ UNCHANGED <<files, call, len, namesake, replaced>>

(* open with O_EXCL; an empty file is complete now, otherwise the buffer   *)
(* is allocated, or is not.                                                *)
Open ==
    /\ pc = "open"
    /\ \/ /\ local # NoFile
          /\ Fail
          /\ UNCHANGED <<room, buf, localFiles>>
       \/ /\ local = NoFile
          /\ local' = File(<<>>)
          /\ created' = TRUE
          /\ room' = len
          /\ buf' = Filled(<<>>, IF len = Bogus THEN MaxSize ELSE len)
          /\ \/ len = 0 /\ Return("ok", 0)
             \/ len # 0 /\ pc' = "info" /\ UNCHANGED <<result, ret>>
             \/ len # 0 /\ Fail
          /\ UNCHANGED namesake
    /\ UNCHANGED <<files, call, len, replaced>>

(* get_file_to_buffer returns n to the call it belongs to.                 *)
Deliver(n) ==
    /\ len' = n
    /\ IF op = "buffer" THEN Return("ok", n) ELSE pc' = "write" /\ UNCHANGED <<result, ret>>

(* Variant of Info without the test against the buffer length.             *)
InfoUnchecked ==
    /\ pc = "info"
    /\ IF Len(remote[backend]) = 0 THEN Deliver(0)
       ELSE /\ len' = Len(remote[backend])
            /\ pc' = "read"
            /\ UNCHANGED <<result, ret>>
    /\ UNCHANGED <<files, call, room, buf, localFiles, replaced>>

(* get_file_to_buffer asks for the length again.  HIVEERR_BUFFER_TOO_SMALL *)
(* is returned directly.                                                   *)
Info ==
    /\ pc = "info"
    /\ \E n \in {Len(remote[backend]), Bogus} :
          \/ /\ n > room \/ (backend = "onedrive" /\ n = Bogus)
             /\ Deliver(Bogus)
          \/ n = 0 /\ Deliver(0)
          \/ /\ n \in 1..room
             /\ backend = "onedrive" => n # Bogus
             /\ len' = n
             /\ pc' = "read"
             /\ UNCHANGED <<result, ret>>
    /\ UNCHANGED <<files, call, room, buf, localFiles, replaced>>

(* What the callback has copied when a read does not get through: the      *)
(* beginning of what the file's answer was to bring, or of the body of an  *)
(* error answer, whose status is looked at only when all of it is here.    *)
PartBodies ==
    {Filled(remote[backend], n) : n \in 0..MaxSize} \cup
        {Content(ErrorText, n) : n \in 0..MaxSize}

(* OneDrive: the callback copies whatever arrives and the metadata's       *)
(* length is returned.                                                     *)
ReadOneDrive ==
    /\ pc = "read"
    /\ backend = "onedrive"
    /\ buf' = Filled(remote[backend], Len(buf))
    /\ Deliver(len)
    /\ UNCHANGED <<files, call, room, localFiles, replaced>>

(* More of the file than the buffer holds arrived: memory past it is       *)
(* overwritten.  The process may go on as in ReadOneDrive, or it dies.     *)
Overrun ==
    /\ pc = "read"
    /\ backend = "onedrive"
    /\ Len(remote[backend]) > room
    /\ Return("overrun", 0)
    /\ UNCHANGED <<files, call, room, len, buf, localFiles, replaced>>

(* The body of an error answer of the download URL goes through the same   *)
(* callback and is longer than the buffer (one of Bogus bytes holds it):   *)
(* the process may go on as in ReadFails, or it dies.                      *)
ErrorOverruns ==
    /\ pc = "read"
    /\ backend = "onedrive"
    /\ room < Bogus
    /\ Return("overrun_by_error", 0)
    /\ UNCHANGED <<files, call, room, len, buf, localFiles, replaced>>

(* Variant of ReadIpfs without the comparison of the two lengths.          *)
ReadIpfsShort ==
    /\ pc = "read"
    /\ backend = "ipfs"
    /\ \E n \in 0..MaxSize :
          /\ n <= room
          /\ buf' = Filled(Filled(remote[backend], n), Len(buf))
    /\ Deliver(len)
    /\ UNCHANGED <<files, call, room, localFiles, replaced>>

(* IPFS: what arrived must be as long as the node said                     *)
(* (HIVEERR_BAD_PERSISTENT_DATA, returned directly, as the status of an    *)
(* error answer is).                                                       *)
ReadIpfs ==
    /\ pc = "read"
    /\ backend = "ipfs"
    /\ \/ /\ \E b \in PartBodies : Len(b) <= room /\ buf' = Filled(b, Len(buf))
          /\ Deliver(Bogus)
       \/ /\ len # Bogus
          /\ buf' = Filled(Filled(remote[backend], len), Len(buf))
          /\ Deliver(len)
    /\ UNCHANGED <<files, call, room, localFiles, replaced>>

(* A transport error, the callback of IPFS refusing what does not fit, or  *)
(* an error answer of the download URL, which needs no token and is never  *)
(* answered with "try again".  What arrived so far is in the buffer.       *)
ReadFails ==
    /\ pc = "read"
    /\ \E b \in PartBodies : buf' = Filled(b, Len(buf))
    /\ Fail \/ (backend = "ipfs" /\ Return("try_again", 0))
    /\ UNCHANGED <<files, call, room, len, localFiles, replaced>>

(* Variant of Write that takes every write for a whole one.                *)
WriteUnchecked ==
    /\ pc = "write"
    /\ local' = IF len = Bogus THEN Garbage ELSE File(SubSeq(buf, 1, len))
    /\ Return("ok", len)
    /\ UNCHANGED <<files, call, room, len, buf, created, namesake, replaced>>

Write ==
    /\ pc = "write"
    /\ len # Bogus
    /\ local' = File(SubSeq(buf, 1, len))
    /\ Return("ok", len)
    /\ UNCHANGED <<files, call, room, len, buf, created, namesake, replaced>>

(* A short write, as every write of Bogus bytes is.  hive_get_file removes *)
(* the local file that has the name of the remote one, hive_ipfs_get_file  *)
(* the one it created.                                                     *)
WriteFails ==
    /\ pc = "write"
    /\ len # 0
    /\ Fail
    /\ \/ /\ backend = "onedrive"
          /\ \/ \E n \in 0..Len(buf) : n < len /\ local' = File(SubSeq(buf, 1, n))
             \/ len = Bogus /\ local' = Garbage
          /\ namesake' = FALSE
       \/ /\ backend = "ipfs"
          /\ local' = NoFile
          /\ UNCHANGED namesake
    /\ UNCHANGED <<files, call, room, len, buf, created, replaced>>

-----------------------------------------------------------------------------
(* Uploads                                                                 *)

(* open, lseek to the end and calloc                                       *)
OpenSource ==
    /\ pc = "open_source"
    /\ IF source = NoSource \/ Len(source) > MaxFileSize
       THEN Fail /\ UNCHANGED <<room, buf>>
       ELSE \/ /\ pc' = "read_source"
               /\ room' = Len(source)
               /\ buf' = Filled(<<>>, Len(source))
               /\ UNCHANGED <<result, ret>>
            \/ Fail /\ UNCHANGED <<room, buf>>
    /\ UNCHANGED <<files, call, len, localFiles, replaced>>

(* Variant of ReadSource that sends what a short read left in the buffer.  *)
ReadSourceUnchecked ==
    /\ pc = "read_source"
    /\ \E n \in 0..room : buf' = Filled(SubSeq(source, 1, n), room)
    /\ pc' = "upload"
    /\ UNCHANGED <<files, call, room, len, result, ret, localFiles, replaced>>

(* One read of the measured length from the open file, whole or not.       *)
ReadSource ==
    /\ pc = "read_source"
    /\ \/ Fail /\ UNCHANGED buf
       \/ /\ Len(source) >= room
          /\ buf' = SubSeq(source, 1, room)
          /\ pc' = "upload"
          /\ UNCHANGED <<result, ret>>
    /\ UNCHANGED <<files, call, room, len, localFiles, replaced>>

(* put_file_from_buffer got through.  A new file in IPFS has a new cid,    *)
(* which only the answer tells.                                            *)
Upload ==
    /\ pc = "upload"
    /\ remote' = [remote EXCEPT ![backend] = buf]
    /\ Return("ok", 0)
    /\ UNCHANGED <<source, version, call, room, len, buf, localFiles, replaced>>

(* The drive stored the file and the answer was lost.                      *)
UploadUnanswered ==
    /\ pc = "upload"
    /\ backend = "onedrive"
    /\ remote' = [remote EXCEPT ![backend] = buf]
    /\ Fail
    /\ UNCHANGED <<source, version, call, room, len, buf, localFiles, replaced>>

-----------------------------------------------------------------------------

(* 401, an unreachable node, or any other error of a request that becomes  *)
(* negative.                                                               *)
RequestFails ==
    /\ pc \in {"length", "info", "upload"}
    /\ Fail \/ Return("try_again", 0)
    /\ UNCHANGED <<files, call, room, len, buf, localFiles, replaced>>

(* 200 without the body that is parsed: the process dies.                  *)
EmptyAnswer ==
    /\ pc \in {"length", "info"} \/ (pc = "upload" /\ backend = "ipfs")
    /\ Return("died", 0)
    /\ UNCHANGED <<files, call, room, len, buf, localFiles, replaced>>

(* Another client replaces the OneDrive file.                              *)
Replace ==
    /\ version < MaxVersion
    /\ version' = version + 1
    /\ \E n \in 0..MaxSize : remote' = [remote EXCEPT !["onedrive"] = Content(version + 1, n)]
    /\ replaced' = TRUE
    /\ UNCHANGED <<source, pc, call, room, len, buf, result, ret, localFiles>>

(* Another process writes the source anew.                                 *)
ReplaceSource ==
    /\ version < MaxVersion
    /\ version' = version + 1
    /\ \E n \in 0..MaxSize : source' = Content(version + 1, n)
    /\ replaced' = TRUE
    /\ UNCHANGED <<remote, pc, call, room, len, buf, result, ret, localFiles>>

(* The application moves the downloaded file away, or puts its own there.  *)
UserChangesFile ==
    /\ pc = "idle"
    /\ local' \in {NoFile, Foreign}
    /\ created' = FALSE
    /\ result' = "none"
    /\ UNCHANGED <<files, pc, call, room, len, buf, ret, namesake, replaced>>

Next ==
    \/ GetLength \/ GetFile \/ GetToBuffer \/ PutFile
    \/ Length \/ Open \/ Info \/ ReadOneDrive \/ Overrun \/ ErrorOverruns \/ ReadIpfs
    \/ ReadFails \/ Write \/ WriteFails
    \/ OpenSource \/ ReadSource \/ Upload \/ UploadUnanswered
    \/ RequestFails \/ EmptyAnswer \/ Replace \/ ReplaceSource \/ UserChangesFile

Spec == Init /\ [][Next]_vars

-----------------------------------------------------------------------------
(* Properties.                                                             *)

Block == 0..ErrorText
BlocksUpTo(n) == UNION {[1..m -> Block] : m \in 0..n}

(* Types, and the buffer: a read is never longer than what was allocated.  *)
TypeOK ==
    /\ remote \in [Backend -> BlocksUpTo(MaxSize)]
    /\ source \in BlocksUpTo(MaxSize)
    /\ version \in 1..MaxVersion
    /\ pc \in {"idle", "length", "open", "info", "read", "write",
               "open_source", "read_source", "upload"}
    /\ op \in {"none", "length", "buffer", "file", "put"}
    /\ backend \in Backend
    /\ room \in 0..Bogus
    /\ len \in 0..Bogus
    /\ buf \in BlocksUpTo(MaxSize)
    /\ result \in {"none", "ok", "failed", "try_again", "died", "overrun", "overrun_by_error"}
    /\ ret \in 0..Bogus
    /\ local \in [kind : {"none", "foreign", "garbage", "downloaded"},
                  blocks : BlocksUpTo(MaxSize)]
    /\ created \in BOOLEAN
    /\ namesake \in BOOLEAN
    /\ replaced \in BOOLEAN
    /\ pc = "read" => len <= room
    /\ pc \in {"info", "read"} /\ room # Bogus => Len(buf) = room

(* A download that returns a length delivered exactly the remote file, to  *)
(* the destination or to the buffer, if nobody replaced it meanwhile; in   *)
(* IPFS, where nobody can, whatever the node served.  The body of an error *)
(* answer, which was in the buffer before its status was tested, is never  *)
(* delivered.                                                              *)
DownloadExact ==
    pc = "idle" /\ result = "ok" /\ (replaced => backend = "ipfs") =>
        /\ op = "file" /\ created => local = File(remote[backend])
        /\ op = "buffer" /\ ret # Bogus => SubSeq(buf, 1, ret) = remote[backend]

(* What hive_get_file returns is the length of the file it left, although  *)
(* get_file_to_buffer hands it error codes as lengths: such a write is     *)
(* short and the call fails.                                               *)
ReturnsWhatItWrote ==
    pc = "idle" /\ op = "file" /\ result = "ok" /\ created =>
        local.kind = "downloaded" /\ Len(local.blocks) = ret

(* The content of a file runs over its buffer only if it is a OneDrive     *)
(* file that another client made longer after its length was compared with *)
(* the buffer.  (The body of an error answer is compared with nothing: it  *)
(* may run over at any time, see ErrorOverruns.)                           *)
FileFitsUnlessReplaced ==
    result = "overrun" => backend = "onedrive" /\ replaced

(* No upload stores the zeros of the calloc'ed buffer: a source that       *)
(* shrinks between lseek and read makes the call fail.                     *)
UploadsNotPadded == \A b \in Backend : \A i \in DOMAIN remote[b] : remote[b][i] # 0

(* A file the application had at the destination is never touched: the     *)
(* download fails instead (O_EXCL).                                        *)
ForeignFileKept ==
    [][local.kind = "foreign" /\ pc # "idle" => local' = local]_vars

(* No local file but the destination is touched.  "Source file name" is a  *)
(* name in the backend, "Destination file path" the only local one         *)
(* (ela_hive.h:498, 502).                                                  *)
NamesakeKept == [][namesake' = namesake]_vars

(* "If no error occurs, return the length of the file. Otherwise, return   *)
(* -1" (ela_hive.h:463, 485).                                              *)
LengthsAreLengths ==
    op \in {"length", "buffer"} /\ result = "ok" => ret # Bogus
=============================================================================
