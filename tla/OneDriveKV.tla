----------------------------- MODULE OneDriveKV -----------------------------
(***************************************************************************)
(* The key-value operations of the OneDrive backend (put_value, set_value, *)
(* get_values and delete_key of vendors/onedrive/onedrive.c) on the file   *)
(* "/KeyValues/<key>" of one key.                                          *)
(*                                                                         *)
(* Every operation is a sequence of HTTP requests; the drive executes each *)
(* request atomically and nothing ties one request to the next, so clients *)
(* interleave between any two.  A request may fail instead (no token, 401, *)
(* transport error, other status), before or after the drive carried it    *)
(* out.                                                                    *)
(*                                                                         *)
(* The file is a sequence of 4-byte words.  An entry is a length word and  *)
(* that many words of value: lengths are multiples of 4 here.  A missing   *)
(* file and an empty one behave alike in all four operations.              *)
(***************************************************************************)
EXTENDS Naturals, Sequences

CONSTANTS
    Client,     \* connections that use the key
    Writer,     \* those that put, set and delete
    Value,      \* values: non-empty sequences of words
    NoValue,    \* the value argument of calls that have none
    MaxLen,     \* HIVE_MAX_VALUE_LEN in words
    MaxWords    \* bound: words in the file

ASSUME WriterAssumption == Writer \subseteq Client
ASSUME ValueAssumption == Value \subseteq {v \in Seq(Nat) : Len(v) \in 1..MaxLen}
ASSUME NoValueAssumption == NoValue \notin Value
ASSUME BoundAssumption == MaxLen \in Nat /\ MaxWords \in Nat

VARIABLES
    file,       \* contents of the remote file
    pc,         \* what each client is about to request
    call,       \* its call: kind and value
    size,       \* the length __get_file_length returned
    fsize,      \* the length __get_file_to_buffer was told
    buf,        \* the buffer: words read, words to upload
    reply,      \* outcome of the client's last call
    got,        \* values its callback received
    history     \* observer: the contents of the file since the call began

vars == <<file, pc, call, size, fsize, buf, reply, got, history>>

-----------------------------------------------------------------------------
(* Encoding                                                                *)

(* Variant of Encode whose length word is one short.                       *)
EncodeShort(v) == <<Len(v) - 1>> \o v

Encode(v) == <<Len(v)>> \o v

Zeros(n) == [i \in 1..n |-> 0]

(* Variant of Buffer that loses the last word that arrives.                *)
BufferShort(words, n) == SubSeq(words \o Zeros(n), 1, n - 1) \o <<0>>

(* The first n words of a calloc'ed buffer into which words were written.  *)
Buffer(words, n) ==
    SubSeq(words \o Zeros(n), 1, n)

(* One round of the loop of get_values: what the words of b from the length *)
(* word i on yield, given what they yield from the later length words.     *)
Round(b, i, walk) ==
    LET rest == Len(b) - i
        n == b[i]
        value == SubSeq(b, i + 1, i + n)
    IN  IF n > MaxLen \/ n > rest \/ rest - n = 1
        THEN [values |-> <<>>, complete |-> FALSE]
        ELSE IF rest = n THEN [values |-> <<value>>, complete |-> TRUE]
        ELSE [values |-> <<value>> \o walk[i + n + 1].values,
              complete |-> walk[i + n + 1].complete]

Walk(b) == LET walk[i \in 1..Len(b)] == Round(b, i, walk) IN walk

(* The loop over the words of b: the values handed to the callback and     *)
(* whether it ended on the last word.                                      *)
Entries(b) ==
    IF b = <<>> THEN [values |-> <<>>, complete |-> TRUE]
    ELSE IF Len(b) = 1 THEN [values |-> <<>>, complete |-> FALSE]
    ELSE Walk(b)[1]

-----------------------------------------------------------------------------

NoCall == [kind |-> "none", value |-> NoValue]

Init ==
    /\ file = <<>>
    /\ pc = [c \in Client |-> "idle"]
    /\ call = [c \in Client |-> NoCall]
    /\ size = [c \in Client |-> 0]
    /\ fsize = [c \in Client |-> 0]
    /\ buf = [c \in Client |-> <<>>]
    /\ reply = [c \in Client |-> "none"]
    /\ got = [c \in Client |-> <<>>]
    /\ history = [c \in Client |-> {}]

Goto(c, label) == pc' = [pc EXCEPT ![c] = label]

Begin(c, kind, v, label) ==
    /\ pc[c] = "idle"
    /\ Goto(c, label)
    /\ call' = [call EXCEPT ![c] = [kind |-> kind, value |-> v]]
    /\ reply' = [reply EXCEPT ![c] = "none"]
    /\ got' = [got EXCEPT ![c] = <<>>]
    /\ history' = [history EXCEPT ![c] = {file}]
    /\ UNCHANGED <<file, size, fsize>>

(* The call returns r after its callback received vals.                    *)
Finish(c, r, vals) ==
    /\ Goto(c, "idle")
    /\ call' = [call EXCEPT ![c] = NoCall]
    /\ size' = [size EXCEPT ![c] = 0]
    /\ fsize' = [fsize EXCEPT ![c] = 0]
    /\ buf' = [buf EXCEPT ![c] = <<>>]
    /\ reply' = [reply EXCEPT ![c] = r]
    /\ got' = [got EXCEPT ![c] = vals]

(* The drive replaces the file: every client in a call observes it.        *)
Replace(words) ==
    /\ Len(words) <= MaxWords
    /\ file' = words
    /\ history' = [c \in Client |->
                     IF call[c] = NoCall THEN history[c] ELSE history[c] \cup {words}]

-----------------------------------------------------------------------------
(* The calls.                                                              *)

Put(c) == \E v \in Value :
    c \in Writer /\ Begin(c, "put", v, "length") /\ UNCHANGED buf

Set(c) == \E v \in Value :
    c \in Writer /\ Begin(c, "set", v, "upload") /\ buf' = [buf EXCEPT ![c] = Encode(v)]

Get(c) == Begin(c, "get", NoValue, "length") /\ UNCHANGED buf

Delete(c) ==
    c \in Writer /\ Begin(c, "delete", NoValue, "delete") /\ UNCHANGED buf

-----------------------------------------------------------------------------
(* __get_file_length; 404 counts as length 0.                              *)

Length(c) ==
    /\ pc[c] = "length"
    /\ \/ /\ Len(file) > 0
          /\ call[c].kind = "get" => Len(file) > 1
          /\ Goto(c, "info")
          /\ size' = [size EXCEPT ![c] = Len(file)]
          /\ UNCHANGED <<call, fsize, buf, reply, got>>
       \/ /\ Len(file) = 0
          /\ call[c].kind = "put"
          /\ Goto(c, "upload")
          /\ buf' = [buf EXCEPT ![c] = Encode(call[c].value)]
          /\ UNCHANGED <<call, size, fsize, reply, got>>
       \/ /\ Len(file) <= 1      \* one word: HIVEERR_BAD_PERSISTENT_DATA
          /\ call[c].kind = "get"
          /\ Finish(c, IF file = <<>> THEN "ok" ELSE "error", <<>>)
    /\ UNCHANGED <<file, history>>

(* The metadata half of __get_file_to_buffer: a missing, an empty or a     *)
(* longer file ends the call.                                              *)
Info(c) ==
    /\ pc[c] = "info"
    /\ \/ /\ Len(file) \in 1..size[c]
          /\ Goto(c, "read")
          /\ fsize' = [fsize EXCEPT ![c] = Len(file)]
          /\ UNCHANGED <<call, size, buf, reply, got>>
       \/ /\ Len(file) \notin 1..size[c]
          /\ Finish(c, "error", <<>>)
    /\ UNCHANGED <<file, history>>

(* The walk of get_values over the downloaded words b.                     *)
Deliver(c, b) ==
    LET e == Entries(b)
    IN  \/ Finish(c, IF e.complete THEN "ok" ELSE "error", e.values)
        \/ \E k \in 1..Len(e.values) : Finish(c, "stopped", SubSeq(e.values, 1, k))

(* The download.  The callback copies what arrives without a bound; the    *)
(* count that is compared afterwards is the one the metadata gave.         *)
Read(c) ==
    /\ pc[c] = "read"
    /\ Len(file) > 0
    /\ LET b == Buffer(file, size[c])
       IN  \/ /\ fsize[c] = size[c]
             /\ call[c].kind = "put"
             /\ Goto(c, "upload")
             /\ buf' = [buf EXCEPT ![c] = b \o Encode(call[c].value)]
             /\ UNCHANGED <<call, size, fsize, reply, got>>
          \/ /\ fsize[c] = size[c]
             /\ call[c].kind = "get"
             /\ Deliver(c, b)
          \/ /\ fsize[c] # size[c]   \* HIVEERR_INVALID_PERSISTENCE_FILE
             /\ Finish(c, "error", <<>>)
    /\ UNCHANGED <<file, history>>

(* More arrived than the buffer holds, and memory past it is overwritten:  *)
(* a file that grew, or an error answer, whose body the callback copies    *)
(* like any other before the status is looked at and which no length       *)
(* announced.  The process may go on as in Read or RequestFails, or it     *)
(* dies and a new one takes its place.                                     *)
Overrun(c) ==
    /\ pc[c] = "read"
    /\ Finish(c, "died", <<>>)
    /\ UNCHANGED <<file, history>>

(* __put_file_from_buffer: one PUT of the whole content, alone or as the   *)
(* last request of an upload session.                                      *)
Upload(c) ==
    /\ pc[c] = "upload"
    /\ Replace(buf[c])
    /\ Goto(c, "answer")
    /\ UNCHANGED <<call, size, fsize, buf, reply, got>>

Remove(c) ==
    /\ pc[c] = "delete"
    /\ Replace(<<>>)
    /\ Goto(c, "answer")
    /\ UNCHANGED <<call, size, fsize, buf, reply, got>>

Answer(c) ==
    /\ pc[c] = "answer"
    /\ Finish(c, "ok", <<>>)
    /\ UNCHANGED <<file, history>>

(* A 200 answer without a body to a request for metadata kills the process *)
(* (http_client_move_response_body with a NULL len); a new one takes over. *)
EmptyAnswer(c) ==
    /\ pc[c] \in {"length", "info"}
    /\ Finish(c, "died", <<>>)
    /\ UNCHANGED <<file, history>>

(* Any request fails; at "answer" the drive had carried it out.  At "read" *)
(* the words of an error answer are in the buffer by then, which the call  *)
(* frees without looking at them.                                          *)
RequestFails(c) ==
    /\ pc[c] # "idle"
    /\ Finish(c, "error", <<>>)
    /\ UNCHANGED <<file, history>>

Next == \E c \in Client :
    \/ Put(c) \/ Set(c) \/ Get(c) \/ Delete(c)
    \/ Length(c) \/ Info(c) \/ Read(c) \/ Overrun(c)
    \/ Upload(c) \/ Remove(c) \/ Answer(c) \/ RequestFails(c) \/ EmptyAnswer(c)

Spec == Init /\ [][Next]_vars

-----------------------------------------------------------------------------
(* Properties.                                                             *)

Kinds == {"none", "put", "set", "get", "delete"}

(* Types, which buffers an operation may hold at which request, and the    *)
(* file: with one writer it is always a whole number of entries, what      *)
(* put_value copies back being what the drive holds.                       *)
TypeOK ==
    /\ file \in Seq(Nat)
    /\ pc \in [Client -> {"idle", "length", "info", "read", "upload", "delete", "answer"}]
    /\ call \in [Client -> [kind : Kinds, value : Value \cup {NoValue}]]
    /\ size \in [Client -> Nat]
    /\ fsize \in [Client -> Nat]
    /\ buf \in [Client -> Seq(Nat)]
    /\ reply \in [Client -> {"none", "ok", "stopped", "error", "died"}]
    /\ got \in [Client -> Seq(Seq(Nat))]
    /\ history \in [Client -> SUBSET Seq(Nat)]
    /\ \A c \in Client :
          /\ pc[c] = "idle" <=> call[c].kind = "none"
          /\ pc[c] \in {"info", "read"} => call[c].kind \in {"put", "get"}
          /\ pc[c] = "upload" => call[c].kind \in {"put", "set"}
          /\ call[c].kind \in {"put", "set", "delete"} => c \in Writer
    /\ Entries(file).complete

(* With one writer and any number of readers the calls refine the abstract *)
(* key-value store, although each is several requests that interleave; a   *)
(* process that died is a call that failed.                                *)
Abstract == INSTANCE KeyValues WITH
    MaxStop <- MaxWords,
    values <- Entries(file).values,
    seen <- [c \in Client |-> {Entries(words).values : words \in history[c]}],
    reply <- [c \in Client |-> IF reply[c] = "died" THEN "error" ELSE reply[c]],
    done <- [c \in Client |-> pc[c] = "answer"]

KeyValuesSpec == Abstract!Spec
=============================================================================
