------------------------------ MODULE KeyValues ------------------------------
(***************************************************************************)
(* What the key-value half of the API promises for one key (ela_hive.h,    *)
(* hive_put_value, hive_set_value, hive_get_values, hive_delete_key): a    *)
(* list of values.  A call takes effect at most once, at one instant       *)
(* between invocation and return; it has taken effect when it returns 0,   *)
(* and may or may not have when it returns an error.  A get delivers the   *)
(* values of one instant of the call.  A get whose callback asks to stop   *)
(* ("stopped") returns 0 too; what it delivered is the beginning of such a *)
(* list, which may go on with empty values when the list changed meanwhile *)
(* (the file shrank under the download and the rest of the buffer is 0),   *)
(* and then a get that fails has delivered as much.                        *)
(***************************************************************************)
EXTENDS Naturals, Sequences

CONSTANTS
    Client, Value, NoValue,
    MaxStop         \* bound: values a stopped get has delivered

VARIABLES
    values,     \* the values of the key, oldest first
    call,       \* the call each client is in
    done,       \* TRUE once that call took effect
    reply,      \* outcome of the client's last call
    got,        \* values the last get delivered
    seen        \* the lists of values since each call began

vars == <<values, call, done, reply, got, seen>>

NoCall == [kind |-> "none", value |-> NoValue]
Call == [kind : {"put", "set"}, value : Value]
        \cup [kind : {"get", "delete"}, value : {NoValue}]

Effect(o) ==
    CASE o.kind = "put" -> Append(values, o.value)
      [] o.kind = "set" -> <<o.value>>
      [] o.kind = "delete" -> <<>>

Init ==
    /\ values = <<>>
    /\ call = [c \in Client |-> NoCall]
    /\ done = [c \in Client |-> FALSE]
    /\ reply = [c \in Client |-> "none"]
    /\ got = [c \in Client |-> <<>>]
    /\ seen = [c \in Client |-> {}]

Invoke(c, o) ==
    /\ call[c] = NoCall
    /\ call' = [call EXCEPT ![c] = o]
    /\ reply' = [reply EXCEPT ![c] = "none"]
    /\ got' = [got EXCEPT ![c] = <<>>]
    /\ seen' = [seen EXCEPT ![c] = {values}]
    /\ UNCHANGED <<values, done>>

TakeEffect(c) ==
    /\ call[c].kind \in {"put", "set", "delete"}
    /\ ~done[c]
    /\ values' = Effect(call[c])
    /\ done' = [done EXCEPT ![c] = TRUE]
    /\ seen' = [d \in Client |->
                  IF call[d] = NoCall THEN seen[d] ELSE seen[d] \cup {values'}]
    /\ UNCHANGED <<call, reply, got>>

Return(c, r) ==
    /\ call' = [call EXCEPT ![c] = NoCall]
    /\ done' = [done EXCEPT ![c] = FALSE]
    /\ reply' = [reply EXCEPT ![c] = r]
    /\ UNCHANGED <<values, seen>>

Succeed(c) ==
    /\ done[c]
    /\ Return(c, "ok")
    /\ UNCHANGED got

(* The first k values of v, and empty values when v has fewer.             *)
Padded(v, k) == [i \in 1..k |-> IF i <= Len(v) THEN v[i] ELSE <<>>]

DeliverValues(c) ==
    /\ call[c].kind = "get"
    /\ \E v \in seen[c] :
          \/ /\ Return(c, "ok")
             /\ got' = [got EXCEPT ![c] = v]
          \/ \E k \in 1..MaxStop :
                /\ \/ Return(c, "stopped") /\ (k > Len(v) => seen[c] # {v})
                   \/ Return(c, "error") /\ seen[c] # {v}
                /\ got' = [got EXCEPT ![c] = Padded(v, k)]

Fail(c) ==
    /\ call[c] # NoCall
    /\ Return(c, "error")
    /\ UNCHANGED got

Next == \E c \in Client :
    \/ \E o \in Call : Invoke(c, o)
    \/ TakeEffect(c) \/ Succeed(c) \/ DeliverValues(c) \/ Fail(c)

Spec == Init /\ [][Next]_vars
=============================================================================
