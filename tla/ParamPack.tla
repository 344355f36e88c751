------------------------------ MODULE ParamPack ------------------------------
(***************************************************************************)
(* Parameter packs (rpc/param_pack.c): how a call's parameters are packed, *)
(* sent field by field, received as one buffer, walked and extracted.  A   *)
(* pack is a sequence of parameters, a type and a value each; on the wire  *)
(* it is a sequence of fields, each with its kind, its value and its       *)
(* length in bytes.  Buffer types that differ in ownership only are one.   *)
(***************************************************************************)
EXTENDS Naturals, Sequences, SequencesExt

CONSTANT DataLength     \* the length of a buffer that is not empty

ASSUME DataLengthAssumption == DataLength \in Nat \ {0}

MaxParams == 20         \* HM_PARAM_PACK_MAX_PARAMS
Empty == <<"empty">>    \* a buffer of length 0
LengthOf(v) == IF v = Empty THEN 0 ELSE DataLength

Number(n) == [kind |-> "number", val |-> n, len |-> 4]
Type(t) == [kind |-> "type", val |-> t, len |-> 4]
Data(v) == [kind |-> "data", val |-> v, len |-> LengthOf(v)]

\* The bytes of the first n fields, and of all.
Bytes(fields) ==
    LET sum[n \in 0..Len(fields)] == IF n = 0 THEN 0 ELSE sum[n - 1] + fields[n].len IN sum
Lengths(fields) == Bytes(fields)[Len(fields)]

\* hm_param_pack_create_ makes a pack of them.
Packs(params) == Len(params) <= MaxParams

\* What one parameter becomes, whatever kind of buffer it was.
ParamFields(p) ==
    IF p.type = "int32" THEN <<Type("int32"), Number(p.val)>>
    ELSE <<Type("buffer"), Number(LengthOf(p.val)), Data(p.val)>>

\* hm_param_pack_send: nothing for a pack without parameters.
Body(pack) == <<Number(Len(pack))>> \o FlattenSeq([n \in DOMAIN pack |-> ParamFields(pack[n])])
PackFields(pack) ==
    IF pack = <<>> THEN <<>> ELSE <<Number(Lengths(Body(pack)))>> \o Body(pack)

\* Where the parameter that begins with field k ends, and the next begins: beyond the
\* buffer if it is of no known type or the buffer ends before.  No field stands
\* for the bytes of an empty value.
After(fields) ==
    [k \in 1..(Len(fields) + 2) |->
        IF k >= Len(fields) \/ fields[k].kind # "type" THEN Len(fields) + 2
        ELSE IF fields[k].val = "int32" \/ fields[k + 1].val = 0 THEN k + 2 ELSE k + 3]

\* The walk through a buffer: where it is after up to n parameters.
Walk(fields, n) ==
    LET at[j \in 0..n] == IF j = 0 THEN 2 ELSE After(fields)[at[j - 1]] IN at

\* hm_param_pack_check_buf_: n parameters that do not go beyond the buffer's end; what
\* follows them is not looked at.
Checked(fields, n) == Walk(fields, n)[n] <= Len(fields) + 1

\* hm_param_pack_read, of what hm_param_pack_receive has read: whether it makes a
\* pack of it, and which.
Readable(fields) ==
    /\ fields # <<>> /\ Head(fields).kind = "number"
    /\ Checked(fields, Head(fields).val) /\ Head(fields).val <= MaxParams

ParamAt(fields, k) ==
    [type |-> fields[k].val,
     val |-> IF fields[k].val = "int32" THEN fields[k + 1].val
             ELSE IF fields[k + 1].val = 0 THEN Empty ELSE fields[k + 2].val]

Unpack(fields) ==
    LET n == Head(fields).val IN [j \in 1..n |-> ParamAt(fields, Walk(fields, n)[j - 1])]

\* HM_PARAM_EXTRACT succeeds: the pack begins with parameters of these types.
Extracts(pack, types) ==
    Len(types) <= Len(pack) /\ \A n \in DOMAIN types : pack[n].type = types[n]
=============================================================================
