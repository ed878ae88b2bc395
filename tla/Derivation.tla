----------------------------- MODULE Derivation -----------------------------
(***************************************************************************)
(* Handlers derived from one another by WithAttrs and WithGroup, and what  *)
(* they share (handler.go, preResolve of attr.go).                         *)
(*                                                                         *)
(* Slices are references: `arrays` holds the backing arrays of goas and    *)
(* `slices` those of attributes, the first of which belongs to a caller    *)
(* who reuses it. An attribute's value is a constant of one of the kinds   *)
(* the code tells apart. A map is a function on its keys.                  *)
(***************************************************************************)
EXTENDS Naturals, Sequences

CONSTANTS
    Setups,      \* the handler configurations
    AttrLists,   \* attribute lists a caller passes to WithAttrs
    GroupNames,  \* names passed to WithGroup
    MaxHandlers  \* bounds the handlers derived

VARIABLES
    cfg,       \* handlerConfig, as far as derivation reads it
    slices,    \* Seq(Seq of attributes)
    arrays,    \* Seq(Seq of groupOrAttrs)
    handlers   \* Seq of [arr, len] with the ghost `calls` that made the handler

derivationVars == <<cfg, slices, arrays, handlers>>

Scratch == 1   \* the caller's slice
NoAttrs == 0   \* a nil slice

-----------------------------------------------------------------------------
(* Attributes and values.                                                  *)

Value(kind, x, members) == [kind |-> kind, x |-> x, at |-> <<>>, members |-> members]
Attr(key, value) == [key |-> key, value |-> value]
ZeroAttr == Attr("", Value("any", "nil", <<>>))

\* A map, and what its keys hold: a scalar, or an object of its own.
EmptyMap == <<>>
Scalar(v) == [x |-> v.x, at |-> v.at, sub |-> EmptyMap]
Object(m) == [x |-> "object", at |-> <<>>, sub |-> m]
Put(m, key, v) == [k \in DOMAIN m \cup {key} |-> IF k = key THEN v ELSE m[k]]

\* The kinds whose conversion depends on nothing but the value itself.
IsStatic(v) == v.kind = "static"

\* staticValue, anyValue and errorValue.
Converted(v) ==
    IF v.kind = "error"
    THEN Object([k \in {"message", "type"} |-> Scalar(Value("static", k, <<>>))])
    ELSE Scalar(v)

\* What a hoisted conversion is: the value once converted, or nothing.
HoistAny(a) == <<Converted(a.value)>>
Hoist(a) == IF a.key # "" /\ IsStatic(a.value) THEN <<Converted(a.value)>> ELSE <<>>

PreResolve(attrs) == [i \in DOMAIN attrs |-> Hoist(attrs[i])]

\* ReplaceAttr is entitled to see every attribute of every record.
Hoisted(attrs) == IF cfg.replace = "none" THEN PreResolve(attrs) ELSE <<>>

-----------------------------------------------------------------------------
(* Derivation.                                                             *)

\* newHandler, and a caller with some attributes in its slice.
DerivationInit ==
    /\ cfg \in Setups
    /\ \E attrs \in AttrLists : slices = <<attrs>>
    /\ arrays = <<<<>>>>
    /\ handlers = <<[arr |-> 1, len |-> 0, calls |-> <<>>]>>

Goas(h) == SubSeq(arrays[handlers[h].arr], 1, handlers[h].len)

\* Where a list one call longer goes: the parent's array if it has room left, or
\* an array of its own of exactly the length required.
PlacedInPlace(h, goa) ==
    LET arr == handlers[h].arr
        n   == handlers[h].len
    IN IF n < Len(arrays[arr])
       THEN [arrays |-> [arrays EXCEPT ![arr][n + 1] = goa], at |-> arr]
       ELSE [arrays |-> Append(arrays, Goas(h) \o <<goa, goa>>), at |-> Len(arrays) + 1]
Placed(h, goa) ==
    [arrays |-> Append(arrays, Goas(h) \o <<goa>>), at |-> Len(arrays) + 1]

\* withGroupOrAttrs, for a call the history remembers as it was made.
WithGroupOrAttrs(h, goa, call) ==
    /\ Len(handlers) < MaxHandlers
    /\ LET placed == Placed(h, goa) IN
       /\ arrays' = placed.arrays
       /\ handlers' = Append(handlers, [arr |-> placed.at, len |-> handlers[h].len + 1,
                                        calls |-> Append(handlers[h].calls, call)])
    /\ UNCHANGED cfg

\* A copy of the slice s.
Owned(s) == [slices |-> Append(slices, slices[s]), at |-> Len(slices) + 1]

\* A call without attributes, or with an empty name, returns the handler itself.
WithAttrs(h) ==
    LET attrs == slices[Scratch]
        owned == Owned(Scratch)
    IN /\ attrs # <<>>
       /\ slices' = owned.slices
       /\ WithGroupOrAttrs(h, [group |-> "", attrs |-> owned.at, pre |-> Hoisted(attrs)],
                              [group |-> "", attrs |-> attrs])

WithGroup(h, name) ==
    /\ name # ""
    /\ WithGroupOrAttrs(h, [group |-> name, attrs |-> NoAttrs, pre |-> <<>>],
                           [group |-> name, attrs |-> <<>>])
    /\ UNCHANGED slices

\* The caller fills its slice anew.
ReuseScratch(attrs) ==
    /\ slices' = [slices EXCEPT ![Scratch] = attrs]
    /\ UNCHANGED <<cfg, arrays, handlers>>

Derive ==
    \/ \E h \in DOMAIN handlers :
         WithAttrs(h) \/ \E name \in GroupNames : WithGroup(h, name)
    \/ \E attrs \in AttrLists : ReuseScratch(attrs)

\* What a program that only derives handlers does; Handler's steps are these,
\* and steps that leave all of it alone.
DerivationSpec == DerivationInit /\ [][Derive]_derivationVars

-----------------------------------------------------------------------------
(* Safety                                                                  *)

\* The call an entry was made by, as it reads now.
CallOf(goa) ==
    [group |-> goa.group,
     attrs |-> IF goa.attrs = NoAttrs THEN <<>> ELSE slices[goa.attrs]]

\* Handlers derived from one parent do not disturb each other, nor does a caller
\* that reuses its slice: each still holds the calls it was made by, and with
\* each the conversions that were hoisted for it (handler.go:292-345).
HandlersApart ==
    \A h \in DOMAIN handlers :
        /\ handlers[h].calls = [i \in DOMAIN Goas(h) |-> CallOf(Goas(h)[i])]
        /\ \A i \in DOMAIN Goas(h) : Goas(h)[i].pre = Hoisted(handlers[h].calls[i].attrs)
=============================================================================
