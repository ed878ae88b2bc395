-------------------------- MODULE DerivationProofs --------------------------
(***************************************************************************)
(* Handlers derived from one another stay apart, however many are derived, *)
(* from whichever parents, by whatever calls.                              *)
(***************************************************************************)
EXTENDS Derivation, SequenceTheorems, TLAPS

Groups == GroupNames \cup {""}
Entries == [group : Groups, attrs : Nat,
            pre : {<<>>} \cup {PreResolve(l) : l \in AttrLists}]
CallsMade == [group : Groups, attrs : AttrLists \cup {<<>>}]

\* A slice is one of the lists a caller passes, an array a list of entries.
Types ==
    /\ slices \in Seq(AttrLists) /\ Len(slices) >= Scratch
    /\ arrays \in Seq(Seq(Entries))
    /\ handlers \in Seq([arr : Nat, len : Nat, calls : Seq(CallsMade)])

\* The entry goa is the call as it was made, its attributes in a slice that is
\* not the caller's.
Remembers(goa, call) ==
    /\ goa.group = call.group /\ goa.pre = Hoisted(call.attrs)
    /\ \/ goa.attrs = NoAttrs /\ call.attrs = <<>>
       \/ /\ goa.attrs \in DOMAIN slices /\ goa.attrs # Scratch /\ goa.attrs # NoAttrs
          /\ slices[goa.attrs] = call.attrs

\* Handler h fills its array to the end, with the calls that made it.
Holds(h) ==
    LET array == arrays[handlers[h].arr]
        calls == handlers[h].calls
    IN /\ handlers[h].arr \in DOMAIN arrays
       /\ handlers[h].len = Len(array) /\ Len(calls) = Len(array)
       /\ \A i \in 1 .. Len(array) : Remembers(array[i], calls[i])

\* What makes HandlersApart inductive.
Apart == Types /\ \A h \in DOMAIN handlers : Holds(h)

-----------------------------------------------------------------------------
(* Lemmas.                                                                 *)

\* What Types says of one handler and of the array it uses.
LEMMA HandlerTypes ==
    ASSUME Types, NEW h \in DOMAIN handlers, handlers[h].arr \in DOMAIN arrays
    PROVE  /\ handlers[h] \in [arr : Nat, len : Nat, calls : Seq(CallsMade)]
           /\ arrays[handlers[h].arr] \in Seq(Entries)
BY LenProperties DEF Types

\* A handler's list is its whole array: no call of another's is behind it.
LEMMA GoasAreTheArray ==
    ASSUME Types, NEW h \in DOMAIN handlers, Holds(h)
    PROVE  /\ Goas(h) = arrays[handlers[h].arr]
           /\ Goas(h) \in Seq(Entries) /\ Len(Goas(h)) = handlers[h].len
<1> DEFINE array == arrays[handlers[h].arr]
<1>1. array \in Seq(Entries) /\ handlers[h].len = Len(array)
  BY HandlerTypes DEF Holds
<1>2. SubSeq(array, 1, Len(array)) = array
  <2>1. array \in [1 .. Len(array) -> Entries] /\ Len(array) \in Nat
    BY <1>1, LenProperties
  <2> QED
    BY <1>1, <2>1, SubSeqProperties
<1> QED
  BY <1>1, <1>2 DEF Goas

\* Nothing was hoisted from a call without attributes.
LEMMA NothingHoisted == Hoisted(<<>>) = <<>>
<1>1. PreResolve(<<>>) = <<>>
  BY DEF PreResolve
<1> QED
  BY <1>1 DEF Hoisted

\* withGroupOrAttrs gives the new handler an array of its own, the parent's list
\* and the call, and touches nobody's (withGroupOrAttrs).
LEMMA DerivedHasItsOwn ==
    ASSUME Types, NEW h \in DOMAIN handlers, Holds(h), NEW goa \in Entries,
           NEW call \in CallsMade, WithGroupOrAttrs(h, goa, call)
    PROVE  /\ arrays' \in Seq(Seq(Entries))
           /\ handlers' \in Seq([arr : Nat, len : Nat, calls : Seq(CallsMade)])
           /\ DOMAIN handlers' = DOMAIN handlers \cup {Len(handlers) + 1}
           /\ \A g \in DOMAIN handlers : handlers'[g] = handlers[g]
           /\ DOMAIN arrays \subseteq DOMAIN arrays'
           /\ \A a \in DOMAIN arrays : arrays'[a] = arrays[a]
           /\ LET new == handlers'[Len(handlers) + 1] IN
              /\ new.arr = Len(arrays) + 1 /\ new.arr \in DOMAIN arrays'
              /\ new.len = handlers[h].len + 1
              /\ new.calls = Append(handlers[h].calls, call)
              /\ arrays'[new.arr] = Append(arrays[handlers[h].arr], goa)
<1> DEFINE Made == [arr : Nat, len : Nat, calls : Seq(CallsMade)]
           array == arrays[handlers[h].arr]
           made == [arr |-> Len(arrays) + 1, len |-> handlers[h].len + 1,
                    calls |-> Append(handlers[h].calls, call)]
<1>1. /\ arrays \in Seq(Seq(Entries)) /\ handlers \in Seq(Made)
      /\ array \in Seq(Entries) /\ handlers[h] \in Made
  BY HandlerTypes DEF Types, Holds
<1>2. Goas(h) \o <<goa>> = Append(array, goa)
  BY <1>1, GoasAreTheArray, AppendIsConcat
<1>3. Append(array, goa) \in Seq(Entries)
  BY <1>1, AppendProperties
<1>4. /\ arrays' = Append(arrays, Append(array, goa))
      /\ handlers' = Append(handlers, made)
  BY <1>2 DEF WithGroupOrAttrs, Placed
<1>5. Len(arrays) \in Nat /\ Len(handlers) \in Nat
      /\ DOMAIN arrays = 1 .. Len(arrays) /\ DOMAIN handlers = 1 .. Len(handlers)
  BY <1>1, LenProperties
<1>6. made \in Made
  BY <1>1, <1>5, AppendProperties
<1> HIDE DEF made, array, Made
<1>7. /\ arrays' \in Seq(Seq(Entries)) /\ Len(arrays') = Len(arrays) + 1
      /\ \A a \in 1 .. Len(arrays) : arrays'[a] = arrays[a]
      /\ arrays'[Len(arrays) + 1] = Append(array, goa)
      /\ DOMAIN arrays' = 1 .. Len(arrays) + 1
  <2>1. /\ arrays' \in Seq(Seq(Entries)) /\ Len(arrays') = Len(arrays) + 1
        /\ \A a \in 1 .. Len(arrays) : arrays'[a] = arrays[a]
        /\ arrays'[Len(arrays) + 1] = Append(array, goa)
    BY <1>1, <1>3, <1>4, AppendProperties
  <2> QED
    BY <2>1, LenProperties
<1>8. /\ handlers' \in Seq(Made) /\ Len(handlers') = Len(handlers) + 1
      /\ \A g \in 1 .. Len(handlers) : handlers'[g] = handlers[g]
      /\ handlers'[Len(handlers) + 1] = made
      /\ DOMAIN handlers' = 1 .. Len(handlers) + 1
  <2>1. /\ handlers' \in Seq(Made) /\ Len(handlers') = Len(handlers) + 1
        /\ \A g \in 1 .. Len(handlers) : handlers'[g] = handlers[g]
        /\ handlers'[Len(handlers) + 1] = made
    BY <1>1, <1>4, <1>6, AppendProperties
  <2> QED
    BY <2>1, LenProperties
<1>9. DOMAIN handlers' = DOMAIN handlers \cup {Len(handlers) + 1}
      /\ DOMAIN arrays \subseteq DOMAIN arrays' /\ Len(arrays) + 1 \in DOMAIN arrays'
  BY <1>5, <1>7, <1>8
<1>10. /\ made.arr = Len(arrays) + 1 /\ made.len = handlers[h].len + 1
       /\ made.calls = Append(handlers[h].calls, call)
  BY DEF made
<1>11. handlers'[Len(handlers) + 1] = made /\ arrays'[made.arr] = Append(array, goa)
  BY <1>7, <1>8, <1>10
<1>12. handlers' \in Seq([arr : Nat, len : Nat, calls : Seq(CallsMade)])
  BY <1>8 DEF Made
<1>13. /\ \A g \in DOMAIN handlers : handlers'[g] = handlers[g]
       /\ \A a \in DOMAIN arrays : arrays'[a] = arrays[a]
  BY <1>5, <1>7, <1>8
<1> QED
  BY <1>7, <1>9, <1>10, <1>11, <1>12, <1>13 DEF array

\* What an entry remembers stays what it is while no slice but the caller's
\* changes.
LEMMA SlicesStand ==
    ASSUME NEW goa, NEW call, Remembers(goa, call), cfg' = cfg,
           DOMAIN slices \subseteq DOMAIN slices',
           \A s \in DOMAIN slices \ {Scratch} : slices'[s] = slices[s]
    PROVE  Remembers(goa, call)'
BY DEF Remembers, Hoisted

\* A derivation keeps every handler, and the new one remembers its parent's calls
\* and its own.
LEMMA DerivedStaysApart ==
    ASSUME Apart, NEW h \in DOMAIN handlers, NEW goa \in Entries, NEW call \in CallsMade,
           WithGroupOrAttrs(h, goa, call), Remembers(goa, call)',
           slices' \in Seq(AttrLists), DOMAIN slices \subseteq DOMAIN slices',
           \A s \in DOMAIN slices : slices'[s] = slices[s], Len(slices') >= Scratch
    PROVE  Apart'
<1>0. PICK n : n = Len(handlers) + 1
  OBVIOUS
<1>1. Types /\ Holds(h)
  BY DEF Apart
<1>2. /\ arrays' \in Seq(Seq(Entries))
      /\ handlers' \in Seq([arr : Nat, len : Nat, calls : Seq(CallsMade)])
      /\ DOMAIN handlers' = DOMAIN handlers \cup {n}
      /\ \A g \in DOMAIN handlers : handlers'[g] = handlers[g]
      /\ DOMAIN arrays \subseteq DOMAIN arrays'
      /\ \A a \in DOMAIN arrays : arrays'[a] = arrays[a]
      /\ handlers'[n].arr \in DOMAIN arrays'
      /\ handlers'[n].len = handlers[h].len + 1
      /\ handlers'[n].calls = Append(handlers[h].calls, call)
      /\ arrays'[handlers'[n].arr] = Append(arrays[handlers[h].arr], goa)
  BY <1>0, <1>1, DerivedHasItsOwn
<1>3. cfg' = cfg
  BY DEF WithGroupOrAttrs
<1>4. ASSUME NEW e, NEW c, Remembers(e, c) PROVE Remembers(e, c)'
  BY <1>3, <1>4, SlicesStand
<1>5. ASSUME NEW g \in DOMAIN handlers PROVE Holds(g)'
  <2>1. Holds(g)
    BY DEF Apart
  <2>2. handlers'[g] = handlers[g] /\ arrays'[handlers[g].arr] = arrays[handlers[g].arr]
        /\ handlers[g].arr \in DOMAIN arrays'
    BY <1>2, <2>1 DEF Holds
  <2> QED
    BY <1>4, <2>1, <2>2 DEF Holds
<1>6. Holds(n)'
  <2> DEFINE array == arrays[handlers[h].arr]
             calls == handlers[h].calls
  <2>1. array \in Seq(Entries) /\ calls \in Seq(CallsMade)
    BY <1>1, HandlerTypes DEF Holds
  <2>2. /\ handlers[h].len = Len(array) /\ Len(calls) = Len(array)
        /\ \A i \in 1 .. Len(array) : Remembers(array[i], calls[i])
    BY <1>1 DEF Holds
  <2>3. Len(array) \in Nat
    BY <2>1, LenProperties
  <2> HIDE DEF array, calls
  <2>4. /\ Len(Append(array, goa)) = Len(array) + 1
        /\ \A i \in 1 .. Len(array) : Append(array, goa)[i] = array[i]
        /\ Append(array, goa)[Len(array) + 1] = goa
    BY <2>1, AppendProperties
  <2>5. /\ Len(Append(calls, call)) = Len(array) + 1
        /\ \A i \in 1 .. Len(array) : Append(calls, call)[i] = calls[i]
        /\ Append(calls, call)[Len(array) + 1] = call
    BY <2>1, <2>2, AppendProperties
  <2>6. ASSUME NEW i \in 1 .. Len(array) + 1, NEW e, e = Append(array, goa)[i],
               NEW c, c = Append(calls, call)[i]
        PROVE  Remembers(e, c)'
    <3>1. CASE i \in 1 .. Len(array)
      BY <1>4, <2>2, <2>4, <2>5, <2>6, <3>1
    <3>2. CASE i = Len(array) + 1
      BY <2>4, <2>5, <2>6, <3>2
    <3> QED
      BY <2>3, <3>1, <3>2
  <2>7. /\ arrays'[handlers'[n].arr] = Append(array, goa)
        /\ handlers'[n].calls = Append(calls, call)
        /\ handlers'[n].len = Len(array) + 1
    BY <1>2, <2>2 DEF array, calls
  <2>8. PICK entries, made : /\ entries = Append(array, goa) /\ made = Append(calls, call)
                             /\ arrays'[handlers'[n].arr] = entries
                             /\ handlers'[n].calls = made
    BY <2>7
  <2>9. /\ Len(entries) = Len(array) + 1 /\ Len(made) = Len(array) + 1
        /\ \A i \in 1 .. Len(entries) : Remembers(entries[i], made[i])'
    BY <2>4, <2>5, <2>6, <2>8
  <2> QED
    BY <1>2, <2>7, <2>8, <2>9 DEF Holds
<1>7. Types'
  BY <1>2 DEF Types
<1> QED
  BY <1>2, <1>5, <1>6, <1>7 DEF Apart

-----------------------------------------------------------------------------
(* The invariant.                                                          *)

LEMMA InitialHandler == DerivationInit => Apart
<1> SUFFICES ASSUME DerivationInit PROVE Apart
  OBVIOUS
<1>1. PICK attrs \in AttrLists : slices = <<attrs>>
  BY DEF DerivationInit
<1>2. slices \in Seq(AttrLists) /\ Len(slices) >= Scratch
  BY <1>1 DEF Scratch
<1>3. /\ arrays = <<<<>>>> /\ DOMAIN arrays = {1} /\ arrays[1] = <<>>
      /\ arrays \in Seq(Seq(Entries)) /\ Len(<<>>) = 0
  BY DEF DerivationInit
<1>4. DOMAIN handlers = {1} /\ handlers[1] = [arr |-> 1, len |-> 0, calls |-> <<>>]
  BY DEF DerivationInit
<1>5. handlers \in Seq([arr : Nat, len : Nat, calls : Seq(CallsMade)])
  BY DEF DerivationInit
<1>6. Holds(1)
  BY <1>3, <1>4 DEF Holds
<1> QED
  BY <1>2, <1>3, <1>4, <1>5, <1>6 DEF Apart, Types

\* The attributes of a call go into a slice nobody else writes (WithAttrs).
LEMMA AttrsStayApart ==
    ASSUME Apart, NEW h \in DOMAIN handlers, WithAttrs(h)
    PROVE  Apart'
<1> DEFINE attrs == slices[Scratch]
           goa == [group |-> "", attrs |-> Len(slices) + 1, pre |-> Hoisted(attrs)]
           call == [group |-> "", attrs |-> attrs]
<1>1. slices \in Seq(AttrLists) /\ Len(slices) \in Nat /\ Len(slices) >= Scratch
  BY LenProperties DEF Apart, Types
<1>2. attrs \in AttrLists
  BY <1>1, LenProperties DEF Scratch
<1>3. slices' = Append(slices, attrs) /\ WithGroupOrAttrs(h, goa, call) /\ cfg' = cfg
  BY DEF WithAttrs, Owned, WithGroupOrAttrs
<1>4. /\ slices' \in Seq(AttrLists) /\ Len(slices') = Len(slices) + 1
      /\ \A s \in 1 .. Len(slices) : slices'[s] = slices[s]
      /\ slices'[Len(slices) + 1] = attrs
  BY <1>1, <1>2, <1>3, AppendProperties
<1>5. DOMAIN slices = 1 .. Len(slices) /\ DOMAIN slices' = 1 .. Len(slices) + 1
  BY <1>1, <1>4, LenProperties
<1>6. goa \in Entries /\ call \in CallsMade
  BY <1>1, <1>2 DEF Entries, CallsMade, Groups, Hoisted
<1>7. PICK e \in Entries, c \in CallsMade : e = goa /\ c = call
  BY <1>6
<1>8. Remembers(e, c)'
  <2>1. /\ e.group = c.group /\ e.pre = Hoisted(c.attrs)
        /\ e.attrs = Len(slices) + 1 /\ c.attrs = attrs
    BY <1>7
  <2>2. PICK l : l = c.attrs
    OBVIOUS
  <2>3. Hoisted(l)' = Hoisted(l)
    BY <1>3 DEF Hoisted
  <2> HIDE DEF attrs, goa, call
  <2>4. e.pre = Hoisted(c.attrs)'
    BY <2>1, <2>2, <2>3
  <2>5. /\ e.attrs \in DOMAIN slices' /\ e.attrs # Scratch /\ e.attrs # NoAttrs
        /\ slices'[e.attrs] = c.attrs
    BY <1>1, <1>4, <1>5, <2>1 DEF Scratch, NoAttrs
  <2> QED
    BY <2>1, <2>4, <2>5 DEF Remembers
<1>9. DOMAIN slices \subseteq DOMAIN slices' /\ Len(slices') >= Scratch
  BY <1>1, <1>4, <1>5 DEF Scratch
<1> QED
  BY <1>3, <1>4, <1>5, <1>7, <1>8, <1>9, DerivedStaysApart

\* A group carries no attributes (WithGroup).
LEMMA GroupsStayApart ==
    ASSUME Apart, NEW h \in DOMAIN handlers, NEW name \in GroupNames, WithGroup(h, name)
    PROVE  Apart'
<1>1. PICK e \in Entries, c \in CallsMade :
        /\ e = [group |-> name, attrs |-> NoAttrs, pre |-> <<>>]
        /\ c = [group |-> name, attrs |-> <<>>]
  BY DEF Entries, CallsMade, Groups, NoAttrs
<1>2. WithGroupOrAttrs(h, e, c) /\ slices' = slices /\ cfg' = cfg
  BY <1>1 DEF WithGroup, WithGroupOrAttrs
<1>3. Remembers(e, c)
  BY <1>1, NothingHoisted DEF Remembers
<1>4. Remembers(e, c)'
  BY <1>2, <1>3, SlicesStand
<1> QED
  BY <1>2, <1>4, DerivedStaysApart DEF Apart, Types

\* A caller that fills its slice anew reaches no handler.
LEMMA ReuseStaysApart ==
    ASSUME Apart, NEW attrs \in AttrLists, ReuseScratch(attrs)
    PROVE  Apart'
<1>1. slices \in Seq(AttrLists) /\ Len(slices) \in Nat /\ Scratch \in 1 .. Len(slices)
  BY LenProperties DEF Apart, Types, Scratch
<1>2. slices' = [slices EXCEPT ![Scratch] = attrs] /\ UNCHANGED <<cfg, arrays, handlers>>
  BY DEF ReuseScratch
<1>3. /\ slices' \in Seq(AttrLists) /\ Len(slices') = Len(slices)
      /\ \A s \in 1 .. Len(slices) : slices'[s] = IF s = Scratch THEN attrs ELSE slices[s]
  BY <1>1, <1>2, ExceptSeq
<1>4. DOMAIN slices = 1 .. Len(slices) /\ DOMAIN slices' = DOMAIN slices
  BY <1>1, <1>2, LenProperties
<1>5. ASSUME NEW e, NEW c, Remembers(e, c) PROVE Remembers(e, c)'
  <2>1. \A s \in DOMAIN slices \ {Scratch} : slices'[s] = slices[s]
    BY <1>3, <1>4
  <2> QED
    BY <1>2, <1>4, <1>5, <2>1, SlicesStand
<1>6. ASSUME NEW h \in DOMAIN handlers' PROVE Holds(h)'
  BY <1>2, <1>5, <1>6 DEF Apart, Holds
<1> QED
  BY <1>1, <1>2, <1>3, <1>6 DEF Apart, Types

LEMMA DeriveStaysApart == Apart /\ [Derive]_derivationVars => Apart'
<1> SUFFICES ASSUME Apart, [Derive]_derivationVars PROVE Apart'
  OBVIOUS
<1>1. CASE UNCHANGED derivationVars
  BY <1>1 DEF derivationVars, Apart, Types, Holds, Remembers, Hoisted
<1> QED
  BY <1>1, AttrsStayApart, GroupsStayApart, ReuseStaysApart DEF Derive

\* A handler whose entries remember its calls has them.
LEMMA RemembersAll ==
    ASSUME Apart, NEW h \in DOMAIN handlers
    PROVE  /\ handlers[h].calls = [i \in DOMAIN Goas(h) |-> CallOf(Goas(h)[i])]
           /\ \A i \in DOMAIN Goas(h) : Goas(h)[i].pre = Hoisted(handlers[h].calls[i].attrs)
<1> DEFINE calls == handlers[h].calls
           goas == Goas(h)
<1>1. /\ goas \in Seq(Entries) /\ goas = arrays[handlers[h].arr]
      /\ calls \in Seq(CallsMade)
  BY GoasAreTheArray, HandlerTypes DEF Apart, Holds
<1>2. /\ Len(calls) = Len(goas) /\ \A i \in 1 .. Len(goas) : Remembers(goas[i], calls[i])
  BY <1>1 DEF Apart, Holds
<1> HIDE DEF calls, goas
<1>3. DOMAIN goas = 1 .. Len(goas) /\ DOMAIN calls = DOMAIN goas
      /\ calls = [i \in DOMAIN calls |-> calls[i]]
  BY <1>1, <1>2, LenProperties
<1>4. ASSUME NEW i \in DOMAIN goas
      PROVE  calls[i] = CallOf(goas[i]) /\ goas[i].pre = Hoisted(calls[i].attrs)
  <2>1. Remembers(goas[i], calls[i]) /\ calls[i] \in CallsMade
    BY <1>1, <1>2, <1>3, LenProperties
  <2>2. CallOf(goas[i]) = [group |-> calls[i].group, attrs |-> calls[i].attrs]
    BY <2>1 DEF Remembers, CallOf
  <2>3. calls[i] = [group |-> calls[i].group, attrs |-> calls[i].attrs]
    BY <2>1 DEF CallsMade
  <2> QED
    BY <2>1, <2>2, <2>3 DEF Remembers
<1>5. calls = [i \in DOMAIN goas |-> CallOf(goas[i])]
  BY <1>3, <1>4
<1> QED
  BY <1>4, <1>5 DEF calls, goas

\* However handlers are derived and a caller reuses its slice, each handler holds
\* exactly the calls it was made by (Handler.withGroupOrAttrs, Handler.WithAttrs).
THEOREM StayApart == DerivationSpec => []HandlersApart
<1>1. Apart => HandlersApart
  BY RemembersAll DEF HandlersApart
<1> QED
  BY <1>1, InitialHandler, DeriveStaysApart, PTL DEF DerivationSpec
=============================================================================
