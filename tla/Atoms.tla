------------------------------- MODULE Atoms -------------------------------
(***************************************************************************)
(* The atom table of quickjs.c: interned strings and symbols.  A JSString  *)
(* structure is at the same time a string value and, once atom_type is set,*)
(* the atom itself, so one reference count serves the holders of the atom  *)
(* index and the holders of the value.  The array of atoms threads a list  *)
(* of free entries through itself, and the strings (not the symbols) hang  *)
(* in the chains of a hash table that grows with the number of atoms.      *)
(*                                                                         *)
(* A structure is a record of atStrs; an entry of the array is the number  *)
(* of a structure, or -(next + 1) for a free entry whose successor in the  *)
(* free list is next (0 ends the list).  atHolds counts the references the *)
(* rest of the program holds: <<"atom", i>>, <<"value", s>>, <<"int", t>>. *)
(***************************************************************************)
EXTENDS Integers, Sequences, FiniteSets

CONSTANTS Texts,      \* the contents of strings
          IntTexts,   \* those that are the decimal form of a tagged integer
          AtomHash,   \* hash_string: [Texts \X {TString, TGlobal} -> Nat]
          ConstText,  \* the text of the only predefined string atom
          MinArray,   \* 211 in the code: the first size of the array
          MaxStructs, \* bound: structures alive at a time
          MaxHolds    \* bound: references held at a time

VARIABLES atom, atStrs, atHolds

atomVars == <<atom, atStrs, atHolds>>

\* JS_ATOM_TYPE_x; a string that is no atom has type 0
TString == 1
TGlobal == 2
TSymbol == 3
TPrivate == 4
HashSymbol == 0
HashPrivate == 1
NoText == "none"
\* the two predefined atoms: a string and a symbol
AtomEnd == 3

NoStr == [live |-> FALSE, text |-> NoText, type |-> 0, ref |-> 0, hash |-> 0, next |-> 0]
Structs == 1..MaxStructs

EntryFree(next) == 0 - (next + 1)
IsFree(e) == e < 0
FreeNext(e) == 0 - e - 1

\* a world is the table together with the structures
World == [a |-> atom, s |-> atStrs]

JS_AtomIsConst(i) == i < AtomEnd

LiveAt(w, i) == w.s[w.a.array[i]]

Unused(w) == {x \in Structs : ~w.s[x].live}

RECURSIVE Chain(_, _)
\* the atoms of a chain of the hash table, from atom i on
Chain(w, i) == IF i = 0 THEN <<>> ELSE <<i>> \o Chain(w, LiveAt(w, i).next)

RECURSIVE FreeList(_, _, _)
\* the free list from entry i on; a list longer than the array has a cycle
FreeList(w, i, fuel) ==
    IF i = 0 \/ fuel = 0 THEN <<>>
    ELSE <<i>> \o FreeList(w, FreeNext(w.a.array[i]), fuel - 1)

RECURSIVE Relink(_, _)
\* prepends the atoms of the sequence, one after the other, to new chains
Relink(w, todo) ==
    IF todo = <<>> THEN w
    ELSE LET i == Head(todo)
             j == LiveAt(w, i).hash % Len(w.a.hash)
         IN  Relink([w EXCEPT !.s[w.a.array[i]].next = w.a.hash[j + 1],
                              !.a.hash[j + 1] = i], Tail(todo))

RECURSIVE AllChains(_, _)
AllChains(w, k) ==
    IF k > Len(w.a.hash) THEN <<>> ELSE Chain(w, w.a.hash[k]) \o AllChains(w, k + 1)

JS_ResizeAtomHash(w, size) ==
    Relink([w EXCEPT !.a.hash = [k \in 1..size |-> 0], !.a.resize = size * 2],
           AllChains(w, 1))

JS_FreeAtomStruct(w, x) ==
    LET p == w.s[x]
        h0 == (p.hash % Len(w.a.hash)) + 1
        chain == Chain(w, w.a.hash[h0])
        k == CHOOSE n \in 1..Len(chain) : w.a.array[chain[n]] = x
        i == IF p.type = TSymbol THEN p.next ELSE chain[k]
        out == IF p.type = TSymbol THEN w
               ELSE IF k = 1 THEN [w EXCEPT !.a.hash[h0] = p.next]
               ELSE [w EXCEPT !.s[w.a.array[chain[k - 1]]].next = p.next]
    IN  [out EXCEPT !.a.array[i] = EntryFree(w.a.free), !.a.free = i,
                    !.a.count = @ - 1, !.s[x] = NoStr]

\* js_free_string and the end of a string or symbol value alike
js_free_string(w, x) ==
    IF w.s[x].ref > 1 THEN [w EXCEPT !.s[x].ref = @ - 1]
    ELSE IF w.s[x].type # 0 THEN JS_FreeAtomStruct(w, x)
    ELSE [w EXCEPT !.s[x] = NoStr]

js_get_atom_index(w, x) ==
    LET p == w.s[x]
        chain == Chain(w, w.a.hash[(p.hash % Len(w.a.hash)) + 1])
    IN  IF p.type = TSymbol THEN p.next
        ELSE chain[CHOOSE n \in 1..Len(chain) : w.a.array[chain[n]] = x]

JS_DupAtom(w, i) ==
    IF JS_AtomIsConst(i) THEN w ELSE [w EXCEPT !.s[w.a.array[i]].ref = @ + 1]

JS_FreeAtom(w, i) ==
    IF JS_AtomIsConst(i) THEN w ELSE js_free_string(w, w.a.array[i])

\* the atom with this text and type, 0 if there is none
AtomFound(w, text, type) ==
    LET chain == Chain(w, w.a.hash[(AtomHash[text, type] % Len(w.a.hash)) + 1])
        hits == {n \in 1..Len(chain) : /\ LiveAt(w, chain[n]).text = text
                                       /\ LiveAt(w, chain[n]).type = type}
    IN  IF hits = {} THEN 0 ELSE chain[CHOOSE n \in hits : \A m \in hits : n <= m]

GrowArray(w) ==
    LET start == Len(w.a.array)
        size == IF (start * 3) \div 2 > MinArray THEN (start * 3) \div 2 ELSE MinArray
        entries == [i \in 1..size |->
                      IF i <= start THEN w.a.array[i]
                      ELSE EntryFree(IF i = size THEN 0 ELSE i + 1)]
    IN  IF w.a.free # 0 THEN w
        ELSE [w EXCEPT !.a.array = entries, !.a.free = start + 1]

\* the structure p becomes the atom of the first free entry
EnterAtom(w, p, type, hash, fails) ==
    LET i == w.a.free
        h1 == (hash % Len(w.a.hash)) + 1
        in == [w EXCEPT !.a.free = FreeNext(w.a.array[i]), !.a.array[i] = p,
                        !.a.count = @ + 1,
                        !.s[p].hash = hash, !.s[p].next = i, !.s[p].type = type]
        hashed == [in EXCEPT !.s[p].next = w.a.hash[h1], !.a.hash[h1] = i]
        w1 == IF type = TSymbol THEN in
              ELSE IF hashed.a.count >= hashed.a.resize /\ "hash" \notin fails
                   THEN JS_ResizeAtomHash(hashed, 2 * Len(w.a.hash))
              ELSE hashed
    IN  [w |-> w1, i |-> i]

\* As a mutant: the string is the atom whatever else it already is
ReusesAlways(w0, str, type, hash, fails) ==
    LET w == GrowArray(w0)
    IN  EnterAtom(w, IF str = 0 THEN CHOOSE x \in Unused(w) : TRUE ELSE str, type, hash, fails)

\* The second half of __JS_NewAtom: there is no such atom yet.
MakeAtom(w0, str, type, hash, fails) ==
    LET w == GrowArray(w0)
        x == CHOOSE y \in Unused(w) : \A z \in Unused(w) : y <= z
        new == [NoStr EXCEPT !.live = TRUE, !.ref = 1,
                             !.text = IF str = 0 THEN NoText ELSE w.s[str].text]
    IN  CASE w0.a.free = 0 /\ "array" \in fails ->
               [w |-> IF str = 0 THEN w0 ELSE js_free_string(w0, str), i |-> 0]
          [] OTHER ->
               IF str # 0 /\ w.s[str].type = 0 THEN EnterAtom(w, str, type, hash, fails)
               ELSE IF "string" \in fails \/ Unused(w) = {}
                    THEN [w |-> IF str = 0 THEN w ELSE js_free_string(w, str), i |-> 0]
               ELSE LET copied == [w EXCEPT !.s[x] = new]
                    IN  EnterAtom(IF str = 0 THEN copied ELSE js_free_string(copied, str),
                                  x, type, hash, fails)

\* [w |-> the world after the call, i |-> the atom or JS_ATOM_NULL]; the
\* reference to str (0: none) is consumed
JS_NewAtom(w, str, atomType, fails) ==
    IF atomType >= TSymbol
    THEN MakeAtom(w, str, TSymbol,
                  IF atomType = TSymbol THEN HashSymbol ELSE HashPrivate, fails)
    ELSE IF w.s[str].type = atomType
    THEN LET i == js_get_atom_index(w, str)
         IN  [w |-> IF JS_AtomIsConst(i) THEN [w EXCEPT !.s[str].ref = @ - 1] ELSE w, i |-> i]
    ELSE LET found == AtomFound(w, w.s[str].text, atomType)
         IN  IF found # 0
             THEN [w |-> js_free_string(JS_DupAtom(w, found), str), i |-> found]
             ELSE MakeAtom(w, str, atomType, AtomHash[w.s[str].text, atomType], fails)

-----------------------------------------------------------------------------
(* What the rest of the program does with atoms. *)

Holds(h) == IF h \in DOMAIN atHolds THEN atHolds[h] ELSE 0
HoldMore(b, h) ==
    [k \in DOMAIN b \cup {h} |-> (IF k \in DOMAIN b THEN b[k] ELSE 0) + (IF k = h THEN 1 ELSE 0)]
HoldLess(b, h) ==
    [k \in {j \in DOMAIN b : j # h \/ b[j] > 1} |-> IF k = h THEN b[k] - 1 ELSE b[k]]

RECURSIVE SumOf(_, _)
SumOf(b, keys) == IF keys = {} THEN 0
                  ELSE LET k == CHOOSE x \in keys : TRUE IN b[k] + SumOf(b, keys \ {k})
HeldInAll == SumOf(atHolds, DOMAIN atHolds)

CanAllocate == Unused(World) # {}
CanHold == HeldInAll < MaxHolds

Becomes(w, holds) == atom' = w.a /\ atStrs' = w.s /\ atHolds' = holds

\* js_alloc_string: a string value of this text
AtNewString(t) ==
    /\ CanAllocate /\ CanHold
    /\ LET x == CHOOSE y \in Unused(World) : \A z \in Unused(World) : y <= z
       IN  Becomes([World EXCEPT !.s[x] = [NoStr EXCEPT !.live = TRUE, !.text = t, !.ref = 1]],
                   HoldMore(atHolds, <<"value", x>>))

StringValues == {x \in Structs : Holds(<<"value", x>>) > 0 /\ atStrs[x].text # NoText}
Fails == {{}, {"array"}, {"string"}, {"hash"}}

\* JS_NewAtomStr: the string value becomes an atom or a tagged integer
JS_NewAtomStr(x, fails) ==
    LET less == HoldLess(atHolds, <<"value", x>>)
        n == JS_NewAtom(World, x, TString, fails)
    IN  IF atStrs[x].text \in IntTexts
        THEN Becomes(js_free_string(World, x), HoldMore(less, <<"int", atStrs[x].text>>))
        ELSE Becomes(n.w, IF n.i = 0 THEN less ELSE HoldMore(less, <<"atom", n.i>>))

\* JS_NewAtomLen finds the atom of a text that is not yet a string value;
\* otherwise it makes the string and goes on as JS_NewAtomStr
JS_NewAtomLen(t) ==
    /\ CanHold /\ t \notin IntTexts
    /\ LET i == AtomFound(World, t, TString)
       IN  i # 0 /\ Becomes(JS_DupAtom(World, i), HoldMore(atHolds, <<"atom", i>>))

\* JS_NewSymbol for Symbol(), Symbol(text), Symbol.for(text) and private names:
\* the caller's reference to the string is consumed, the result is a value
JS_NewSymbol(x, type, fails) ==
    LET less == IF x = 0 THEN atHolds ELSE HoldLess(atHolds, <<"value", x>>)
        n == JS_NewAtom(World, x, type, fails)
    IN  /\ IF x = 0 THEN CanHold /\ type = TSymbol ELSE TRUE
        /\ Becomes(n.w, IF n.i = 0 THEN less
                        ELSE HoldMore(less, <<"value", n.w.a.array[n.i]>>))

\* JS_NewSymbolFromAtom: a symbol described by the text of a string atom
JS_NewSymbolFromAtom(i, type, fails) ==
    /\ CanHold
    /\ LiveAt(World, i).type = TString
    /\ LET x == atom.array[i]
           n == JS_NewAtom([World EXCEPT !.s[x].ref = @ + 1], x, type, fails)
       IN  Becomes(n.w, IF n.i = 0 THEN atHolds
                        ELSE HoldMore(atHolds, <<"value", n.w.a.array[n.i]>>))

AtDupAtom(i) ==
    CanHold /\ Becomes(JS_DupAtom(World, i), HoldMore(atHolds, <<"atom", i>>))

AtFreeAtom(i) == Becomes(JS_FreeAtom(World, i), HoldLess(atHolds, <<"atom", i>>))

\* __JS_AtomToValue; a tagged integer gets a new string
AtAtomToValue(i) ==
    /\ CanHold
    /\ Becomes([World EXCEPT !.s[atom.array[i]].ref = @ + 1],
               HoldMore(atHolds, <<"value", atom.array[i]>>))

\* JS_ValueToAtom of a symbol
AtSymbolToAtom(x) ==
    /\ CanHold /\ atStrs[x].type = TSymbol
    /\ LET i == js_get_atom_index(World, x)
       IN  Becomes(JS_DupAtom(World, i), HoldMore(atHolds, <<"atom", i>>))

AtDupValue(x) ==
    CanHold /\ Becomes([World EXCEPT !.s[x].ref = @ + 1], HoldMore(atHolds, <<"value", x>>))

AtFreeValue(x) == Becomes(js_free_string(World, x), HoldLess(atHolds, <<"value", x>>))

AtFreeInt(t) == Becomes(World, HoldLess(atHolds, <<"int", t>>))

HeldAtoms == {h[2] : h \in {k \in DOMAIN atHolds : k[1] = "atom"}}
HeldValues == {h[2] : h \in {k \in DOMAIN atHolds : k[1] = "value"}}
HeldInts == {h[2] : h \in {k \in DOMAIN atHolds : k[1] = "int"}}

\* JS_InitAtoms: the entry of JS_ATOM_NULL is entry 0 and counted, then the
\* predefined string and the predefined symbol
JS_InitAtoms ==
    LET w0 == [a |-> [array |-> <<>>, hash |-> <<0, 0>>, free |-> 0, count |-> 1, resize |-> 4],
               s |-> [x \in Structs |->
                        IF x = 1 THEN [NoStr EXCEPT !.live = TRUE, !.text = ConstText, !.ref = 1]
                        ELSE NoStr]]
        w1 == JS_NewAtom(w0, 1, TString, {}).w
    IN  JS_NewAtom(w1, 0, TSymbol, {}).w

AtomInit ==
    /\ atom = JS_InitAtoms.a
    /\ atStrs = JS_InitAtoms.s
    /\ atHolds = <<>>

AtomNext ==
    \/ \E t \in Texts : AtNewString(t) \/ JS_NewAtomLen(t)
    \/ \E x \in StringValues, f \in Fails : JS_NewAtomStr(x, f)
    \/ \E x \in StringValues \cup {0}, type \in {TGlobal, TSymbol}, f \in Fails :
          JS_NewSymbol(x, type, f)
    \/ \E i \in HeldAtoms, f \in Fails : JS_NewSymbolFromAtom(i, TPrivate, f)
    \/ \E i \in HeldAtoms \cup 1..(AtomEnd - 1) : AtDupAtom(i) \/ AtAtomToValue(i)
    \/ \E i \in HeldAtoms : AtFreeAtom(i)
    \/ \E x \in HeldValues : AtSymbolToAtom(x) \/ AtDupValue(x) \/ AtFreeValue(x)
    \/ \E t \in HeldInts : AtFreeInt(t)

AtomSpec == AtomInit /\ [][AtomNext]_atomVars

-----------------------------------------------------------------------------
AtomIndices == {i \in DOMAIN atom.array : ~IsFree(atom.array[i])}
Hashed == {i \in AtomIndices : LiveAt(World, i).type # TSymbol}

\* The table is whole whatever was created, freed or could not be allocated:
\* the free list runs once through exactly the free entries; the chains of
\* the hash table hold every string atom exactly once, in the chain of its
\* hash, and no symbol; the number of atoms is exact; and no two atoms stand
\* for the same string.
AtomTableWhole ==
    LET free == FreeList(World, atom.free, Len(atom.array) + 1)
        hashed == AllChains(World, 1)
    IN  /\ Len(free) = Cardinality(DOMAIN atom.array \ AtomIndices)
        /\ {free[k] : k \in DOMAIN free} = DOMAIN atom.array \ AtomIndices
        /\ Len(hashed) = Cardinality(Hashed)
        /\ {hashed[k] : k \in DOMAIN hashed} = Hashed
        /\ \A i \in Hashed : AtomFound(World, LiveAt(World, i).text, LiveAt(World, i).type) = i
        /\ atom.count = Cardinality(AtomIndices) + 1

\* One count serves the holders of an atom and of its string value: the
\* count of every structure is the number of its holders (a predefined atom
\* has one reference of the table's instead of those of its index), so no
\* structure is released while somebody holds it and none is leaked.
AtomRefsExact ==
    \A x \in Structs :
      LET indices == {i \in AtomIndices : atom.array[i] = x}
          byIndex == SumOf(atHolds, {h \in DOMAIN atHolds : h[1] = "atom" /\ h[2] \in indices})
          const == \E i \in indices : JS_AtomIsConst(i)
      IN  /\ atStrs[x].live = (atStrs[x].ref > 0)
          /\ atStrs[x].ref = Holds(<<"value", x>>) + (IF const THEN 1 ELSE byIndex)
          /\ (atStrs[x].live /\ atStrs[x].type # 0) => Cardinality(indices) = 1

\* what a holder of an atom or of a value holds
Meaning(h) ==
    CASE h[1] = "atom" -> [text |-> LiveAt(World, h[2]).text, type |-> LiveAt(World, h[2]).type]
      [] h[1] = "value" -> [text |-> atStrs[h[2]].text, type |-> 0]
      [] OTHER -> [text |-> h[2], type |-> 0]

\* A holder keeps what it holds: no operation changes the text or the type of
\* an atom that is still held, or the text of a string value, even when the
\* structure behind a value becomes an atom.
HoldersKeepMeaning ==
    [][\A h \in DOMAIN atHolds \cap DOMAIN atHolds' : Meaning(h)' = Meaning(h)]_atomVars
=============================================================================
