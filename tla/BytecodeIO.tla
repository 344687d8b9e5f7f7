----------------------------- MODULE BytecodeIO -----------------------------
(****************************************************************************)
(* The binary object writer and reader of quickjs.c: JS_WriteObject and     *)
(* JS_ReadObject.  JS::CompileJavascript and qjsc save compiled functions   *)
(* and modules with them, in one process, and the program that runs them    *)
(* reads them in another, whose atoms have other numbers.                   *)
(*                                                                          *)
(* Bytes are 0..255 and a buffer is a sequence of them.  A value is a tuple *)
(* headed by its kind; an object is <<"obj", id>>, a node of a heap that    *)
(* may be shared or circular.  A runtime is a function from atom numbers to *)
(* texts; the predefined atoms, below AtomEnd, are the same in all of them. *)
(* A machine is "little" or "big".                                          *)
(****************************************************************************)
EXTENDS Integers, Sequences, FiniteSets, SequencesExt

CONSTANTS
  AtomEnd,      \* JS_ATOM_END, the first atom that is not predefined
  LimbBytes,    \* sizeof(limb_t) (8)
  MaxExpn,      \* the largest exponent that is saved (2^31 - 3)
  MaxBytes      \* the largest number of mantissa bytes (2^31 - 1)

JS_ATOM_TAG_INT == 65536      \* 2^31 in the code: atoms from here on are integers

BC_BASE_VERSION == 2
BC_BE_VERSION == 64
BC_VERSION(m) == BC_BASE_VERSION + (IF m = "big" THEN BC_BE_VERSION ELSE 0)

Tags == <<"null", "undef", "false", "true", "int", "float", "str", "object", "array",
          "bigint", "bigfloat", "template", "fun", "mod">>
TagByte(t) == CHOOSE k \in 1..Len(Tags) : Tags[k] = t

----------------------------------------------------------------------------
(* Numbers as bytes.                                                        *)
RECURSIVE LowFirst(_, _)
LowFirst(v, n) == IF n = 0 THEN <<>> ELSE <<v % 256>> \o LowFirst(v \div 256, n - 1)

RECURSIVE FromLow(_)
FromLow(b) == IF b = <<>> THEN 0 ELSE b[1] + 256 * FromLow(Tail(b))

Native(m, b) == IF m = "big" THEN Reverse(b) ELSE b
put(m, v, n) == Native(m, LowFirst(v, n))
get(m, b) == FromLow(Native(m, b))

RECURSIVE dbuf_put_leb128(_)
dbuf_put_leb128(v) == IF v < 128 THEN <<v>> ELSE <<128 + (v % 128)>> \o dbuf_put_leb128(v \div 128)

dbuf_put_sleb128(v) == dbuf_put_leb128(IF v < 0 THEN -2 * v - 1 ELSE 2 * v)

(* Readers give the value and the next position, or a position of 0.        *)
Fail == [v |-> 0, p |-> 0]

RECURSIVE LebFrom(_, _, _)
LebFrom(b, p, i) ==
  IF p > Len(b) \/ i = 5 THEN Fail
  ELSE IF b[p] < 128 THEN [v |-> b[p], p |-> p + 1]
  ELSE LET r == LebFrom(b, p + 1, i + 1)
       IN IF r.p = 0 THEN Fail ELSE [v |-> b[p] - 128 + 128 * r.v, p |-> r.p]

get_leb128(b, p) == LebFrom(b, p, 0)

get_sleb128(b, p) ==
  LET r == get_leb128(b, p)
  IN [r EXCEPT !.v = IF @ % 2 = 0 THEN @ \div 2 ELSE -((@ + 1) \div 2)]

(* bc_set_flags, bc_get_flags: fields of given widths in one number.        *)
RECURSIVE bc_set_flags(_, _)
bc_set_flags(vals, widths) ==
  IF vals = <<>> THEN 0 ELSE vals[1] + 2^widths[1] * bc_set_flags(Tail(vals), Tail(widths))

RECURSIVE bc_get_flags(_, _)
bc_get_flags(n, widths) ==
  IF widths = <<>> THEN <<>>
  ELSE <<n % 2^widths[1]>> \o bc_get_flags(n \div 2^widths[1], Tail(widths))

----------------------------------------------------------------------------
(* Atoms.  The writer numbers those it meets, from AtomEnd (1 when no       *)
(* bytecode is saved) on.                                                   *)
IsTaggedInt(a) == a >= JS_ATOM_TAG_INT

IndexOfAtom(atoms, a) ==
  IF a \in ToSet(atoms) THEN CHOOSE k \in 1..Len(atoms) : atoms[k] = a ELSE Len(atoms) + 1

WithAtom(s, a) == IF a \in ToSet(s.atoms) THEN s ELSE [s EXCEPT !.atoms = Append(@, a)]

(* The state after, and the number written in place of the atom.            *)
bc_atom_to_idx(s, a) ==
  IF a < s.first \/ IsTaggedInt(a) THEN [s |-> s, v |-> a]
  ELSE [s |-> WithAtom(s, a), v |-> s.first + IndexOfAtom(s.atoms, a) - 1]

Emit(s, b) == [s EXCEPT !.buf = @ \o b]

bc_put_atom(s, a) ==
  LET r == bc_atom_to_idx(s, a)
  IN IF IsTaggedInt(a) THEN Emit(s, dbuf_put_leb128(2 * (a - JS_ATOM_TAG_INT) + 1))
     ELSE Emit(r.s, dbuf_put_leb128(2 * r.v))

(* bc_put_u8 .. bc_put_sleb128: one field.  A swapped buffer is for the     *)
(* other kind of machine.                                                   *)
Swapped(s, b) == IF s.swap THEN Reverse(b) ELSE b

PutField(s, kind, v) ==
  CASE kind = "u8" -> Emit(s, <<v>>)
    [] kind = "u16" -> Emit(s, Swapped(s, put(s.m, v, 2)))
    [] kind = "leb" -> Emit(s, dbuf_put_leb128(v))
    [] kind = "sleb" -> Emit(s, dbuf_put_sleb128(v))
    [] kind = "atom" -> bc_put_atom(s, v)
    [] kind = "buf" -> Emit(s, v)

RECURSIVE PutFields(_, _)
PutFields(s, fields) ==
  IF fields = <<>> THEN s ELSE PutFields(PutField(s, fields[1][1], fields[1][2]), Tail(fields))

(* JS_WriteString: the length and the width, then the units.                *)
RECURSIVE Units16(_, _)
Units16(s, units) ==
  IF units = <<>> THEN <<>> ELSE Swapped(s, put(s.m, units[1], 2)) \o Units16(s, Tail(units))

JS_WriteString(s, str) ==
  Emit(s, dbuf_put_leb128(2 * Len(str.units) + (IF str.wide THEN 1 ELSE 0))
          \o (IF str.wide THEN Units16(s, str.units) ELSE str.units))

----------------------------------------------------------------------------
(* Bytecode: an instruction is an opcode and its operands.  The model has   *)
(* one opcode per operand format, so the opcode is the format.              *)
Formats == <<"none", "u8", "u16", "npop_u16", "u32", "atom", "atom_u8", "atom_u16",
             "atom_label_u8", "atom_label_u16", "label_u16">>
Op(fmt) == CHOOSE k \in 1..Len(Formats) : Formats[k] = fmt

Widths(fmt) ==
  CASE fmt = "none" -> <<>>
    [] fmt = "u8" -> <<1>>
    [] fmt = "u16" -> <<2>>
    [] fmt = "npop_u16" -> <<2, 2>>
    [] fmt \in {"u32", "atom"} -> <<4>>
    [] fmt = "atom_u8" -> <<4, 1>>
    [] fmt \in {"atom_u16", "label_u16"} -> <<4, 2>>
    [] fmt = "atom_label_u8" -> <<4, 4, 1>>
    [] fmt = "atom_label_u16" -> <<4, 4, 2>>

HasAtom(fmt) == fmt \in {"atom", "atom_u8", "atom_u16", "atom_label_u8", "atom_label_u16"}

RECURSIVE OpSize(_)
OpSize(widths) == IF widths = <<>> THEN 1 ELSE widths[1] + OpSize(Tail(widths))

RECURSIVE Operands(_, _, _)
Operands(m, args, widths) ==
  IF args = <<>> THEN <<>> ELSE put(m, args[1], widths[1]) \o Operands(m, Tail(args), Tail(widths))

(* The code as it lies in memory.                                           *)
RECURSIVE Assembled(_, _)
Assembled(m, code) ==
  IF code = <<>> THEN <<>>
  ELSE <<Op(code[1].fmt)>> \o Operands(m, code[1].args, Widths(code[1].fmt)) \o Assembled(m, Tail(code))

Patch(b, p, new) == [k \in 1..Len(b) |-> IF k \in p..(p + Len(new) - 1) THEN new[k - p + 1] ELSE b[k]]

(* The operands that bc_byte_swap turns, in order.                          *)
SwapWidths(fmt) ==
  CASE fmt \in {"none", "u8"} -> <<>>
    [] fmt = "u16" -> <<2>>
    [] fmt \in {"u32", "atom", "atom_u8"} -> <<4>>
    [] fmt \in {"atom_u16", "label_u16"} -> <<4, 2>>
    [] fmt = "atom_label_u8" -> <<4, 4>>
    [] fmt = "atom_label_u16" -> <<4, 4, 2>>
    [] fmt = "npop_u16" -> <<2, 2>>

RECURSIVE SwapAt(_, _, _)
SwapAt(b, p, widths) ==
  IF widths = <<>> THEN b
  ELSE SwapAt(Patch(b, p, Reverse(SubSeq(b, p, p + widths[1] - 1))), p + widths[1], Tail(widths))

RECURSIVE bc_byte_swap(_, _)
bc_byte_swap(b, p) ==
  LET fmt == Formats[b[p]]
  IN IF p > Len(b) THEN b
     ELSE bc_byte_swap(SwapAt(b, p + 1, SwapWidths(fmt)), p + OpSize(Widths(fmt)))

(* JS_WriteFunctionBytecode: atoms become indexes, then the bytes turn.     *)
RECURSIVE RelocateOut(_, _, _)
RelocateOut(s, b, p) ==
  LET fmt == Formats[b[p]]
      r == bc_atom_to_idx(s, get(s.m, SubSeq(b, p + 1, p + 4)))
      next == p + OpSize(Widths(fmt))
  IN IF p > Len(b) THEN [s |-> s, b |-> b]
     ELSE IF HasAtom(fmt) THEN RelocateOut(r.s, Patch(b, p + 1, put(s.m, r.v, 4)), next)
     ELSE RelocateOut(s, b, next)

JS_WriteFunctionBytecode(s, code) ==
  LET r == RelocateOut(s, Assembled(s.m, code), 1)
  IN Emit(r.s, IF s.swap THEN bc_byte_swap(r.b, 1) ELSE r.b)

----------------------------------------------------------------------------
(* Numbers of arbitrary size: the low zero bytes of the lowest limb are not *)
(* saved.                                                                   *)
RECURSIVE ZeroBytes(_)
ZeroBytes(b) == IF b = <<>> THEN 0 ELSE IF b[1] # 0 THEN 0 ELSE 1 + ZeroBytes(Tail(b))

RECURSIVE LimbsOut(_)
LimbsOut(tab) == IF tab = <<>> THEN <<>> ELSE LowFirst(tab[1], LimbBytes) \o LimbsOut(Tail(tab))

Digits(a) == LET all == LimbsOut(a.tab) IN SubSeq(all, ZeroBytes(all) + 1, Len(all))

(* The two ways in which a number with a mantissa is refused; INT32_MIN and *)
(* the two largest numbers of 32 bits are no exponents of the format.       *)
BigError(a) ==
  IF a.tab = <<>> THEN ""
  ELSE IF Len(Digits(a)) > MaxBytes THEN "bignum"
  ELSE IF a.expn < -(MaxExpn + 2) \/ a.expn > MaxExpn THEN "exponent"
  ELSE ""

BigFields(tag, a) ==
  LET digits == Digits(a)
  IN IF a.tab # <<>>
     THEN <<<<"leb", 2 * Len(digits) + a.sign>>, <<"buf", digits>>, <<"sleb", a.expn>>>>
     ELSE <<<<"leb", a.sign>>>> \o
          (IF tag = "bigfloat" THEN <<<<"u8", CASE a.expn = "zero" -> 0 [] a.expn = "inf" -> 1 [] a.expn = "nan" -> 2>>>>
           ELSE <<>>)

----------------------------------------------------------------------------
(* JS_WriteObjectRec.  The state s keeps the buffer, the atoms, the marked  *)
(* objects (tmp_mark) and the error.                                        *)
Error(s, e) == [s EXCEPT !.err = e]
Tagged(s, t) == Emit(s, <<TagByte(t)>>)

FunctionWidths == <<1, 1, 1, 1, 2, 1, 1, 1, 1, 1>>
VarWidths == <<4, 1, 1, 1, 1>>
ClosureWidths == <<1, 1, 1, 1, 4>>

VarFields(vd) ==
  <<<<"atom", vd.name>>, <<"leb", vd.level>>, <<"leb", vd.next + 1>>, <<"u8", bc_set_flags(vd.flags, VarWidths)>>>>
ClosureFields(cv) ==
  <<<<"atom", cv.name>>, <<"leb", cv.idx>>, <<"u8", bc_set_flags(cv.flags, ClosureWidths)>>>>

Each(F(_), seq) == FlattenSeq([k \in 1..Len(seq) |-> F(seq[k])])

FunctionHead(f, size) ==
  <<<<"u16", bc_set_flags(f.flags, FunctionWidths)>>, <<"u8", f.mode>>, <<"atom", f.name>>,
    <<"leb", f.args>>, <<"leb", f.vars>>, <<"leb", f.defined>>, <<"leb", f.stack>>,
    <<"leb", Len(f.closure)>>, <<"leb", Len(f.cpool)>>, <<"leb", size>>, <<"leb", Len(f.vardefs)>>>>
  \o Each(VarFields, f.vardefs) \o Each(ClosureFields, f.closure)

DebugFields(d) ==
  <<<<"atom", d.file>>, <<"leb", d.line>>, <<"leb", Len(d.pc2line)>>, <<"buf", d.pc2line>>>>

HasDebug(f) == f.flags[10] = 1

ExportFields(me) ==
  <<<<"u8", me.type>>>>
  \o (IF me.type = 0 THEN <<<<"leb", me.idx>>>> ELSE <<<<"leb", me.idx>>, <<"atom", me.local>>>>)
  \o <<<<"atom", me.name>>>>

ModuleFields(x) ==
  <<<<"atom", x.name>>, <<"leb", Len(x.reqs)>>>> \o Each(LAMBDA r : <<<<"atom", r>>>>, x.reqs)
  \o <<<<"leb", Len(x.exports)>>>> \o Each(ExportFields, x.exports)
  \o <<<<"leb", Len(x.stars)>>>> \o Each(LAMBDA i : <<<<"leb", i>>>>, x.stars)
  \o <<<<"leb", Len(x.imports)>>>>
  \o Each(LAMBDA mi : <<<<"leb", mi.var>>, <<"atom", mi.name>>, <<"leb", mi.req>>>>, x.imports)

(* The properties of an object that are saved.                              *)
Saved(o) == SelectSeq(o.props, LAMBDA pr : pr.string /\ pr.enumerable)

Unmark(s, id) == [s EXCEPT !.marks = @ \ {id}]

RECURSIVE WriteRec(_, _, _)
RECURSIVE WriteAll(_, _, _)
RECURSIVE WriteProps(_, _, _)

WriteAll(H, s, vals) ==
  IF vals = <<>> \/ s.err # "none" THEN s ELSE WriteAll(H, WriteRec(H, s, vals[1]), Tail(vals))

WriteProps(H, s, props) ==
  IF props = <<>> \/ s.err # "none" THEN s
  ELSE WriteProps(H, WriteRec(H, bc_put_atom(s, props[1].atom), props[1].val), Tail(props))

WriteRec(H, s, v) ==
  CASE v[1] \in {"null", "undef"} -> Tagged(s, v[1])
    [] v[1] = "bool" -> Tagged(s, IF v[2] THEN "true" ELSE "false")
    [] v[1] = "int" -> Emit(Tagged(s, "int"), dbuf_put_sleb128(v[2]))
    [] v[1] = "float" -> Emit(Tagged(s, "float"), Swapped(s, Native(s.m, v[2])))
    [] v[1] = "str" -> JS_WriteString(Tagged(s, "str"), v[2])
    [] v[1] \in {"bigint", "bigfloat"} ->
         IF BigError(v[2]) # "" THEN Error(s, BigError(v[2]))
         ELSE PutFields(Tagged(s, v[1]), BigFields(v[1], v[2]))
    [] v[1] = "fun" ->
         LET f == v[2]
             head == PutFields(Tagged(s, "fun"), FunctionHead(f, Len(Assembled(s.m, f.code))))
             body == JS_WriteFunctionBytecode(head, f.code)
         IN IF ~s.bytecode THEN Error(s, "tag")
            ELSE WriteAll(H, IF HasDebug(f) THEN PutFields(body, DebugFields(f.debug)) ELSE body, f.cpool)
    [] v[1] = "mod" ->
         IF ~s.bytecode THEN Error(s, "tag")
         ELSE WriteRec(H, PutFields(Tagged(s, "mod"), ModuleFields(v[2])), v[2].func)
    [] v[1] = "obj" ->
         LET o == H[v[2]]
             s1 == [s EXCEPT !.marks = @ \cup {v[2]}]
             template == s.bytecode /\ ~o.extensible
         IN IF o.class = "other" THEN Error(s, "class")
            ELSE IF v[2] \in s.marks THEN Error(s, "circular")
            ELSE IF o.class = "array"
            THEN Unmark(WriteAll(H, PutFields(Tagged(s1, IF template THEN "template" ELSE "array"),
                                              <<<<"leb", Len(o.elems)>>>>),
                                 IF template THEN Append(o.elems, o.raw) ELSE o.elems), v[2])
            ELSE IF \E k \in 1..Len(Saved(o)) : Saved(o)[k].getset
            THEN Error(s1, "accessor")
            ELSE Unmark(WriteProps(H, PutFields(Tagged(s1, "object"), <<<<"leb", Len(Saved(o))>>>>), Saved(o)), v[2])
    [] v[1] = "symbol" -> Error(s, "tag")
    [] v[1] = "throws" -> Error(s, "getter")       \* an element whose getter throws

(* JS_WriteObjectAtoms: version and atom texts go in front.                 *)
RECURSIVE AtomTexts(_, _, _)
AtomTexts(s, rt, k) ==
  IF k > Len(s.atoms) THEN s ELSE AtomTexts(JS_WriteString(s, rt[s.atoms[k]]), rt, k + 1)

JS_WriteObjectAtoms(s, rt) ==
  LET version == IF s.swap THEN (IF s.m = "big" THEN BC_BASE_VERSION ELSE BC_BASE_VERSION + BC_BE_VERSION)
                 ELSE BC_VERSION(s.m)
      head == [s EXCEPT !.buf = <<version>> \o dbuf_put_leb128(Len(s.atoms))]
  IN [s EXCEPT !.buf = AtomTexts(head, rt, 1).buf \o s.buf]

(* JS_WriteObject: the bytes, the error, and the objects left marked.       *)
JS_WriteObject(H, marks, rt, m, v, bytecode, swap) ==
  LET s0 == [buf |-> <<>>, atoms |-> <<>>, marks |-> marks, err |-> "none", m |-> m,
             first |-> IF bytecode THEN AtomEnd ELSE 1, bytecode |-> bytecode, swap |-> swap]
      s == WriteRec(H, s0, v)
  IN IF s.err # "none" THEN [buf |-> <<>>, err |-> s.err, marks |-> s.marks]
     ELSE [buf |-> JS_WriteObjectAtoms(s, rt).buf, err |-> "none", marks |-> s.marks]

----------------------------------------------------------------------------
(* The reader: R holds the buffer, the atoms of its table, the runtime and  *)
(* the flags.  A position of 0 is the pending exception.                    *)
bc_get_buf(R, p, n) == IF p = 0 \/ p + n - 1 > Len(R.buf) THEN Fail
                       ELSE [v |-> SubSeq(R.buf, p, p + n - 1), p |-> p + n]

bc_idx_to_atom(R, idx, p) ==
  IF IsTaggedInt(idx) \/ idx < R.first THEN [v |-> idx, p |-> p]
  ELSE IF idx - R.first >= Len(R.atoms) THEN Fail
  ELSE [v |-> R.atoms[idx - R.first + 1], p |-> p]

bc_get_atom(R, p) ==
  LET r == get_leb128(R.buf, p)
  IN IF r.p = 0 THEN Fail
     ELSE IF r.v % 2 = 1 THEN [v |-> JS_ATOM_TAG_INT + (r.v \div 2), p |-> r.p]
     ELSE bc_idx_to_atom(R, r.v \div 2, r.p)

GetField(R, p, kind) ==
  IF p = 0 THEN Fail
  ELSE CASE kind = "u8" -> IF p > Len(R.buf) THEN Fail ELSE [v |-> R.buf[p], p |-> p + 1]
         [] kind = "u16" -> LET r == bc_get_buf(R, p, 2) IN IF r.p = 0 THEN Fail ELSE [r EXCEPT !.v = get(R.m, @)]
         [] kind = "leb" -> get_leb128(R.buf, p)
         [] kind = "leb16" -> LET r == get_leb128(R.buf, p) IN [r EXCEPT !.v = @ % 65536]
         [] kind = "sleb" -> get_sleb128(R.buf, p)
         [] kind = "atom" -> bc_get_atom(R, p)

RECURSIVE GetFields(_, _, _)
GetFields(R, p, kinds) ==
  IF kinds = <<>> THEN [v |-> <<>>, p |-> p]
  ELSE LET r == GetField(R, p, kinds[1])
           rest == GetFields(R, r.p, Tail(kinds))
       IN IF r.p = 0 \/ rest.p = 0 THEN [v |-> <<>>, p |-> 0] ELSE [v |-> <<r.v>> \o rest.v, p |-> rest.p]

RECURSIVE GetEntries(_, _, _, _)
GetEntries(R, p, n, kinds) ==
  IF n = 0 \/ p = 0 THEN [v |-> <<>>, p |-> p]
  ELSE LET r == GetFields(R, p, kinds)
           rest == GetEntries(R, r.p, n - 1, kinds)
       IN [v |-> <<r.v>> \o rest.v, p |-> rest.p]

(* A table: a count, then that many entries.                                *)
GetTable(R, p, kinds) ==
  LET n == GetField(R, p, "leb") IN GetEntries(R, n.p, n.v, kinds)

JS_ReadString(R, p) ==
  LET n == GetField(R, p, "leb")
      wide == n.v % 2 = 1
      len == n.v \div 2
      r == bc_get_buf(R, n.p, IF wide THEN 2 * len ELSE len)
  IN IF r.p = 0 THEN Fail
     ELSE [v |-> [wide |-> wide,
                  units |-> IF wide THEN [k \in 1..len |-> get(R.m, SubSeq(r.v, 2 * k - 1, 2 * k))] ELSE r.v],
           p |-> r.p]

(* JS_ReadFunctionBytecode: indexes become atoms, unless the bytes are used *)
(* where they lie.                                                          *)
RECURSIVE RelocateIn(_, _, _, _)
RelocateIn(R, b, at, p) ==
  LET fmt == Formats[b[at]]
      r == bc_idx_to_atom(R, get(R.m, SubSeq(b, at + 1, at + 4)), p)
      next == at + OpSize(Widths(fmt))
  IN IF at > Len(b) THEN [v |-> b, p |-> p]
     ELSE IF ~HasAtom(fmt) \/ R.rom THEN RelocateIn(R, b, next, p)
     ELSE IF r.p = 0 THEN Fail
     ELSE RelocateIn(R, Patch(b, at + 1, put(R.m, r.v, 4)), next, p)

JS_ReadFunctionBytecode(R, p, n) ==
  LET r == bc_get_buf(R, p, n) IN IF r.p = 0 THEN Fail ELSE RelocateIn(R, r.v, 1, r.p)

GetBig(R, p, tag) ==
  LET n == GetField(R, p, "leb")
      len == n.v \div 2
      digits == bc_get_buf(R, n.p, len)
      zeros == (LimbBytes - (len % LimbBytes)) % LimbBytes
      all == [k \in 1..zeros |-> 0] \o digits.v
      e == IF len # 0 THEN GetField(R, digits.p, "sleb")
           ELSE IF tag = "bigint" THEN [v |-> 0, p |-> n.p]
           ELSE GetField(R, n.p, "u8")
  IN IF n.p = 0 \/ digits.p = 0 \/ e.p = 0 THEN Fail
     ELSE [v |-> <<tag, [sign |-> n.v % 2,
                         tab |-> [k \in 1..((len + LimbBytes - 1) \div LimbBytes) |->
                                    FromLow(SubSeq(all, (k - 1) * LimbBytes + 1, k * LimbBytes))],
                         expn |-> IF len # 0 THEN e.v
                                  ELSE CASE e.v = 0 -> "zero" [] e.v = 1 -> "inf" [] OTHER -> "nan"]>>,
           p |-> e.p]

RECURSIVE GetExports(_, _, _)
GetExports(R, p, n) ==
  IF n = 0 \/ p = 0 THEN [v |-> <<>>, p |-> p]
  ELSE LET t == GetField(R, p, "u8")
           r == IF t.v = 0 THEN GetFields(R, t.p, <<"leb", "atom">>) ELSE GetFields(R, t.p, <<"leb", "atom", "atom">>)
           me == IF t.v = 0 THEN [type |-> 0, idx |-> r.v[1], name |-> r.v[2]]
                 ELSE [type |-> t.v, idx |-> r.v[1], local |-> r.v[2], name |-> r.v[3]]
           rest == GetExports(R, r.p, n - 1)
       IN IF t.p = 0 \/ r.p = 0 \/ rest.p = 0 THEN [v |-> <<>>, p |-> 0]
          ELSE [v |-> <<me>> \o rest.v, p |-> rest.p]

----------------------------------------------------------------------------
(* JS_ReadObjectRec.  A new object is given by the tree of what was defined *)
(* in it, since nothing else can refer to it yet.                           *)
RECURSIVE ReadRec(_, _)
RECURSIVE ReadAll(_, _, _)
RECURSIVE ReadProps(_, _, _)

ReadAll(R, p, n) ==
  IF n = 0 \/ p = 0 THEN [v |-> <<>>, p |-> p]
  ELSE LET r == ReadRec(R, p)
           rest == ReadAll(R, r.p, n - 1)
       IN IF r.p = 0 \/ rest.p = 0 THEN [v |-> <<>>, p |-> 0] ELSE [v |-> <<r.v>> \o rest.v, p |-> rest.p]

ReadProps(R, p, n) ==
  IF n = 0 \/ p = 0 THEN [v |-> <<>>, p |-> p]
  ELSE LET a == bc_get_atom(R, p)
           r == IF a.p = 0 THEN Fail ELSE ReadRec(R, a.p)
           rest == ReadProps(R, r.p, n - 1)
       IN IF r.p = 0 \/ rest.p = 0 THEN [v |-> <<>>, p |-> 0]
          ELSE [v |-> <<<<a.v, r.v>>>> \o rest.v, p |-> rest.p]

ReadFunction(R, p) ==
  LET h == GetFields(R, p, <<"u16", "u8", "atom", "leb16", "leb16", "leb16", "leb16", "leb", "leb", "leb", "leb">>)
      flags == bc_get_flags(h.v[1], FunctionWidths)
      vars == GetEntries(R, h.p, h.v[11], <<"atom", "leb", "leb", "u8">>)
      closure == GetEntries(R, vars.p, h.v[8], <<"atom", "leb", "u8">>)
      code == JS_ReadFunctionBytecode(R, closure.p, h.v[10])
      dbg == GetFields(R, code.p, <<"atom", "leb", "leb">>)
      lines == bc_get_buf(R, dbg.p, dbg.v[3])
      after == IF flags[10] = 1 THEN (IF dbg.p = 0 THEN 0 ELSE lines.p) ELSE code.p
      pool == ReadAll(R, after, h.v[9])
  IN IF h.p = 0 THEN Fail
     ELSE IF pool.p = 0 THEN Fail
     ELSE [v |-> <<"fun",
             [flags |-> flags, mode |-> h.v[2], name |-> h.v[3], args |-> h.v[4], vars |-> h.v[5],
              defined |-> h.v[6], stack |-> h.v[7], bytes |-> code.v,
              vardefs |-> [k \in 1..Len(vars.v) |->
                             [name |-> vars.v[k][1], level |-> vars.v[k][2], next |-> vars.v[k][3] - 1,
                              flags |-> bc_get_flags(vars.v[k][4], VarWidths)]],
              closure |-> [k \in 1..Len(closure.v) |->
                             [name |-> closure.v[k][1], idx |-> closure.v[k][2],
                              flags |-> bc_get_flags(closure.v[k][3], ClosureWidths)]],
              debug |-> IF flags[10] = 1 THEN [file |-> dbg.v[1], line |-> dbg.v[2], pc2line |-> lines.v]
                        ELSE [file |-> 0, line |-> 0, pc2line |-> <<>>],
              cpool |-> pool.v]>>,
           p |-> pool.p]

ReadModule(R, p) ==
  LET name == GetField(R, p, "atom")
      reqs == GetTable(R, name.p, <<"atom">>)
      n == GetField(R, reqs.p, "leb")
      exports == GetExports(R, n.p, n.v)
      stars == GetTable(R, exports.p, <<"leb">>)
      imports == GetTable(R, stars.p, <<"leb", "atom", "leb">>)
      func == IF imports.p = 0 THEN Fail ELSE ReadRec(R, imports.p)
  IN IF func.p = 0 THEN Fail
     ELSE [v |-> <<"mod",
             [name |-> name.v, reqs |-> [k \in 1..Len(reqs.v) |-> reqs.v[k][1]], exports |-> exports.v,
              stars |-> [k \in 1..Len(stars.v) |-> stars.v[k][1]],
              imports |-> [k \in 1..Len(imports.v) |->
                             [var |-> imports.v[k][1], name |-> imports.v[k][2], req |-> imports.v[k][3]]],
              func |-> func.v]>>,
           p |-> func.p]

ReadRec(R, p) ==
  LET t == GetField(R, p, "u8")
      tag == Tags[t.v]
      f == bc_get_buf(R, t.p, 8)
      i == GetField(R, t.p, "sleb")
      str == JS_ReadString(R, t.p)
      n == GetField(R, t.p, "leb")
      props == ReadProps(R, n.p, n.v)
      elems == ReadAll(R, n.p, IF tag = "template" THEN n.v + 1 ELSE n.v)
      Got(r, v) == IF r.p = 0 THEN Fail ELSE [v |-> v, p |-> r.p]
  IN IF t.p = 0 THEN Fail
     ELSE IF t.v \notin 1..Len(Tags) THEN Fail
     ELSE IF tag \in {"fun", "mod"} /\ ~R.bytecode THEN Fail
     ELSE CASE tag \in {"null", "undef"} -> [v |-> <<tag>>, p |-> t.p]
            [] tag \in {"false", "true"} -> [v |-> <<"bool", tag = "true">>, p |-> t.p]
            [] tag = "int" -> Got(i, <<"int", i.v>>)
            [] tag = "float" -> IF f.p = 0 THEN Fail ELSE [v |-> <<"float", Native(R.m, f.v)>>, p |-> f.p]
            [] tag = "str" -> Got(str, <<"str", str.v>>)
            [] tag \in {"bigint", "bigfloat"} -> GetBig(R, t.p, tag)
            [] tag = "fun" -> ReadFunction(R, t.p)
            [] tag = "mod" -> ReadModule(R, t.p)
            [] tag = "object" -> Got(props, <<"object", props.v>>)
            [] tag = "array" -> Got(elems, <<"array", elems.v>>)
            [] tag = "template" -> IF elems.p = 0 THEN Fail
                                   ELSE [v |-> <<"template", Front(elems.v), Last(elems.v)>>, p |-> elems.p]

(* JS_NewAtomStr: the atom of that text, made where there is none yet.      *)
NewAtom(rt, text) ==
  IF \E a \in DOMAIN rt : rt[a] = text THEN CHOOSE a \in DOMAIN rt : rt[a] = text
  ELSE CHOOSE a \in 1..(Cardinality(DOMAIN rt) + 1) :
         a \notin DOMAIN rt /\ \A k \in 1..(a - 1) : k \in DOMAIN rt

RECURSIVE ReadAtoms(_, _, _)
ReadAtoms(R, p, n) ==
  IF n = 0 \/ p = 0 THEN [R |-> R, p |-> p]
  ELSE LET r == JS_ReadString(R, p)
           a == NewAtom(R.rt, r.v)
           inPlace == a = Len(R.atoms) + R.first
       IN IF r.p = 0 THEN [R |-> R, p |-> 0]
          ELSE ReadAtoms([R EXCEPT !.atoms = Append(@, a), !.rom = @ /\ inPlace,
                                   !.rt = [k \in DOMAIN @ \cup {a} |-> IF k = a THEN r.v ELSE @[k]]],
                         r.p, n - 1)

JS_ReadObject(buf, rt, m, bytecode, rom) ==
  LET R == [buf |-> buf, m |-> m, rt |-> rt, atoms |-> <<>>, rom |-> rom, bytecode |-> bytecode,
            first |-> IF bytecode THEN AtomEnd ELSE 1]
      version == GetField(R, 1, "u8")
      n == GetField(R, version.p, "leb")
      r == ReadAtoms(R, n.p, n.v)
      obj == IF r.p = 0 THEN Fail ELSE ReadRec(r.R, r.p)
  IN IF version.p = 0 \/ version.v # BC_VERSION(m) \/ obj.p = 0
     THEN [ok |-> FALSE, v |-> <<>>, rt |-> rt]
     ELSE [ok |-> TRUE, v |-> obj.v, rt |-> r.R.rt]

----------------------------------------------------------------------------
(* The pc2line table: JS_WriteObject saves it, find_line_num reads it.      *)
PC2LINE_BASE == -1
PC2LINE_RANGE == 5
PC2LINE_OP_FIRST == 1
PC2LINE_DIFF_PC_MAX == (255 - PC2LINE_OP_FIRST) \div PC2LINE_RANGE

(* The calls of add_pc2line_info, one per OP_line_num in code order, into   *)
(* the slots that are left of line_number_size.                             *)
RECURSIVE add_pc2line_info(_, _, _, _)
add_pc2line_info(marks, slots, last, line) ==
  IF marks = <<>> THEN <<>>
  ELSE LET k == marks[1]
       IN IF slots > 0 /\ k.pc >= last /\ k.line # line
          THEN <<k>> \o add_pc2line_info(Tail(marks), slots - 1, k.pc, k.line)
          ELSE add_pc2line_info(Tail(marks), slots, last, line)

(* A plausible slip: the limit of the short form one too high.              *)
ShortTooFar(dl, dp) ==
  dl >= PC2LINE_BASE /\ dl <= PC2LINE_BASE + PC2LINE_RANGE /\ dp <= PC2LINE_DIFF_PC_MAX

ShortForm(dl, dp) ==
  dl >= PC2LINE_BASE /\ dl < PC2LINE_BASE + PC2LINE_RANGE /\ dp <= PC2LINE_DIFF_PC_MAX

RECURSIVE compute_pc2line_info(_, _, _)
compute_pc2line_info(slots, last, line) ==
  IF slots = <<>> THEN <<>>
  ELSE LET k == slots[1]
           dp == k.pc - last
           dl == k.line - line
       IN IF dl = 0 \/ dp < 0 THEN compute_pc2line_info(Tail(slots), last, line)
          ELSE (IF ShortForm(dl, dp) THEN <<((dl - PC2LINE_BASE) + dp * PC2LINE_RANGE + PC2LINE_OP_FIRST) % 256>>
                ELSE <<0>> \o dbuf_put_leb128(dp) \o dbuf_put_sleb128(dl))
               \o compute_pc2line_info(Tail(slots), k.pc, k.line)

RECURSIVE find_line_num(_, _, _, _, _, _)
find_line_num(b, at, p, pc, line, first) ==
  LET d == get_leb128(b, p + 1)
      l == get_sleb128(b, d.p)
      op == b[p] - PC2LINE_OP_FIRST
      newpc == IF b[p] = 0 THEN pc + d.v ELSE pc + (op \div PC2LINE_RANGE)
      newline == IF b[p] = 0 THEN line + l.v ELSE line + (op % PC2LINE_RANGE) + PC2LINE_BASE
      next == IF b[p] = 0 THEN l.p ELSE p + 1
  IN IF p > Len(b) THEN line
     ELSE IF b[p] = 0 /\ (d.p = 0 \/ l.p = 0) THEN first
     ELSE IF at < newpc THEN line
     ELSE find_line_num(b, at, next, newpc, newline, first)

----------------------------------------------------------------------------
(* What a written value means: the tree of it, with the texts of its atoms. *)
Text(rt, a) == IF IsTaggedInt(a) THEN <<"int", a - JS_ATOM_TAG_INT>>
               ELSE IF a = 0 THEN <<"none">> ELSE <<"text", rt[a]>>

FunctionMeaning(rt, f, code, pool) ==
  [flags |-> f.flags, mode |-> f.mode, name |-> Text(rt, f.name), args |-> f.args, vars |-> f.vars,
   defined |-> f.defined, stack |-> f.stack, code |-> code, cpool |-> pool,
   vardefs |-> [k \in 1..Len(f.vardefs) |-> [f.vardefs[k] EXCEPT !.name = Text(rt, @)]],
   closure |-> [k \in 1..Len(f.closure) |-> [f.closure[k] EXCEPT !.name = Text(rt, @)]],
   debug |-> IF HasDebug(f) THEN <<Text(rt, f.debug.file), f.debug.line, f.debug.pc2line>> ELSE <<>>]

ModuleMeaning(rt, x, func) ==
  [name |-> Text(rt, x.name), reqs |-> [k \in 1..Len(x.reqs) |-> Text(rt, x.reqs[k])],
   exports |-> [k \in 1..Len(x.exports) |->
                  LET me == x.exports[k]
                  IN <<me.type, me.idx, Text(rt, me.name)>> \o (IF me.type = 0 THEN <<>> ELSE <<Text(rt, me.local)>>)],
   stars |-> x.stars,
   imports |-> [k \in 1..Len(x.imports) |-> [x.imports[k] EXCEPT !.name = Text(rt, @)]],
   func |-> func]

Instruction(rt, fmt, args) ==
  <<fmt, IF HasAtom(fmt) THEN <<Text(rt, args[1])>> \o Tail(args) ELSE args>>

RECURSIVE ArgsAt(_, _, _, _)
ArgsAt(m, b, p, widths) ==
  IF widths = <<>> THEN <<>>
  ELSE <<get(m, SubSeq(b, p, p + widths[1] - 1))>> \o ArgsAt(m, b, p + widths[1], Tail(widths))

(* What the interpreter finds in bytes: opcodes with their operands.        *)
RECURSIVE Decoded(_, _, _, _)
Decoded(rt, m, b, p) ==
  IF p > Len(b) THEN <<>>
  ELSE LET fmt == Formats[b[p]]
       IN <<Instruction(rt, fmt, ArgsAt(m, b, p + 1, Widths(fmt)))>>
          \o Decoded(rt, m, b, p + OpSize(Widths(fmt)))

(* The same number without low zero limbs.                                  *)
RECURSIVE NoLowZeros(_)
NoLowZeros(tab) == IF tab = <<>> THEN <<>> ELSE IF tab[1] = 0 THEN NoLowZeros(Tail(tab)) ELSE tab

RECURSIVE Meaning(_, _, _, _)
Meaning(H, rt, v, bytecode) ==
  LET Sub(seq) == [k \in 1..Len(seq) |-> Meaning(H, rt, seq[k], bytecode)]
  IN CASE v[1] = "fun" ->
            <<"fun", FunctionMeaning(rt, v[2], [k \in 1..Len(v[2].code) |-> Instruction(rt, v[2].code[k].fmt, v[2].code[k].args)],
                                     Sub(v[2].cpool))>>
       [] v[1] = "mod" -> <<"mod", ModuleMeaning(rt, v[2], Meaning(H, rt, v[2].func, bytecode))>>
       [] v[1] = "obj" ->
            LET o == H[v[2]]
                sv == Saved(o)
            IN IF o.class = "array"
               THEN IF bytecode /\ ~o.extensible
                    THEN <<"template", Sub(o.elems), Meaning(H, rt, o.raw, bytecode)>>
                    ELSE <<"array", Sub(o.elems)>>
               ELSE <<"object", [k \in 1..Len(sv) |-> <<Text(rt, sv[k].atom), Meaning(H, rt, sv[k].val, bytecode)>>]>>
       [] v[1] \in {"bigint", "bigfloat"} -> <<v[1], [v[2] EXCEPT !.tab = NoLowZeros(@)]>>
       [] OTHER -> v

(* The same of what was read, on the reading machine.                       *)
RECURSIVE ReadMeaning(_, _, _)
ReadMeaning(rt, m, v) ==
  LET Sub(seq) == [k \in 1..Len(seq) |-> ReadMeaning(rt, m, seq[k])]
  IN CASE v[1] = "fun" -> <<"fun", FunctionMeaning(rt, v[2], Decoded(rt, m, v[2].bytes, 1), Sub(v[2].cpool))>>
       [] v[1] = "mod" -> <<"mod", ModuleMeaning(rt, v[2], ReadMeaning(rt, m, v[2].func))>>
       [] v[1] = "object" ->
            <<"object", [k \in 1..Len(v[2]) |-> <<Text(rt, v[2][k][1]), ReadMeaning(rt, m, v[2][k][2])>>]>>
       [] v[1] = "array" -> <<"array", Sub(v[2])>>
       [] v[1] = "template" -> <<"template", Sub(v[2]), ReadMeaning(rt, m, v[3])>>
       [] OTHER -> v

(* Can the value be saved at all, independently of how the writer goes      *)
(* about it: path holds the objects it is inside of.                        *)
RECURSIVE Savable(_, _, _, _)
Savable(H, v, bytecode, path) ==
  CASE v[1] \in {"symbol", "throws"} -> FALSE
    [] v[1] \in {"bigint", "bigfloat"} ->
         \/ v[2].tab = <<>>
         \/ /\ LimbBytes * Len(NoLowZeros(v[2].tab)) <= MaxBytes
            /\ v[2].expn \in -(MaxExpn + 2)..MaxExpn
    [] v[1] = "fun" -> bytecode /\ \A k \in 1..Len(v[2].cpool) : Savable(H, v[2].cpool[k], bytecode, path)
    [] v[1] = "mod" -> bytecode /\ Savable(H, v[2].func, bytecode, path)
    [] v[1] = "obj" ->
         LET o == H[v[2]]
             in == path \cup {v[2]}
         IN /\ v[2] \notin path
            /\ o.class # "other"
            /\ o.class = "array" =>
                 /\ \A k \in 1..Len(o.elems) : Savable(H, o.elems[k], bytecode, in)
                 /\ (bytecode /\ ~o.extensible) => Savable(H, o.raw, bytecode, in)
            /\ o.class = "object" =>
                 \A k \in 1..Len(Saved(o)) : ~Saved(o)[k].getset /\ Savable(H, Saved(o)[k].val, bytecode, in)
    [] OTHER -> TRUE

Other(m) == IF m = "big" THEN "little" ELSE "big"

(* The write succeeds exactly when the value can be saved, and then what    *)
(* the other program reads is what was written; every strict prefix of the  *)
(* data, and data for the other kind of machine, is refused.                *)
SaveLoadRight(H, rt, v, m, bytecode, swap, rt2, rom) ==
  LET w == JS_WriteObject(H, {}, rt, m, v, bytecode, swap)
      m2 == IF swap THEN Other(m) ELSE m
      r == JS_ReadObject(w.buf, rt2, m2, bytecode, rom)
  IN IF ~Savable(H, v, bytecode, {}) THEN w.err # "none"
     ELSE /\ w.err = "none"
          /\ w.marks = {}
          /\ r.ok
          /\ ReadMeaning(r.rt, m2, r.v) = Meaning(H, rt, v, bytecode)
          /\ ~JS_ReadObject(w.buf, rt2, Other(m2), bytecode, rom).ok

PrefixesRefused(H, rt, v, m, bytecode, rt2) ==
  LET b == JS_WriteObject(H, {}, rt, m, v, bytecode, FALSE).buf
  IN \A n \in 0..(Len(b) - 1) : ~JS_ReadObject(SubSeq(b, 1, n), rt2, m, bytecode, FALSE).ok

(* The line of a position: that of the last mark at or before it.           *)
LineOf(marks, at, first) ==
  LET before == {k \in 1..Len(marks) : marks[k].pc <= at}
  IN IF before = {} THEN first ELSE marks[CHOOSE k \in before : \A j \in before : j <= k].line

(* resolve_variables counts a slot for every OP_line_num that it keeps.     *)
line_number_size(marks) == Len(marks)

LinesRight(marks, first, at) ==
  find_line_num(compute_pc2line_info(add_pc2line_info(marks, line_number_size(marks), 0, first), 0, first), at, 1, 0, first, first)
    = LineOf(marks, at, first)

-----------------------------------------------------------------------------
(* A program that saves its objects again and again while it changes them:  *)
(* calls of JS_WriteObject (bjson.write) on a small heap, with the tmp_mark *)
(* bits that the calls leave in the objects.                                *)

CONSTANT
  WrObjects       \* object ids

VARIABLES
  wrHeap,         \* the objects
  wrMarks,        \* those whose tmp_mark is set
  wrLast          \* the last call: the object and the error

wrVars == <<wrHeap, wrMarks, wrLast>>

WrAtom == 1
WrRuntime == <<[wide |-> FALSE, units |-> <<97>>]>>
WrData(val) == [atom |-> WrAtom, string |-> TRUE, enumerable |-> TRUE, getset |-> FALSE, val |-> val]
WrGetter(enumerable) == [WrData(<<"undef">>) EXCEPT !.getset = TRUE, !.enumerable = enumerable]
WrObject(props) == [class |-> "object", extensible |-> TRUE, elems |-> <<>>, raw |-> <<"undef">>, props |-> props]
WrArray(elems) == [WrObject(<<>>) EXCEPT !.class = "array", !.elems = elems]

WrNone == [obj |-> 0, err |-> "none"]

WrInit ==
  /\ wrHeap = [o \in WrObjects |-> WrObject(<<>>)]
  /\ wrMarks = {}
  /\ wrLast = WrNone

WrWrite(o) ==
  LET w == JS_WriteObject(wrHeap, wrMarks, WrRuntime, "little", <<"obj", o>>, FALSE, FALSE)
  IN /\ wrMarks' = w.marks
     /\ wrLast' = [obj |-> o, err |-> w.err]
     /\ UNCHANGED wrHeap

WrChange(o, new) ==
  /\ wrHeap' = [wrHeap EXCEPT ![o] = new]
  /\ wrLast' = WrNone
  /\ UNCHANGED wrMarks

WrSet(o, v) == WrChange(o, WrObject(<<WrData(v)>>))
WrFill(o, v) == WrChange(o, WrArray(<<v, v>>))
WrDefineGetter(o) == \E e \in BOOLEAN : WrChange(o, WrObject(<<WrGetter(e)>>))

WrValues == {<<"null">>, <<"throws">>, <<"symbol">>} \cup {<<"obj", o>> : o \in WrObjects}

WrNext ==
  \E o \in WrObjects :
    \/ WrWrite(o)
    \/ \E v \in WrValues \ {<<"throws">>} : WrSet(o, v)
    \/ \E v \in WrValues : WrFill(o, v)
    \/ WrDefineGetter(o)

WrSpec == WrInit /\ [][WrNext]_wrVars

(* A call of JS_WriteObject fails exactly when the object cannot be saved   *)
(* or reaches one that an earlier call has left marked.                     *)
WriteRefusals ==
  wrLast.obj # 0 => (wrLast.err = "none" <=> Savable(wrHeap, <<"obj", wrLast.obj>>, FALSE, wrMarks))

(* A call clears the marks it sets, also when it fails inside several       *)
(* objects; only one with an enumerable getter stays marked.                *)
MarksCleared ==
  \A o \in wrMarks' \ wrMarks : \E k \in 1..Len(Saved(wrHeap[o])) : Saved(wrHeap[o])[k].getset

-----------------------------------------------------------------------------
(* Values, functions and modules for BytecodeIO to save and to load again, on *)
(* machines of either byte order and in runtimes that number atoms in other   *)
(* ways.                                                                      *)

N(u) == [wide |-> FALSE, units |-> u]
W(u) == [wide |-> TRUE, units |-> u]
RtA == <<N(<<120>>), N(<<121, 122>>), N(<<97>>), N(<<98>>), W(<<300, 7>>)>>
Runtimes == {<<N(<<120>>), N(<<121, 122>>)>>,
             RtA,
             <<N(<<120>>), N(<<121, 122>>), N(<<98>>), N(<<97>>)>>,
             <<N(<<120>>), N(<<121, 122>>), N(<<99>>)>>}
Big(s, t, e) == [sign |-> s, tab |-> t, expn |-> e]
Simple == {<<"null">>, <<"undef">>, <<"bool", TRUE>>, <<"bool", FALSE>>,
           <<"float", <<1, 2, 3, 4, 5, 6, 7, 8>>>>, <<"symbol">>, <<"throws">>}
          \cup {<<"int", n>> : n \in {0, -1, 1, 63, 64, -64, -65, 8191, 8192, -8193, 100000, -1000000}}
          \cup {<<"str", x>> : x \in {N(<<>>), N(<<65, 200>>), W(<<300, 255>>)}}
          \cup {<<"bigint", Big(s, t, e)>> : s \in {0, 1}, t \in {<<128>>, <<256>>, <<0, 32768>>, <<256, 33000>>, <<0, 0,
                32769>>, <<256, 1, 33000>>}, e \in {1, 16, 99, 101}}
          \cup {<<"bigint", Big(0, <<>>, "zero")>>}
          \cup {<<"bigfloat", Big(s, <<>>, e)>> : s \in {0, 1}, e \in {"zero", "inf", "nan"}}
          \cup {<<"bigfloat", Big(1, <<4096>>, e)>> : e \in {-70, -102, -103}}
Arr(e) == [class |-> "array", extensible |-> TRUE, elems |-> e, raw |-> <<"undef">>, props |-> <<>>]
Tmpl(e, r) == [Arr(e) EXCEPT !.extensible = FALSE, !.raw = r]
Prop(a, v) == [atom |-> a, string |-> TRUE, enumerable |-> TRUE, getset |-> FALSE, val |-> v]
Obj(ps) == [class |-> "object", extensible |-> TRUE, elems |-> <<>>, raw |-> <<"undef">>, props |-> ps]
OtherObj == [Obj(<<>>) EXCEPT !.class = "other"]
O(i) == <<"obj", i>>
Leafs == {<<"int", 5>>, <<"throws">>, O(1), O(2), O(3)}
Atoms3 == {1, 4, 5, JS_ATOM_TAG_INT + 3}
Nodes == {Arr(<<>>), OtherObj} \cup {Arr(<<v, w>>) : v, w \in Leafs}
        \cup {Tmpl(<<v>>, w) : v \in {<<"int", 5>>, O(2)}, w \in {<<"undef">>, O(2), O(3)}}
        \cup {Obj(<<Prop(a, v), Prop(3, w)>>) : a \in Atoms3, v \in {<<"int", 5>>, O(1), O(2), O(3)}, w \in {<<"null">>, O(2)}}
        \cup {Obj(<<[Prop(3, O(2)) EXCEPT !.getset = g, !.enumerable = e, !.string = t], Prop(4, O(3))>>)
                : g, e, t \in BOOLEAN}
Small == {Arr(<<<<"int", 7>>>>), Obj(<<Prop(4, O(3))>>), Obj(<<Prop(4, O(1))>>), OtherObj,
          Arr(<<O(3), O(3)>>), Obj(<<[Prop(5, <<"null">>) EXCEPT !.getset = TRUE]>>)}
Leaf3 == {Arr(<<>>), Obj(<<Prop(3, <<"int", 1>>)>>), Arr(<<O(2)>>)}
H0 == <<Arr(<<>>), Arr(<<>>), Obj(<<Prop(4, <<"null">>)>>)>>
Ins(f, a) == [fmt |-> f, args |-> a]
Codes == {<<>>, <<Ins("none", <<>>)>>}
   \cup {<<Ins("atom", <<a>>), Ins("u8", <<7>>), Ins("atom_u16", <<b, 513>>)>> : a \in {0, 1, 4, 5, JS_ATOM_TAG_INT + 9},
         b \in {3, 4}}
   \cup {<<Ins("u16", <<260>>), Ins("npop_u16", <<1, 772>>), Ins("atom_label_u16", <<4, 70000, 3>>), Ins("label_u16", <<5,
         258>>)>>,
         <<Ins("u32", <<66051>>), Ins("atom_u8", <<3, 9>>), Ins("atom_label_u8", <<5, 300, 255>>)>>}
Vd == [name |-> 4, level |-> 2, next |-> -1, flags |-> <<9, 1, 0, 1, 0>>]
Vd2 == [name |-> 0, level |-> 0, next |-> 200, flags |-> <<15, 0, 1, 0, 1>>]
Cv == [name |-> 5, idx |-> 300, flags |-> <<1, 0, 1, 0, 12>>]
Fun(code, name, dbg, cl, pool) ==
  <<"fun", [flags |-> <<1, 0, 1, 0, 3, 0, 1, 1, 0, dbg>>, mode |-> 3, name |-> name, args |-> 1, vars |-> 1, defined |-> 1,
            stack |-> 300, code |-> code, vardefs |-> IF dbg = 1 THEN <<Vd, Vd2>> ELSE <<>>,
            closure |-> cl, debug |-> IF dbg = 1 THEN [file |-> 3, line |-> 200, pc2line |-> <<1, 0, 255>>]
                                      ELSE [file |-> 0, line |-> 0, pc2line |-> <<>>], cpool |-> pool]>>
Inner == Fun(<<Ins("atom", <<5>>)>>, 4, 1, <<>>, <<<<"str", N(<<66>>)>>>>)
Pools == {<<>>, <<<<"int", 300>>, Inner>>, <<O(3)>>, <<<<"symbol">>>>}
Funs == {Fun(c, n, d, cl, <<>>) : c \in Codes, n \in {0, 3, 5}, d \in {0, 1}, cl \in {<<>>, <<Cv, Cv>>}}
   \cup {Fun(<<Ins("atom", <<4>>)>>, 3, d, <<>>, p) : d \in {0, 1}, p \in Pools}
Ex(t) == IF t = 0 THEN [type |-> 0, idx |-> 200, name |-> 4] ELSE [type |-> 1, idx |-> 1, local |-> 5, name |-> 3]
Mods == {<<"mod", [name |-> n, reqs |-> r, exports |-> e, stars |-> st, imports |-> im, func |-> Inner]>> :
           n \in {1, 4}, r \in {<<>>, <<5, 3>>}, e \in {<<>>, <<Ex(0)>>, <<Ex(1), Ex(0)>>}, st \in {<<>>, <<1>>},
           im \in {<<>>, <<[var |-> 2, name |-> 5, req |-> 1]>>}}
Save(k, H, v, m, by, sw, rt2, rom) == [k |-> k, H |-> H, v |-> v, m |-> m, by |-> by, sw |-> sw, rt2 |-> rt2, rom |-> rom]

Ordered == {"little", "big"} \X BOOLEAN
AskSave(Ask(_)) ==
  \/ \E v \in Simple, ms \in Ordered, by \in BOOLEAN : Ask(Save("io", H0, v, ms[1], by, ms[2], RtA, FALSE))
  \/ \E a \in Nodes, b \in Small, c \in Leaf3, by \in BOOLEAN, rt2 \in Runtimes :
       Ask(Save("io", <<a, b, c>>, O(1), "little", by, FALSE, rt2, FALSE))
  \/ \E v \in Funs \cup Mods, ms \in Ordered, rom \in BOOLEAN, rt2 \in Runtimes :
       Ask(Save("io", H0, v, ms[1], TRUE, ms[2], rt2, rom))
  \/ \E v \in {Inner} \cup Mods : Ask(Save("io", H0, v, "little", FALSE, FALSE, RtA, FALSE))

AskCut(Ask(_)) ==
  \E v \in Mods \cup {x \in Simple : Savable(H0, x, TRUE, {})}
           \cup {Fun(c, 3, 1, <<Cv>>, <<O(3), <<"bigint", Big(1, <<256, 33000>>, 99)>>>>) : c \in Codes} :
     Ask(Save("cut", H0, v, "little", TRUE, FALSE, RtA, FALSE))

\* Line numbers of a function that starts at line 10, and where they are asked.
Marks == {<<>>} \cup {<<[pc |-> a, line |-> l]>> : a \in {0, 50, 51, 128}, l \in {9, 10, 14}}
        \cup {<<[pc |-> a, line |-> l], [pc |-> a + d, line |-> l2]>> : a \in {0, 3}, d \in {0, 1, 50, 51, 16384},
              l \in {8, 9, 10, 13, 14, 200}, l2 \in {9, 10, 13}}
        \cup {<<[pc |-> 0, line |-> l], [pc |-> d, line |-> l2], [pc |-> d + 4, line |-> l3]>> : d \in {0, 2}, l, l2,
              l3 \in {9, 10, 11}}
AskLine(Ask(_)) ==
  \E mk \in Marks, at \in {0, 2, 3, 4, 6, 49, 50, 51, 54, 127, 128, 20000} : Ask([k |-> "line", mk |-> mk, at |-> at])
=============================================================================
