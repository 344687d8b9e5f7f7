------------------------------ MODULE Unicode -------------------------------
(****************************************************************************)
(* The compressed tables of the Unicode library, written by unicode_gen.c   *)
(* and read by libunicode.c: properties, general categories, scripts,       *)
(* script extensions, combining classes and case conversions.  A table is a *)
(* sequence of code words; a word starts with a head whose value selects    *)
(* how many bytes follow.  The widths are constants, so that small          *)
(* databases reach every form of word.                                      *)
(****************************************************************************)
EXTENDS CharRange, Bitwise

CONSTANTS
  Byte,        \* values of a byte that follows a head (256)
  PairMax,     \* run lengths that share a head in pairs (8)
  RunA,        \* heads that are a run length themselves (48, 96 or 128)
  RunB,        \* heads that announce one more byte (8, 16 or 64)
  GcEscape,    \* the run length that escapes to a word of its own (7)
  BlockLen,    \* UNICODE_INDEX_BLOCK_LEN, PROP_BLOCK_LEN, CC_BLOCK_LEN (32)
  OffsetMax    \* largest offset an index entry holds (7)

(* A build step that ends in a failed assertion or in exit(1).              *)
Aborted == [aborted |-> TRUE]

----------------------------------------------------------------------------
(* The code word for a run of n + 1 characters, shared in shape by the      *)
(* script, script extension, combining class and category tables.           *)
RunWord(n) ==
  LET n2 == n - RunA
      n3 == n2 - RunB * Byte
  IN IF n < RunA THEN <<n>>
     ELSE IF n3 < 0 THEN <<RunA + (n2 \div Byte), n2 % Byte>>
     ELSE <<RunA + RunB + (n3 \div (Byte * Byte)), (n3 \div Byte) % Byte, n3 % Byte>>

(* Its reader: the length, and the number of bytes consumed.                *)
ReadRun(head, p, i) ==
  IF head < RunA THEN [n |-> head, used |-> 0]
  ELSE IF head < RunA + RunB THEN [n |-> (head - RunA) * Byte + p[i + 1] + RunA, used |-> 1]
  ELSE [n |-> (head - RunA - RunB) * Byte * Byte + p[i + 1] * Byte + p[i + 2]
              + RunA + RunB * Byte,
        used |-> 2]

(* Length of the longest run k = 1, 2, ... that a condition extends.        *)
RECURSIVE Extend(_, _, _)
Extend(P(_), n, max) == IF n < max /\ P(n) THEN Extend(P, n + 1, max) ELSE n

(* A database column is a function on 0..top.                               *)
Top(f) == Cardinality(DOMAIN f) - 1
RunFrom(f, i) == Extend(LAMBDA k : f[i + k] = f[i], 1, Top(f) + 1 - i)

----------------------------------------------------------------------------
(* Properties: a set of characters as alternating runs, the first one of    *)
(* non-members; two short runs share a head.                                *)
RECURSIVE Ascending(_)
Ascending(S) ==
  IF S = {} THEN <<>>
  ELSE LET m == CHOOSE x \in S : \A y \in S : x <= y IN <<m>> \o Ascending(S \ {m})

PropRuns(S) ==
  LET ends == Ascending({c \in S : c - 1 \notin S} \cup {c + 1 : c \in {c \in S : c + 1 \notin S}})
  IN [k \in 1..Len(ends) |-> ends[k] - (IF k = 1 THEN 0 ELSE ends[k - 1]) - 1]

PairArea == PairMax * PairMax
Half == PairArea \div 2

PropWord(runs, i) ==
  LET v == runs[i]
  IN IF v < PairMax /\ i < Len(runs) /\ runs[i + 1] < PairMax THEN <<v * PairMax + runs[i + 1]>>
     ELSE IF v < 2 * PairArea THEN <<2 * PairArea + v>>
     ELSE IF v < Half * Byte THEN <<PairArea + (v \div Byte), v % Byte>>
     ELSE <<PairArea + Half + (v \div (Byte * Byte)), (v \div Byte) % Byte, v % Byte>>

(* The index: where a block of the table starts, in characters, and how far *)
(* past the multiple of the block length.  Blocks start at a run of         *)
(* non-members.                                                             *)
IndexEntry(st) ==
  Len(st.bytes) >= BlockLen * (Len(st.index) + 1) /\ st.bit = 0

RECURSIVE PropWords(_, _, _)
PropWords(runs, i, st) ==
  LET offset == Len(st.bytes) - BlockLen * (Len(st.index) + 1)
      index == IF IndexEntry(st) THEN Append(st.index, [code |-> st.code, off |-> offset]) ELSE st.index
      word == PropWord(runs, i)
      pair == word[1] < PairArea
      n == IF pair THEN runs[i] + runs[i + 1] + 2 ELSE runs[i] + 1
  IN IF i > Len(runs) THEN [st EXCEPT !.index = Append(@, [code |-> st.code, off |-> 0])]
     ELSE IF IndexEntry(st) /\ offset > OffsetMax THEN Aborted
     ELSE PropWords(runs, IF pair THEN i + 2 ELSE i + 1,
            [code |-> st.code + n, bit |-> IF pair THEN st.bit ELSE 1 - st.bit,
             bytes |-> st.bytes \o word, index |-> index])

build_prop_table(S) ==
  IF 0 \in S THEN Aborted
  ELSE PropWords(PropRuns(S), 1, [code |-> 0, bit |-> 0, bytes |-> <<>>, index |-> <<>>])

----------------------------------------------------------------------------
(* get_index_pos: the block that holds a character, by bisection.           *)
RECURSIVE BlockOf(_, _, _, _)
BlockOf(index, c, lo, hi) ==
  LET mid == (lo + hi) \div 2
  IN IF hi - lo <= 1 THEN lo
     ELSE IF c < index[mid + 1].code THEN BlockOf(index, c, lo, mid) ELSE BlockOf(index, c, mid, hi)

get_index_pos(c, index) ==
  IF c < index[1].code THEN [code |-> 0, pos |-> 0]
  ELSE IF c >= index[Len(index)].code THEN [code |-> 0, pos |-> -1]
  ELSE LET b == BlockOf(index, c, 0, Len(index) - 1)
       IN [code |-> index[b + 1].code, pos |-> (b + 1) * BlockLen + index[b + 1].off]

(* The runs of one property word: how many characters each covers, and the  *)
(* bytes used.                                                              *)
ReadProp(p, i) ==
  LET b == p[i]
  IN IF b < PairArea THEN [runs |-> <<(b \div PairMax) + 1, (b % PairMax) + 1>>, used |-> 1]
     ELSE IF b >= 2 * PairArea THEN [runs |-> <<b - 2 * PairArea + 1>>, used |-> 1]
     ELSE IF b < PairArea + Half THEN [runs |-> <<(b - PairArea) * Byte + p[i + 1] + 1>>, used |-> 2]
     ELSE [runs |-> <<(b - PairArea - Half) * Byte * Byte + p[i + 1] * Byte + p[i + 2] + 1>>, used |-> 3]

RECURSIVE InTable(_, _, _, _, _)
InTable(p, i, c, code, bit) ==
  LET w == ReadProp(p, i)
      code1 == code + w.runs[1]
      code2 == code1 + w.runs[2]
      two == Len(w.runs) = 2
  IN IF c < code1 THEN bit
     ELSE IF two /\ c < code2 THEN 1 - bit
     ELSE InTable(p, i + w.used, c, IF two THEN code2 ELSE code1, IF two THEN bit ELSE 1 - bit)

lre_is_in_table(c, t) ==
  LET at == get_index_pos(c, t.index)
  IN at.pos >= 0 /\ InTable(t.bytes, at.pos + 1, c, at.code, 0) = 1

(* unicode_prop1: the whole table as a character range.                     *)
RECURSIVE PropIntervals(_, _, _, _)
PropIntervals(p, i, c, bit) ==
  LET w == ReadProp(p, i)
      c1 == c + w.runs[1]
      c2 == c1 + w.runs[2]
      two == Len(w.runs) = 2
  IN IF i > Len(p) THEN <<>>
     ELSE (IF bit = 1 THEN <<c, c1>> ELSE IF two THEN <<c1, c2>> ELSE <<>>)
          \o PropIntervals(p, i + w.used, IF two THEN c2 ELSE c1, IF two THEN bit ELSE 1 - bit)

unicode_prop1(t) == PropIntervals(t.bytes, 1, 0, 0)

(* A property table says of every character whether it is in the set, by    *)
(* index and by scan.                                                       *)
PropTableRight(S, chars) ==
  LET t == build_prop_table(S)
      r == unicode_prop1(t)
  IN t # Aborted =>
       /\ \A c \in chars : lre_is_in_table(c, t) <=> c \in S
       /\ Canonical(r) /\ \A c \in chars : Member(r, c) <=> c \in S

----------------------------------------------------------------------------
(* General categories: the run length shares the head with the category;    *)
(* capital and small letters that alternate are one run, marked 31.         *)
Lu == 1
Ll == 2
Alternating == 31

GcRun(f, i) ==
  LET n == RunFrom(f, i)
      n1 == Extend(LAMBDA k : f[i + k] = Lu + (k % 2), 1, Top(f) + 1 - i)
  IN IF f[i] = Lu /\ n1 > n THEN [n |-> n1, v |-> Alternating] ELSE [n |-> n, v |-> f[i]]

RECURSIVE GcWords(_, _)
GcWords(f, i) ==
  LET r == GcRun(f, i)
      n == r.n - 1
  IN IF i > Top(f) THEN <<>>
     ELSE (IF n < GcEscape THEN <<n * 32 + r.v>> ELSE <<GcEscape * 32 + r.v>> \o RunWord(n - GcEscape))
          \o GcWords(f, i + r.n)

build_general_category_table(f) == GcWords(f, 0)

(* Every other character of a range, as intervals.                          *)
Singles(c0, c) ==
  [k \in 1..(2 * ((c - c0 + 1) \div 2)) |-> c0 + k - 1]

AlternatingRange(mask, c0, c) ==
  IF {Lu, Ll} \subseteq mask THEN <<c0, c>>
  ELSE IF mask \cap {Lu, Ll} = {} THEN <<>>
  ELSE Singles(IF Ll \in mask THEN c0 + 1 ELSE c0, c)

RECURSIVE GcIntervals(_, _, _, _)
GcIntervals(p, i, c0, mask) ==
  LET head == p[i] \div 32
      v == p[i] % 32
      long == ReadRun(p[i + 1], p, i + 1)
      n == IF head = GcEscape THEN long.n + GcEscape ELSE head
      next == IF head = GcEscape THEN i + 2 + long.used ELSE i + 1
      c == c0 + n + 1
  IN IF i > Len(p) THEN <<>>
     ELSE (IF v = Alternating THEN AlternatingRange(mask, c0, c)
           ELSE IF v \in mask THEN <<c0, c>> ELSE <<>>)
          \o GcIntervals(p, next, c, mask)

unicode_general_category1(t, mask) == GcIntervals(t, 1, 0, mask)

GcTableRight(f, cats) ==
  LET t == build_general_category_table(f)
  IN \A mask \in SUBSET cats :
       LET r == unicode_general_category1(t, mask)
       IN \A c \in DOMAIN f : Member(r, c) <=> f[c] \in mask

----------------------------------------------------------------------------
(* Scripts: the top bit of the head says whether a script follows; the last *)
(* run of unassigned characters is not stored.                              *)
TypeBit == 2 * (RunA + RunB + RunB)

RECURSIVE ScriptWords(_, _)
ScriptWords(f, i) ==
  LET n == RunFrom(f, i)
      w == RunWord(n - 1)
  IN IF i > Top(f) \/ (f[i] = 0 /\ i + n > Top(f)) THEN <<>>
     ELSE (IF f[i] = 0 THEN w ELSE <<w[1] + TypeBit>> \o Tail(w) \o <<f[i]>>)
          \o ScriptWords(f, i + n)

build_script_table(f) == ScriptWords(f, 0)

RECURSIVE ExtWords(_, _)
ExtWords(f, i) ==
  LET n == RunFrom(f, i)
  IN IF i > Top(f) THEN <<>>
     ELSE RunWord(n - 1) \o <<Len(f[i])>> \o f[i] \o ExtWords(f, i + n)

build_script_ext_table(f) == ExtWords(f, 0)

RECURSIVE ScriptIntervals(_, _, _, _)
ScriptIntervals(p, i, c, idx) ==
  LET typed == p[i] >= TypeBit
      r == ReadRun(p[i] % TypeBit, p, i)
      at == i + 1 + r.used
      v == IF typed THEN p[at] ELSE 0
      c1 == c + r.n + 1
  IN IF i > Len(p) THEN <<>>
     ELSE (IF v = idx THEN <<c, c1>> ELSE <<>>)
          \o ScriptIntervals(p, IF typed THEN at + 1 ELSE at, c1, idx)

RECURSIVE ExtIntervals(_, _, _, _, _)
ExtIntervals(p, i, c, idx, common) ==
  LET r == ReadRun(p[i], p, i)
      at == i + 1 + r.used
      c1 == c + r.n + 1
      takes == IF common THEN p[at] # 0 ELSE \E k \in 1..p[at] : p[at + k] = idx
  IN IF i > Len(p) THEN <<>>
     ELSE (IF takes THEN <<c, c1>> ELSE <<>>) \o ExtIntervals(p, at + 1 + p[at], c1, idx, common)

(* The failure path, which never returns.                                   *)
Loops == 1

(* unicode_script: Common and Inherited lose the characters that have       *)
(* extensions, another script gains those that name it.  room is how many   *)
(* points the allocator grants before it fails; the code that handles the   *)
(* failure jumps to itself.                                                 *)
unicode_script(t, ext, idx, isExt, common, room) ==
  LET own == ScriptIntervals(t, 1, 0, idx)
      more == IF isExt THEN ExtIntervals(ext, 1, 0, idx, common) ELSE <<>>
  IN IF Len(own) > room \/ Len(more) > room THEN [ret |-> Loops, cr |-> <<>>]
     ELSE [ret |-> 0,
           cr |-> IF ~isExt THEN own
                  ELSE IF common THEN cr_op(own, cr_invert(more), "inter")
                  ELSE cr_op(own, more, "union")]

ScriptTableRight(f, g, scripts, common, room) ==
  \A idx \in scripts, isExt \in BOOLEAN :
    LET u == unicode_script(build_script_table(f), build_script_ext_table(g), idx, isExt, idx \in common, room)
    IN u.ret = 0 =>
       \A c \in DOMAIN f : Member(u.cr, c) <=>
         \/ f[c] = idx /\ (isExt /\ idx \in common => g[c] = <<>>)
         \/ isExt /\ idx \notin common /\ idx \in ToSet(g[c])

(* "Return 0 if OK, -1 if error, -2 if not found": the query returns.       *)
ScriptReturns(f, g, scripts, common, room) ==
  \A idx \in scripts, isExt \in BOOLEAN :
    unicode_script(build_script_table(f), build_script_ext_table(g), idx, isExt, idx \in common, room).ret
      \in {0, -1, -2}

----------------------------------------------------------------------------
(* Combining classes: runs of one class or of increasing ones; classes 0    *)
(* and 230 have a type of their own and need no byte.                       *)
CcRun(f, i) ==
  LET up == Extend(LAMBDA k : f[i + k] = f[i] + k, 1, Top(f) + 1 - i)
      same == RunFrom(f, i)
  IN IF up >= 2 THEN [n |-> up, type |-> 1]
     ELSE [n |-> same, type |-> IF f[i] = 0 THEN 2 ELSE IF f[i] = 230 THEN 3 ELSE 0]

TypeArea == RunA + RunB + RunB

RECURSIVE CcWords(_, _, _)
CcWords(f, i, st) ==
  LET r == CcRun(f, i)
      offset == Len(st.bytes) - BlockLen * (Len(st.index) + 1)
      w == RunWord(r.n - 1)
      word == <<w[1] + r.type * TypeArea>> \o Tail(w) \o (IF r.type <= 1 THEN <<f[i]>> ELSE <<>>)
  IN IF i > Top(f) \/ (f[i] = 0 /\ i + r.n > Top(f))
     THEN [st EXCEPT !.index = Append(@, [code |-> i, off |-> 0])]
     ELSE CcWords(f, i + r.n,
            [bytes |-> st.bytes \o word,
             index |-> IF offset >= 0 THEN Append(st.index, [code |-> i, off |-> offset]) ELSE st.index])

build_cc_table(f) == CcWords(f, 0, [bytes |-> <<>>, index |-> <<>>])

(* The reader shifts the head of a three-byte word by one byte, not two.    *)
CcRunLength(head, p, i) ==
  IF head >= RunA + RunB
  THEN [n |-> ((head - RunA - RunB) | p[i + 1]) * Byte + p[i + 2] + RunA + RunB * Byte,
        used |-> 2]
  ELSE ReadRun(head, p, i)

RECURSIVE CcScan(_, _, _, _)
CcScan(p, i, c, code) ==
  LET type == p[i] \div TypeArea
      r == CcRunLength(p[i] % TypeArea, p, i)
      at == i + 1 + r.used
      c1 == code + r.n + 1
  IN IF c >= c1 THEN CcScan(p, IF type <= 1 THEN at + 1 ELSE at, c, c1)
     ELSE CASE type = 0 -> p[at] [] type = 1 -> p[at] + c - code [] type = 2 -> 0 [] type = 3 -> 230

unicode_get_cc(c, t) ==
  LET at == get_index_pos(c, t.index)
  IN IF at.pos < 0 THEN 0 ELSE CcScan(t.bytes, at.pos + 1, c, at.code)

(* The longest run whose word has the smallest head of its kind.            *)
CcLongest == RunA + RunB * Byte + Byte * Byte

RECURSIVE LongRuns(_, _)
LongRuns(f, i) ==
  LET n == CcRun(f, i).n
  IN IF i > Top(f) THEN {} ELSE (IF n > CcLongest THEN {i} ELSE {}) \cup LongRuns(f, i + n)

(* A run of n characters is read as it was written when it is no longer     *)
(* than CcLongest, and as a shorter one when it is.                         *)
CcRunRead(n) ==
  LET w == RunWord(n - 1)
      read == CcRunLength(w[1], w, 1).n + 1
  IN IF n <= CcLongest THEN read = n ELSE read < n

(* check_cc_table: the table gives back every character's class, except     *)
(* from inside a run that is too long up to the next entry of the index.    *)
CcTableRight(f) ==
  LET t == build_cc_table(f)
      long == LongRuns(f, 0)
      astray(c) == LET at == get_index_pos(c, t.index)
                   IN at.pos >= 0 /\ \E i \in long : at.code <= i /\ i + RunA + RunB * Byte < c
  IN \A c \in DOMAIN f : astray(c) \/ unicode_get_cc(c, t) = f[c]

-----------------------------------------------------------------------------
(* Case conversion and the derived properties of the Unicode library.       *)
(*                                                                          *)
(* unicode_gen.c turns the case data (upper and lower case of up to three   *)
(* characters, one folded character) into a sorted table of runs with a     *)
(* type each (build_conv_table), and libunicode.c converts a character      *)
(* (lre_case_conv) or lists the characters that a conversion changes        *)
(* (unicode_case1) from that table.  Some properties are not stored but     *)
(* computed from others, from the categories and from the case table; the   *)
(* generator stores the difference where the formula alone is not exact     *)
(* (compute_internal_props), and unicode_prop puts both together on a small *)
(* stack of character ranges.                                               *)
(*                                                                          *)
(* A case database is a function from characters to [u, l, f]: sequences    *)
(* for upper and lower case, empty when the character does not change, and  *)
(* the folded character, 0 when it does not change.                         *)

CONSTANT RunMax    \* longest run an entry can describe (127)

NoCase == [u |-> <<>>, l |-> <<>>, f |-> 0]
Ci(tab, c) == IF c \in DOMAIN tab THEN tab[c] ELSE NoCase
First(s) == IF s = <<>> THEN 0 ELSE s[1]

----------------------------------------------------------------------------
(* find_run_type: the longest run of one kind that starts at a character.   *)
is_complicated_case(ci) ==
  \/ Len(ci.u) > 1 \/ Len(ci.l) > 1
  \/ ci.u # <<>> /\ ci.l # <<>>
  \/ (IF ci.f # 0 THEN 1 ELSE 0) # Len(ci.l)
  \/ ci.f # 0 /\ First(ci.l) # ci.f

Entry(code, len, type, data, ext) == [code |-> code, len |-> len, type |-> type, data |-> data, ext |-> ext]

IsLSU(tab, c) ==
  /\ Ci(tab, c) = [u |-> <<>>, l |-> <<c + 2>>, f |-> c + 2]
  /\ Ci(tab, c + 1) = [u |-> <<c>>, l |-> <<c + 2>>, f |-> c + 2]
  /\ Ci(tab, c + 2) = [u |-> <<c>>, l |-> <<>>, f |-> 0]

(* Lengths of the runs of each kind from character c.                       *)
RunUF(tab, c, max) ==
  LET up == First(Ci(tab, c).u)
  IN Extend(LAMBDA k : Ci(tab, c + k) = [u |-> <<up + k>>, l |-> <<>>, f |-> up + k], 1, max)

Iota == 921      \* 0x399, the capital iota that many upper cases end with

RunIota(tab, c, max) ==
  LET ci == Ci(tab, c)
      Low(k) == IF ci.l = <<>> THEN <<>> ELSE <<ci.l[1] + k>>
  IN Extend(LAMBDA k : Ci(tab, c + k) = [u |-> <<ci.u[1] + k, Iota>>, l |-> Low(k), f |-> First(Low(k))], 1, max)

RunL(tab, c, max) ==
  LET low == First(Ci(tab, c).l)
  IN Extend(LAMBDA k : Ci(tab, c + k) = [u |-> <<>>, l |-> <<low + k>>, f |-> 0], 1, max)

ComplicatedRun(tab, c, max) ==
  LET ci == Ci(tab, c)
      uf == RunUF(tab, c, max)
      iota == Len(ci.u) = 2 /\ ci.u[2] = Iota
  IN IF uf > 1 THEN Entry(c, uf, "UF", First(ci.u), <<>>)
     ELSE IF iota /\ ci.f = 0 /\ ci.l = <<>> THEN Entry(c, RunIota(tab, c, max), "U_EXT2", 0, ci.u)
     ELSE IF iota /\ Len(ci.l) = 1 /\ ci.f = ci.l[1]
          THEN Entry(c, RunIota(tab, c, max), "U2L_399_EXT2", 0, <<ci.u[1], ci.l[1]>>)
     ELSE IF Len(ci.l) = 1 /\ ci.u = <<>> /\ ci.f = 0 THEN Entry(c, RunL(tab, c, max), "L", ci.l[1], <<>>)
     ELSE IF ci.l = <<>> /\ Len(ci.u) = 1 /\ ci.u[1] < 4096 /\ ci.f = ci.u[1] + 32
          THEN Entry(c, 1, "UF_D20", ci.u[1], <<>>)
     ELSE IF ci.l = <<>> /\ Len(ci.u) = 1 /\ ci.f = ci.u[1] + 1 THEN Entry(c, 1, "UF_D1_EXT", 0, ci.u)
     ELSE IF Len(ci.l) = 2 /\ ci.u = <<>> /\ ci.f = 0 THEN Entry(c, 1, "L_EXT2", 0, ci.l)
     ELSE IF Len(ci.u) = 2 /\ ci.l = <<>> /\ ci.f = 0 THEN Entry(c, 1, "U_EXT2", 0, ci.u)
     ELSE IF Len(ci.u) = 3 /\ ci.l = <<>> /\ ci.f = 0 THEN Entry(c, 1, "U_EXT3", 0, ci.u)
     ELSE Aborted

(* Capital and small letters that alternate: pairs of characters.           *)
RunUL(tab, c, max) ==
  LET Pair(k) == LET a == Ci(tab, c + 2 * k)
                     b == Ci(tab, c + 2 * k + 1)
                 IN /\ ~is_complicated_case(a) /\ ~is_complicated_case(b)
                    /\ a.l = <<c + 2 * k + 1>> /\ b.u = <<c + 2 * k>>
  IN 2 * Extend(Pair, 0, (max - 1) \div 2)

SimpleRun(tab, c, max) ==
  LET ci == Ci(tab, c)
      ul == RunUL(tab, c, max)
      Next(k) == LET ci1 == Ci(tab, c + k)
                 IN /\ ~is_complicated_case(ci1)
                    /\ IF ci.l # <<>> THEN ci1.l = <<ci.l[1] + k>> ELSE ci1.u = <<ci.u[1] + k>>
      len == Extend(Next, 1, max)
  IN IF ul > 0 THEN Entry(c, ul, "UL", 0, <<>>)
     ELSE IF ci.l # <<>> THEN Entry(c, len, "LF", ci.l[1], <<>>)
     ELSE Entry(c, len, "U", ci.u[1], <<>>)

find_run_type(tab, c, max) ==
  IF IsLSU(tab, c) THEN Entry(c, 3, "LSU", 0, <<>>)
  ELSE IF is_complicated_case(Ci(tab, c)) THEN ComplicatedRun(tab, c, max)
  ELSE SimpleRun(tab, c, max)

----------------------------------------------------------------------------
(* build_conv_table: runs in order of their first character; a run whose    *)
(* conversion starts at another run refers to it, the others to the table   *)
(* of extra characters.                                                     *)
RECURSIVE Runs(_, _)
Runs(tab, todo) ==
  IF todo = {} THEN <<>>
  ELSE LET c == CHOOSE x \in todo : \A y \in todo : x <= y
           te == find_run_type(tab, c, RunMax + 1)
       IN IF te = Aborted THEN <<Aborted>>
          ELSE <<te>> \o Runs(tab, todo \ (c..(c + te.len - 1)))

(* Position of the run that starts at a character, 0 if there is none.      *)
find_data_index(runs, c) ==
  IF \E i \in 1..Len(runs) : runs[i].code = c THEN CHOOSE i \in 1..Len(runs) : runs[i].code = c ELSE 0

WithReference(te, runs) ==
  LET i == find_data_index(runs, te.data)
  IN IF te.type \notin {"U", "L", "UF", "LF"} THEN te
     ELSE IF i # 0 THEN [te EXCEPT !.data = i]
     ELSE IF te.type = "U" THEN [te EXCEPT !.type = "U_EXT", !.ext = <<te.data>>]
     ELSE IF te.type = "LF" THEN [te EXCEPT !.type = "LF_EXT", !.ext = <<te.data>>]
     ELSE Aborted

build_conv_table(tab) ==
  LET runs == Runs(tab, {c \in DOMAIN tab : tab[c] # NoCase})
      table == [i \in 1..Len(runs) |-> WithReference(runs[i], runs)]
  IN IF Aborted \in ToSet(runs) \/ Aborted \in ToSet(table) THEN Aborted
     ELSE IF \E i \in 1..Len(runs) : runs[i].len > RunMax THEN Aborted ELSE table

----------------------------------------------------------------------------
(* The entry of a character, by bisection; 0 if there is none.              *)
RECURSIVE FindRun(_, _, _, _)
FindRun(t, c, lo, hi) ==
  LET mid == (lo + hi) \div 2
  IN IF lo > hi THEN 0
     ELSE IF c < t[mid].code THEN FindRun(t, c, lo, mid - 1)
     ELSE IF c >= t[mid].code + t[mid].len THEN FindRun(t, c, mid + 1, hi)
     ELSE mid

(* The converted character where a run refers to another run.               *)
Moved(t, e, c) == c - e.code + t[e.data].code

LSU(a, c, lower) ==
  LET up == IF lower THEN 1 ELSE -1
  IN IF a = 1 THEN c + up ELSE IF a = (IF lower THEN 0 ELSE 2) THEN c + 2 * up ELSE c

(* lre_case_conv: conv is 0 for upper case, 1 for lower case, 2 for folding.*)
ConvertRun(t, e, c, conv) ==
  LET lower == conv # 0
      a == c - e.code
  IN CASE e.type = "U" -> IF conv = 0 THEN <<Moved(t, e, c)>> ELSE <<c>>
       [] e.type = "L" -> IF conv = 1 THEN <<Moved(t, e, c)>> ELSE <<c>>
       [] e.type = "UF" -> IF conv # 1 THEN <<Moved(t, e, c)>> ELSE <<c>>
       [] e.type = "LF" -> IF conv # 0 THEN <<Moved(t, e, c)>> ELSE <<c>>
       [] e.type = "UL" -> IF (a % 2 = 1) = lower THEN <<c>> ELSE <<IF lower THEN c + 1 ELSE c - 1>>
       [] e.type = "LSU" -> <<LSU(a, c, lower)>>
       [] e.type = "U2L_399_EXT2" -> IF lower THEN <<a + e.ext[2]>> ELSE <<a + e.ext[1], Iota>>
       [] e.type = "UF_D20" -> IF conv = 1 THEN <<c>> ELSE <<e.data + (IF conv = 2 THEN 32 ELSE 0)>>
       [] e.type = "UF_D1_EXT" -> IF conv = 1 THEN <<c>> ELSE <<e.ext[1] + (IF conv = 2 THEN 1 ELSE 0)>>
       [] e.type = "U_EXT" -> IF lower THEN <<c>> ELSE <<e.ext[1]>>
       [] e.type = "LF_EXT" -> IF lower THEN <<e.ext[1]>> ELSE <<c>>
       [] e.type = "U_EXT2" -> IF conv = 0 THEN <<a + e.ext[1], e.ext[2]>> ELSE <<c>>
       [] e.type = "L_EXT2" -> IF conv = 1 THEN <<a + e.ext[1], e.ext[2]>> ELSE <<c>>
       [] e.type = "U_EXT3" -> IF conv = 0 THEN e.ext ELSE <<c>>

lre_case_conv(t, c, conv) ==
  LET k == FindRun(t, c, 1, Len(t))
  IN IF c < 128 THEN (IF conv # 0 /\ c \in 65..90 THEN <<c + 32>>
                      ELSE IF conv = 0 /\ c \in 97..122 THEN <<c - 32>> ELSE <<c>>)
     ELSE IF k = 0 THEN <<c>> ELSE ConvertRun(t, t[k], c, conv)

(* unicode_case1: the characters that one of the conversions of a mask      *)
(* changes.                                                                 *)
RunMask(m) ==
  CASE m = "U" -> {"U", "UF", "UL", "LSU", "U2L_399_EXT2", "UF_D20", "UF_D1_EXT", "U_EXT", "U_EXT2", "U_EXT3"}
    [] m = "L" -> {"L", "LF", "UL", "LSU", "U2L_399_EXT2", "LF_EXT", "L_EXT2"}
    [] m = "F" -> {"UF", "LF", "UL", "LSU", "U2L_399_EXT2", "LF_EXT", "UF_D20", "UF_D1_EXT"}

CaseIntervals(e, mask) ==
  LET both == "U" \in mask /\ mask \cap {"L", "F"} # {}
      up == IF "U" \in mask THEN 1 ELSE 0
  IN IF e.type = "UL" /\ ~both
     THEN [k \in 1..(2 * ((e.len + 1) \div 2)) |-> e.code + up + k - 1]
     ELSE IF e.type = "LSU" /\ ~both
     THEN (IF up = 0 THEN <<e.code, e.code + 1>> ELSE <<>>) \o <<e.code + 1, e.code + 2>>
          \o (IF up = 1 THEN <<e.code + 2, e.code + 3>> ELSE <<>>)
     ELSE <<e.code, e.code + e.len>>

RECURSIVE CaseFrom(_, _, _)
CaseFrom(t, i, mask) ==
  IF i > Len(t) THEN <<>>
  ELSE (IF \E m \in mask : t[i].type \in RunMask(m) THEN CaseIntervals(t[i], mask) ELSE <<>>)
       \o CaseFrom(t, i + 1, mask)

unicode_case1(t, mask) == CaseFrom(t, 1, mask)

Changed(ci, m) == CASE m = "U" -> ci.u # <<>> [] m = "L" -> ci.l # <<>> [] m = "F" -> ci.f # 0

(* check_case_conv: the table converts every character as the database      *)
(* says, and the listed characters are those that a conversion changes.     *)
CaseTableRight(tab, chars) ==
  LET t == build_conv_table(tab)
  IN /\ t # Aborted
     /\ \A c \in chars :
          LET ci == Ci(tab, c)
          IN /\ lre_case_conv(t, c, 0) = (IF ci.u = <<>> THEN <<c>> ELSE ci.u)
             /\ lre_case_conv(t, c, 1) = (IF ci.l = <<>> THEN <<c>> ELSE ci.l)
             /\ lre_case_conv(t, c, 2) = <<IF ci.f = 0 THEN c ELSE ci.f>>
     /\ \A mask \in SUBSET {"U", "L", "F"} \ {{}} :
          LET r == unicode_case1(t, mask)
          IN \A c \in chars : Member(r, c) <=> \E m \in mask : Changed(Ci(tab, c), m)

----------------------------------------------------------------------------
(* Derived properties.  A character of the database has a category, a set   *)
(* of properties and case data; PropSet is a column of it.                  *)
PropSet(db, p) == {c \in DOMAIN db : p \in db[c].props}

Differ(S, T) == (S \ T) \cup (T \ S)

CaseSet(db, m) == {c \in DOMAIN db : Changed(db[c].case, m)}

(* compute_internal_props: what is stored in place of a derived property.   *)
Stored(db, p) ==
  CASE p = "Cased1" -> PropSet(db, "Cased") \ UNION {CaseSet(db, m) : m \in {"U", "L", "F"}}
    [] p = "ID_Continue1" -> PropSet(db, "ID_Continue") \ PropSet(db, "ID_Start")
    [] p = "XID_Start1" -> Differ(PropSet(db, "ID_Start"), PropSet(db, "XID_Start"))
    [] p = "XID_Continue1" -> Differ(PropSet(db, "ID_Continue"), PropSet(db, "XID_Continue"))
    [] p = "Changes_When_Titlecased1" -> Differ(PropSet(db, "Changes_When_Titlecased"), CaseSet(db, "U"))
    [] p = "Changes_When_Casefolded1" -> Differ(PropSet(db, "Changes_When_Casefolded"), CaseSet(db, "F"))
    [] p = "Changes_When_NFKC_Casefolded1" -> Differ(PropSet(db, "Changes_When_NFKC_Casefolded"), CaseSet(db, "F"))
    [] OTHER -> PropSet(db, p)

(* The programs of unicode_prop, one per derived property.                  *)
Letter == {"Lu", "Ll", "Lt", "Lm", "Lo", "Nl"}
Gc(S) == <<"gc", S>>
Prop(p) == <<"prop", {p}>>
Case(m) == <<"case", {m}>>
Op(o) == <<o, {}>>
PatternOut(p) == <<Prop("Pattern_Syntax"), Prop("Pattern_White_Space"), Op("union"),
                   Prop(p), Op("union"), Op("invert"), Op("inter")>>

Program(p) ==
  CASE p = "Assigned" -> <<Gc({"Cn"}), Op("invert")>>
    [] p = "Math" -> <<Gc({"Sm"}), Prop("Other_Math"), Op("union")>>
    [] p = "Lowercase" -> <<Gc({"Ll"}), Prop("Other_Lowercase"), Op("union")>>
    [] p = "Uppercase" -> <<Gc({"Lu"}), Prop("Other_Uppercase"), Op("union")>>
    [] p = "Cased" -> <<Gc({"Lu", "Ll", "Lt"}), Prop("Other_Uppercase"), Op("union"),
                        Prop("Other_Lowercase"), Op("union")>>
    [] p = "Alphabetic" -> <<Gc(Letter), Prop("Other_Uppercase"), Op("union"), Prop("Other_Lowercase"),
                             Op("union"), Prop("Other_Alphabetic"), Op("union")>>
    [] p = "Grapheme_Base" -> <<Gc({"Cc", "Cf", "Cs", "Co", "Cn", "Zl", "Zp", "Me", "Mn"}),
                                Prop("Other_Grapheme_Extend"), Op("union"), Op("invert")>>
    [] p = "Grapheme_Extend" -> <<Gc({"Me", "Mn"}), Prop("Other_Grapheme_Extend"), Op("union")>>
    [] p = "XID_Start" -> <<Gc(Letter), Prop("Other_ID_Start"), Op("union")>> \o PatternOut("XID_Start1")
    [] p = "XID_Continue" ->
         <<Gc(Letter \cup {"Mn", "Mc", "Nd", "Pc"}), Prop("Other_ID_Start"), Op("union"),
           Prop("Other_ID_Continue"), Op("union")>> \o PatternOut("XID_Continue1")
    [] p = "Changes_When_Titlecased" -> <<Case("U"), Prop("Changes_When_Titlecased1"), Op("xor")>>
    [] p = "Changes_When_Casefolded" -> <<Case("F"), Prop("Changes_When_Casefolded1"), Op("xor")>>
    [] p = "Changes_When_NFKC_Casefolded" -> <<Case("F"), Prop("Changes_When_NFKC_Casefolded1"), Op("xor")>>
    [] p = "ID_Continue" -> <<Prop("ID_Start"), Prop("ID_Continue1"), Op("xor")>>

StackMax == 4    \* POP_STACK_LEN_MAX

(* The categories as a character range.                                     *)
Categories(db, S) ==
  LET C == {c \in DOMAIN db : db[c].gc \in S}
  IN Ascending({c \in C : c - 1 \notin C} \cup {c + 1 : c \in {c \in C : c + 1 \notin C}})

CaseColumn(db) == [c \in DOMAIN db |-> db[c].case]

(* unicode_prop_ops.  A binary operator needs a free place for its result.  *)
RECURSIVE PropOps(_, _, _, _)
PropOps(db, prog, i, stack) ==
  LET op == prog[i][1]
      arg == prog[i][2]
      n == Len(stack)
      Push(cr) == IF n < StackMax THEN PropOps(db, prog, i + 1, Append(stack, cr)) ELSE Aborted
  IN IF i > Len(prog) THEN (IF n = 1 THEN [cr |-> stack[1]] ELSE Aborted)
     ELSE CASE op = "gc" -> Push(Categories(db, arg))
            [] op = "prop" -> Push(unicode_prop1(build_prop_table(UNION {Stored(db, p) : p \in arg})))
            [] op = "case" -> Push(unicode_case1(build_conv_table(CaseColumn(db)), arg))
            [] op \in {"union", "inter", "xor"} ->
                 IF n < 2 \/ n >= StackMax THEN Aborted
                 ELSE PropOps(db, prog, i + 1, Append(SubSeq(stack, 1, n - 2), cr_op(stack[n - 1], stack[n], op)))
            [] op = "invert" ->
                 IF n < 1 THEN Aborted
                 ELSE PropOps(db, prog, i + 1, [stack EXCEPT ![n] = cr_invert(@)])

Derived == {"Assigned", "Math", "Lowercase", "Uppercase", "Cased", "Alphabetic", "Grapheme_Base",
            "Grapheme_Extend", "XID_Start", "XID_Continue", "Changes_When_Titlecased",
            "Changes_When_Casefolded", "Changes_When_NFKC_Casefolded", "ID_Continue"}

unicode_prop(db, p) ==
  CASE p = "ASCII" -> [cr |-> <<0, 128>>]
    [] p = "Any" -> [cr |-> <<0, 1114112>>]
    [] p = "Changes_When_Uppercased" -> [cr |-> unicode_case1(build_conv_table(CaseColumn(db)), {"U"})]
    [] p = "Changes_When_Lowercased" -> [cr |-> unicode_case1(build_conv_table(CaseColumn(db)), {"L"})]
    [] p = "Changes_When_Casemapped" -> [cr |-> unicode_case1(build_conv_table(CaseColumn(db)), {"U", "L", "F"})]
    [] p \in Derived -> PropOps(db, Program(p), 1, <<>>)
    [] OTHER -> [cr |-> unicode_prop1(build_prop_table(Stored(db, p)))]

lre_is_cased(db, c) ==
  LET t == build_conv_table(CaseColumn(db))
  IN FindRun(t, c, 1, Len(t)) # 0 \/ lre_is_in_table(c, build_prop_table(Stored(db, "Cased1")))

lre_is_id_start(db, c) == lre_is_in_table(c, build_prop_table(Stored(db, "ID_Start")))

lre_is_id_continue(db, c) ==
  lre_is_id_start(db, c) \/ lre_is_in_table(c, build_prop_table(Stored(db, "ID_Continue1")))

(* Databases as Unicode publishes them: the derived properties of a         *)
(* character follow from the others.                                        *)
Follows(a, p) ==
  LET Has(S) == a.props \cap S # {}
      pattern == Has({"Pattern_Syntax", "Pattern_White_Space"})
      start == a.gc \in Letter \/ Has({"Other_ID_Start"})
  IN CASE p = "Assigned" -> a.gc # "Cn"
       [] p = "Math" -> a.gc = "Sm" \/ Has({"Other_Math"})
       [] p = "Lowercase" -> a.gc = "Ll" \/ Has({"Other_Lowercase"})
       [] p = "Uppercase" -> a.gc = "Lu" \/ Has({"Other_Uppercase"})
       [] p = "Cased" -> a.gc \in {"Lu", "Ll", "Lt"} \/ Has({"Other_Lowercase", "Other_Uppercase"})
       [] p = "Alphabetic" ->
            a.gc \in Letter \/ Has({"Other_Lowercase", "Other_Uppercase", "Other_Alphabetic"})
       [] p = "Grapheme_Extend" -> a.gc \in {"Me", "Mn"} \/ Has({"Other_Grapheme_Extend"})
       [] p = "Grapheme_Base" -> /\ a.gc \notin {"Cc", "Cf", "Cs", "Co", "Cn", "Zl", "Zp", "Me", "Mn"}
                                 /\ ~Has({"Other_Grapheme_Extend"})
       [] p = "ID_Start" -> start /\ ~pattern
       [] p = "ID_Continue" -> /\ start \/ a.gc \in {"Mn", "Mc", "Nd", "Pc"} \/ Has({"Other_ID_Continue"})
                               /\ ~pattern
       [] p = "Changes_When_Uppercased" -> a.case.u # <<>>
       [] p = "Changes_When_Lowercased" -> a.case.l # <<>>
       [] p = "Changes_When_Casemapped" -> a.case # NoCase

(* What Unicode lists without a formula the engine could use.               *)
Listed == {"XID_Start", "XID_Continue", "Changes_When_Titlecased", "Changes_When_Casefolded",
           "Changes_When_NFKC_Casefolded"}
ByFormula == {"Assigned", "Math", "Lowercase", "Uppercase", "Cased", "Alphabetic", "Grapheme_Base",
              "Grapheme_Extend", "ID_Start", "ID_Continue", "Changes_When_Uppercased",
              "Changes_When_Lowercased", "Changes_When_Casemapped"}

Completed(a) == [a EXCEPT !.props = @ \cup {p \in ByFormula : Follows(a, p)}]

(* check_flags, and the same for the ranges a regular expression asks for:  *)
(* every property is answered as the database has it, and no program        *)
(* overflows its stack.                                                     *)
PropertiesRight(raw) ==
  LET db == [c \in DOMAIN raw |-> Completed(raw[c])]
  IN /\ \A p \in ByFormula \cup Listed :
          LET r == unicode_prop(db, p)
          IN r # Aborted /\ \A c \in DOMAIN db : Member(r.cr, c) <=> p \in db[c].props
     /\ \A c \in DOMAIN db :
          /\ lre_is_cased(db, c) <=> "Cased" \in db[c].props
          /\ lre_is_id_continue(db, c) <=> "ID_Continue" \in db[c].props

-----------------------------------------------------------------------------
(* Decomposition, composition and normalization of the Unicode library.     *)
(*                                                                          *)
(* unicode_gen.c cuts the characters that have a decomposition into runs of *)
(* consecutive characters, chooses for every run one of some thirty         *)
(* encodings so that the whole table is smallest (dynamic programming from  *)
(* the last character down), and lists the pairs that compose in order of   *)
(* the pair.  libunicode.c reads the runs back and normalizes text.         *)
(*                                                                          *)
(* A database is a function from characters to [d, compat, excluded].       *)

CONSTANTS
  ComposeMax,     \* characters of a run that compositions may refer to (64)
  DecompMax       \* longest run (127)

NoDecomp == [d |-> <<>>, compat |-> FALSE, excluded |-> FALSE]
Dc(db, c) == IF c \in DOMAIN db THEN db[c] ELSE NoDecomp

----------------------------------------------------------------------------
(* Characters that fit a byte.                                              *)
get_short_code(c) ==
  IF c < 128 THEN c ELSE IF c \in 768..847 THEN c - 768 + 128
  ELSE IF c = 8260 THEN 208 ELSE IF c = 8725 THEN 209 ELSE -1

unicode_get_short_code(b) ==
  IF b < 128 THEN b ELSE IF b < 208 THEN b - 128 + 768 ELSE IF b = 208 THEN 8260 ELSE 8725

is_short(c) == get_short_code(c) >= 0
is_short_tab(d) == \A j \in 1..Len(d) : is_short(d[j])
is_16bit(d) == \A j \in 1..Len(d) : d[j] <= 65535

to_lower_simple(c) == IF c < 256 \/ c \in 1040..1071 THEN c + 32 ELSE c + 1

(* Bytes an entry takes, its data included.                                 *)
get_decomp_run_size(type, len, l) ==
  6 + CASE type = "C1" -> 0
        [] type = "L" -> len * l * 2
        [] type = "LL" -> (len * l * 18 + 7) \div 8
        [] type = "S" -> len * l
        [] type \in {"I0", "I1", "I2"} -> l * 2
        [] type = "B" -> 2 + len * l
        [] type = "LS2" -> len * 3
        [] type = "PAT3" -> 4 + len * 2
        [] type = "S2_UL" -> len
        [] type = "LS2_UL" -> (len \div 2) * 3

----------------------------------------------------------------------------
(* find_decomp_run: how far a run of one encoding reaches from character i, *)
(* the conditions on the next character being those of the encoding.  Some  *)
(* encodings accept a hole, a character without decomposition.              *)
Reach(P(_), n, max) ==
  CHOOSE k \in n..max : (\A x \in n..(k - 1) : P(x)) /\ (k = max \/ ~P(k))

Like(ci, ci1) == Len(ci1.d) = Len(ci.d) /\ ci1.compat = ci.compat
OrHole(ci1, B) == ci1.d = <<>> \/ B

Spread(db, i, n) ==
  LET cs == UNION {{Dc(db, i + k).d[j] : j \in 1..Len(Dc(db, i).d)} : k \in 0..(n - 1)} \ {32}
  IN [min |-> IF cs = {} THEN -1 ELSE CHOOSE x \in cs : \A y \in cs : x <= y,
      max |-> IF cs = {} THEN -1 ELSE CHOOSE x \in cs : \A y \in cs : x >= y]

Narrow(db, i, n) == Spread(db, i, n).max - Spread(db, i, n).min <= 254

Raised(d, idx, n) == [d EXCEPT ![idx + 1] = @ + n]

IncrIndexes(l) == CASE l = 1 -> <<0>> [] l = 2 -> <<0, 1>> [] l = 3 -> <<1, 2>> [] l = 4 -> <<1, 2>>

(* Pairs of capital and small letter with the same mark.                    *)
UlPair(db, i, n) ==
  LET ci == Dc(db, i)
      a == Dc(db, i + n)
      b == Dc(db, i + n + 1)
  IN /\ Like(ci, a) /\ is_short(a.d[2])
     /\ Like(ci, b) /\ b.d = <<to_lower_simple(a.d[1]), a.d[2]>>

Lengths(type, k) == [n \in 1..k |-> [type |-> type, len |-> n]]

(* All runs from i, in the order in which the code tries them.              *)
Tries(db, i) ==
  LET ci == Dc(db, i)
      l == Len(ci.d)
      max == IF ~ci.compat /\ ~ci.excluded /\ l = 2 THEN ComposeMax ELSE DecompMax
      At(n) == Dc(db, i + n)
      Run(P(_)) == Reach(P, 1, max)
      ll == Run(LAMBDA n : OrHole(At(n), Like(ci, At(n))))
      ls == Run(LAMBDA n : OrHole(At(n), Like(ci, At(n)) /\ is_16bit(At(n).d)))
      bs == Run(LAMBDA n : Like(ci, At(n)) /\ Narrow(db, i, n + 1))
      ss == Run(LAMBDA n : OrHole(At(n), Like(ci, At(n)) /\ is_short_tab(At(n).d)))
      Incr(idx) == Run(LAMBDA n : Like(ci, At(n)) /\ At(n).d = Raised(ci.d, idx, n))
      pat == Run(LAMBDA n : /\ Like(ci, At(n)) /\ At(n).d[2] <= 65535
                            /\ At(n).d[1] = ci.d[1] /\ At(n).d[3] = ci.d[3])
      ls2 == Run(LAMBDA n : OrHole(At(n), /\ Like(ci, At(n)) /\ At(n).d[1] <= 65535
                                          /\ is_short(At(n).d[2])))
      ul == Reach(LAMBDA n : UlPair(db, i, 2 * n), 0, max \div 2)
      wide(k) == \E m \in 0..(k - 1) : ~is_short(At(2 * m).d[1])
      incr == [k \in 1..Len(IncrIndexes(l)) |-> IncrIndexes(l)[k]]
      Name(idx) == CASE idx = 0 -> "I0" [] idx = 1 -> "I1" [] idx = 2 -> "I2"
  IN IF ~is_16bit(ci.d) THEN Lengths("LL", ll)
     ELSE (IF l > 7 THEN <<>> ELSE IF l = 1 THEN <<[type |-> "C1", len |-> 1]>> \o Tail(Lengths("L", ls))
           ELSE Lengths("L", ls))
          \o (IF l <= 8 \/ l = 18 THEN (IF Narrow(db, i, 1) THEN Lengths("B", bs) ELSE <<>>) ELSE <<>>)
          \o (IF l <= 5 /\ is_short_tab(ci.d) THEN Lengths("S", ss) ELSE <<>>)
          \o (IF l <= 4 THEN Lengths(Name(incr[1]), Incr(incr[1])) ELSE <<>>)
          \o (IF l \in 2..4 THEN Lengths(Name(incr[2]), Incr(incr[2])) ELSE <<>>)
          \o (IF l = 3 THEN Lengths("PAT3", pat) ELSE <<>>)
          \o (IF l = 2 /\ is_short(ci.d[2]) THEN Lengths("LS2", ls2) ELSE <<>>)
          \o (IF l = 2 THEN [k \in 1..ul |-> [type |-> IF wide(k) THEN "LS2_UL" ELSE "S2_UL", len |-> 2 * k]]
              ELSE <<>>)

----------------------------------------------------------------------------
(* build_decompose_table: the cheapest way to cover the characters from i   *)
(* on; of equal costs the first tried stays.  best is a sequence of         *)
(* [code, cost, ...] for the characters above i, the nearest first.         *)
CostFrom(best, c) ==
  LET above == {k \in 1..Len(best) : best[k].code >= c}
  IN IF above = {} THEN 0 ELSE best[CHOOSE k \in above : \A m \in above : best[k].code <= best[m].code].cost

find_decomp_run(db, i, best) ==
  LET ts == Tries(db, i)
      l == Len(Dc(db, i).d)
      cost == [k \in 1..Len(ts) |-> get_decomp_run_size(ts[k].type, ts[k].len, l) + CostFrom(best, i + ts[k].len)]
      k == CHOOSE x \in 1..Len(ts) : \A y \in 1..Len(ts) : cost[x] < cost[y] \/ (cost[x] = cost[y] /\ x <= y)
  IN [code |-> i, len |-> ts[k].len, type |-> ts[k].type, l |-> l, cost |-> cost[k]]

RECURSIVE BestRuns(_, _, _)
BestRuns(db, todo, best) ==
  IF todo = {} THEN best
  ELSE LET i == CHOOSE x \in todo : \A y \in todo : x >= y
       IN BestRuns(db, todo \ {i}, <<find_decomp_run(db, i, best)>> \o best)

(* add_decomp_data: the units stored for the character at offset k of an    *)
(* entry; put16 keeps 16 bits, a hole is zeros.                             *)
Units(db, e, k) ==
  LET c == Dc(db, e.code + k).d
      d == IF c = <<>> THEN [j \in 1..e.l |-> 0] ELSE c
      min == Spread(db, e.code, e.len).min
  IN CASE e.type \in {"C1", "L", "I0", "I1", "I2", "PAT3"} -> [j \in 1..e.l |-> d[j] % 65536]
       [] e.type = "LL" -> [j \in 1..e.l |-> d[j] % 262144]
       [] e.type = "S" -> [j \in 1..e.l |-> get_short_code(d[j])]
       [] e.type = "B" -> [j \in 1..e.l |-> IF d[j] = 32 THEN 255 ELSE d[j] - min]
       [] e.type \in {"LS2", "LS2_UL"} -> <<d[1] % 65536, get_short_code(d[2])>>
       [] e.type = "S2_UL" -> <<get_short_code(d[1]), get_short_code(d[2])>>

(* Characters whose units are stored: one for a run that counts up, every   *)
(* other one for capitals and small letters.                                *)
Kept(e) ==
  CASE e.type \in {"C1", "I0", "I1", "I2"} -> {0}
    [] e.type \in {"S2_UL", "LS2_UL"} -> {k \in 0..(e.len - 1) : k % 2 = 0}
    [] OTHER -> 0..(e.len - 1)

RECURSIVE Cover(_, _, _)
Cover(db, best, from) ==
  LET above == {k \in 1..Len(best) : best[k].code >= from}
      e == best[CHOOSE k \in above : \A m \in above : best[k].code <= best[m].code]
  IN IF above = {} THEN <<>>
     ELSE <<[code |-> e.code, len |-> e.len, type |-> e.type, l |-> e.l,
             compat |-> Dc(db, e.code).compat,
             min |-> IF e.type = "B" THEN Spread(db, e.code, e.len).min ELSE 0,
             data |-> [k \in Kept(e) |-> Units(db, e, k)]]>>
          \o Cover(db, best, e.code + e.len)

HasDecomp(db) == {c \in DOMAIN db : db[c].d # <<>>}

build_decompose_table(db) == Cover(db, BestRuns(db, HasDecomp(db), <<>>), 0)

----------------------------------------------------------------------------
(* unicode_decomp_entry, unicode_decomp_char: reading the runs back.        *)
unicode_get_lower_simple(c) == IF c < 256 \/ c \in 1040..1071 THEN c + 32 ELSE c + 1

NonZero(s) == IF \E j \in 1..Len(s) : s[j] = 0 THEN <<>> ELSE s

unicode_decomp_entry(e, c) ==
  LET k == c - e.code
      u == e.data[k]
      low(x) == IF k % 2 = 1 THEN unicode_get_lower_simple(x) ELSE x
      pair == e.data[k - (k % 2)]
      Step(idx) == [j \in 1..e.l |-> IF j = idx + 1 THEN e.data[0][j] + k ELSE e.data[0][j]]
  IN CASE e.type = "C1" -> e.data[0]
       [] e.type \in {"L", "LL"} -> NonZero(u)
       [] e.type = "S" -> NonZero([j \in 1..e.l |-> unicode_get_short_code(u[j])])
       [] e.type = "I0" -> Step(0)
       [] e.type = "I1" -> Step(1)
       [] e.type = "I2" -> Step(2)
       [] e.type = "B" -> [j \in 1..e.l |-> IF u[j] = 255 THEN 32 ELSE u[j] + e.min]
       [] e.type = "LS2" -> IF u[1] = 0 THEN <<>> ELSE <<u[1], unicode_get_short_code(u[2])>>
       [] e.type = "PAT3" -> <<e.data[0][1], u[2], e.data[0][3]>>
       [] e.type = "S2_UL" -> <<low(unicode_get_short_code(pair[1])), unicode_get_short_code(pair[2])>>
       [] e.type = "LS2_UL" -> <<low(pair[1]), unicode_get_short_code(pair[2])>>

RECURSIVE FindEntry(_, _, _, _)
FindEntry(t, c, lo, hi) ==
  LET mid == (lo + hi) \div 2
  IN IF lo > hi THEN 0
     ELSE IF c < t[mid].code THEN FindEntry(t, c, lo, mid - 1)
     ELSE IF c >= t[mid].code + t[mid].len THEN FindEntry(t, c, mid + 1, hi)
     ELSE mid

unicode_decomp_char(t, c, compat) ==
  LET k == FindEntry(t, c, 1, Len(t))
  IN IF k = 0 THEN <<>> ELSE IF t[k].compat /\ ~compat THEN <<>> ELSE unicode_decomp_entry(t[k], c)

----------------------------------------------------------------------------
(* build_compose_table: the characters that pairs compose to, in the order  *)
(* of the pairs, as an entry of the decomposition table and an offset.      *)
Composes(db) == {c \in HasDecomp(db) : Len(db[c].d) = 2 /\ ~db[c].compat /\ ~db[c].excluded}

ce_cmp(p, q) == p[1] < q[1] \/ (p[1] = q[1] /\ p[2] < q[2])

RECURSIVE SortedPairs(_, _)
SortedPairs(db, S) ==
  IF S = {} THEN <<>>
  ELSE LET c == CHOOSE x \in S : \A y \in S \ {x} : ~ce_cmp(db[y].d, db[x].d)
       IN <<c>> \o SortedPairs(db, S \ {c})

get_decomp_pos(t, c) ==
  LET k == FindEntry(t, c, 1, Len(t)) IN [entry |-> k, offset |-> c - t[k].code]

build_compose_table(db, t) ==
  LET cs == SortedPairs(db, Composes(db)) IN [k \in 1..Len(cs) |-> get_decomp_pos(t, cs[k])]

(* unicode_compose_pair: 0 if there is none.                                *)
RECURSIVE ComposeFrom(_, _, _, _, _)
ComposeFrom(t, comp, p, lo, hi) ==
  LET mid == (lo + hi) \div 2
      e == t[comp[mid].entry]
      ch == e.code + comp[mid].offset
      d == unicode_decomp_entry(e, ch)
  IN IF lo > hi THEN 0
     ELSE IF ce_cmp(p, d) THEN ComposeFrom(t, comp, p, lo, mid - 1)
     ELSE IF p = d THEN ch ELSE ComposeFrom(t, comp, p, mid + 1, hi)

unicode_compose_pair(t, comp, c0, c1) == ComposeFrom(t, comp, <<c0, c1>>, 1, Len(comp))

(* check_decompose_table and check_compose_table, and in addition that no   *)
(* other pair composes: the tables give back the database.                  *)
DecompTableRight(db, chars, extra) ==
  LET t == build_decompose_table(db)
      comp == build_compose_table(db, t)
  IN /\ \A c \in chars :
          /\ unicode_decomp_char(t, c, TRUE) = Dc(db, c).d
          /\ unicode_decomp_char(t, c, FALSE) = IF Dc(db, c).compat THEN <<>> ELSE Dc(db, c).d
     /\ \A c \in Composes(db) : unicode_compose_pair(t, comp, db[c].d[1], db[c].d[2]) = c
     /\ \A p \in extra : (\A c \in Composes(db) : db[c].d # p) => unicode_compose_pair(t, comp, p[1], p[2]) = 0

(* "the offset for the compose table has only 6 bits": get_decomp_pos       *)
(* asserts that it fits.                                                    *)
OffsetsFit(db) ==
  LET t == build_decompose_table(db)
      comp == build_compose_table(db, t)
  IN \A k \in 1..Len(comp) : comp[k].offset < ComposeMax

----------------------------------------------------------------------------
(* Normalization.  T holds the tables: [t, comp, cc], cc a function that    *)
(* gives the combining class of the characters that are not starters.       *)
Cc(T, c) == IF c \in DOMAIN T.cc THEN T.cc[c] ELSE 0

SBase == 44032
LBase == 4352
VBase == 4449
TBase == 4519

RECURSIVE to_nfd_rec(_, _, _)
to_nfd_rec(T, src, compat) ==
  IF src = <<>> THEN <<>>
  ELSE LET c == src[1]
           s == c - SBase
           d == unicode_decomp_char(T.t, c, compat)
       IN (IF s \in 0..11171
           THEN <<LBase + (s \div 588), VBase + ((s % 588) \div 28)>>
                \o (IF s % 28 # 0 THEN <<TBase + (s % 28)>> ELSE <<>>)
           ELSE IF d # <<>> THEN to_nfd_rec(T, d, compat) ELSE <<c>>)
          \o to_nfd_rec(T, Tail(src), compat)

(* sort_cc: insertion sort of every stretch of marks.                       *)
RECURSIVE Place(_, _, _, _)
Place(T, buf, start, k) ==
  IF k >= start /\ Cc(T, buf[k]) > Cc(T, buf[k + 1])
  THEN Place(T, [buf EXCEPT ![k] = buf[k + 1], ![k + 1] = buf[k]], start, k - 1)
  ELSE buf

RECURSIVE SortRun(_, _, _, _)
SortRun(T, buf, start, j) ==
  IF j > Len(buf) \/ Cc(T, buf[j]) = 0 THEN [buf |-> buf, j |-> j]
  ELSE SortRun(T, Place(T, buf, start, j - 1), start, j + 1)

RECURSIVE SortFrom(_, _, _)
SortFrom(T, buf, i) ==
  IF i > Len(buf) THEN buf
  ELSE IF Cc(T, buf[i]) = 0 THEN SortFrom(T, buf, i + 1)
  ELSE LET r == SortRun(T, buf, i, i + 1) IN SortFrom(T, r.buf, r.j + 1)

sort_cc(T, buf) == SortFrom(T, buf, 1)

compose_pair(T, c0, c1) ==
  IF c0 \in LBase..(LBase + 18) /\ c1 \in VBase..(VBase + 20)
  THEN SBase + (c0 - LBase) * 588 + (c1 - VBase) * 28
  ELSE IF c0 \in SBase..(SBase + 11171) /\ (c0 - SBase) % 28 = 0 /\ c1 \in TBase..(TBase + 27)
  THEN c0 + c1 - TBase
  ELSE unicode_compose_pair(T.t, T.comp, c0, c1)

(* Position of the starter a character may join, 0 if it is blocked or      *)
(* there is none.                                                           *)
RECURSIVE Starter(_, _, _, _)
Starter(T, out, pos, last) ==
  IF pos = 0 \/ Cc(T, out[pos]) = 0 THEN pos
  ELSE IF Cc(T, out[pos]) >= last THEN 0
  ELSE Starter(T, out, pos - 1, 256)

(* A plausible slip: a mark of the same class does not block.               *)
NeverBlocked(T, out, pos, last) ==
  LET starters == {k \in 1..pos : Cc(T, out[k]) = 0}
  IN IF starters = {} THEN 0 ELSE CHOOSE k \in starters : \A m \in starters : m <= k

StarterOf(T, out, pos, last) == Starter(T, out, pos, last)

RECURSIVE Compose(_, _, _, _)
Compose(T, buf, i, out) ==
  IF i > Len(buf) THEN out
  ELSE LET k == StarterOf(T, out, Len(out), Cc(T, buf[i]))
           p == IF k = 0 THEN 0 ELSE compose_pair(T, out[k], buf[i])
       IN Compose(T, buf, i + 1, IF p # 0 THEN [out EXCEPT ![k] = p] ELSE Append(out, buf[i]))

unicode_normalize(T, src, form) ==
  LET compat == form \in {"NFKC", "NFKD"}
      buf == sort_cc(T, to_nfd_rec(T, src, compat))
  IN IF form = "NFC" /\ \A k \in 1..Len(src) : src[k] < 256 THEN src
     ELSE IF Len(buf) <= 1 \/ form \in {"NFD", "NFKD"} THEN buf
     ELSE Compose(T, buf, 2, <<buf[1]>>)

----------------------------------------------------------------------------
(* What Unicode Standard Annex 15 asks for.                                 *)
RECURSIVE Decomposed(_, _, _)
Decomposed(db, s, compat) ==
  IF s = <<>> THEN <<>>
  ELSE LET c == s[1]
           h == c - SBase
           whole == Dc(db, c).d # <<>> /\ (Dc(db, c).compat => compat)
       IN (IF h \in 0..11171
           THEN <<LBase + (h \div 588), VBase + ((h % 588) \div 28)>> \o
                (IF h % 28 = 0 THEN <<>> ELSE <<TBase + (h % 28)>>)
           ELSE IF whole THEN Decomposed(db, Dc(db, c).d, compat) ELSE <<c>>)
          \o Decomposed(db, Tail(s), compat)

(* Canonical order: two marks are exchanged as long as some are out of      *)
(* order.                                                                   *)
RECURSIVE Ordered(_, _)
Ordered(T, s) ==
  LET bad == {k \in 1..(Len(s) - 1) : Cc(T, s[k]) > Cc(T, s[k + 1]) /\ Cc(T, s[k + 1]) > 0}
  IN IF bad = {} THEN s
     ELSE LET k == CHOOSE x \in bad : TRUE
          IN Ordered(T, [s EXCEPT ![k] = s[k + 1], ![k + 1] = s[k]])

(* Primary composites.                                                      *)
Composite(db, a, b) ==
  LET found == {c \in Composes(db) : db[c].d = <<a, b>>}
  IN IF a \in LBase..(LBase + 18) /\ b \in VBase..(VBase + 20)
     THEN SBase + (a - LBase) * 588 + (b - VBase) * 28
     ELSE IF a \in SBase..(SBase + 11171) /\ (a - SBase) % 28 = 0 /\ b \in (TBase + 1)..(TBase + 27)
     THEN a + (b - TBase)
     ELSE IF found = {} THEN 0 ELSE CHOOSE c \in found : TRUE

RECURSIVE Recomposed(_, _, _, _)
Recomposed(db, T, s, i) ==
  LET blocked(k) == \E m \in (k + 1)..(i - 1) : Cc(T, s[m]) = 0 \/ Cc(T, s[m]) >= Cc(T, s[i])
      starters == {k \in 1..(i - 1) : Cc(T, s[k]) = 0}
      k == CHOOSE x \in starters : \A y \in starters : y <= x
      p == IF starters = {} THEN 0 ELSE IF blocked(k) THEN 0 ELSE Composite(db, s[k], s[i])
  IN IF i > Len(s) THEN s
     ELSE IF p = 0 THEN Recomposed(db, T, s, i + 1)
     ELSE Recomposed(db, T, RemoveAt([s EXCEPT ![k] = p], i), i)

Normal(db, T, s, form) ==
  LET d == Ordered(T, Decomposed(db, s, form \in {"NFKC", "NFKD"}))
  IN IF form \in {"NFD", "NFKD"} THEN d ELSE Recomposed(db, T, d, 2)

(* The library's four forms are those of the standard, and normalizing      *)
(* again changes nothing.                                                   *)
NormalizeRight(db, T, s) ==
  \A form \in {"NFC", "NFD", "NFKC", "NFKD"} :
    LET r == unicode_normalize(T, s, form)
    IN r = Normal(db, T, s, form) /\ unicode_normalize(T, r, form) = r
=============================================================================
