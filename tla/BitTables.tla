----------------------------- MODULE BitTables ------------------------------
(***************************************************************************)
(* Numbers of a few bits in arrays, and the compressed tables of chd:      *)
(* cmph-2.0/src/bitbool.h, select.c, compressed_seq.c, compressed_rank.c.  *)
(***************************************************************************)
EXTENDS CmphStructs

CONSTANT
    SelectStep     \* STEP_SELECT_TABLE, 128

\* With less, two entries of the table could be in one byte.
ASSUME SelectAssumption == SelectStep \in Nat /\ SelectStep >= 8

-----------------------------------------------------------------------------
(***************************************************************************)
(* cmph-2.0/src/bitbool.h: numbers of a few bits in arrays.  An array of   *)
(* 2-bit numbers is made of bytes of four cells.  A table of words is kept *)
(* bit by bit: bit p is bit p % Word of word p \div Word.                  *)
(***************************************************************************)

Bit(x, i) == (x \div 2 ^ i) % 2

Bytes(n, cell) == [j \in 0 .. CeilDiv(n, 4) - 1 |-> [p \in 1 .. 4 |-> cell]]

GETVALUE(array, i) ==
    LET byte == CellOf(array, i \div 4) IN IF byte = Wild THEN Wild ELSE byte[(i % 4) + 1]

\* In an array of ones the value is and-ed, in one of zeros it is or-ed.
SETVALUE1(array, i, v) ==
    [array EXCEPT ![i \div 4][(i % 4) + 1] = Bit(@, 0) * Bit(v, 0) + 2 * Bit(@, 1) * Bit(v, 1)]
SETVALUE0(array, i, v) ==
    [array EXCEPT ![i \div 4][(i % 4) + 1] =
        (IF Bit(@, 0) + Bit(v, 0) > 0 THEN 1 ELSE 0) + (IF Bit(@, 1) + Bit(v, 1) > 0 THEN 2 ELSE 0)]

-----------------------------------------------------------------------------
\* BITS_TABLE_SIZE words
BITS_TABLE_SIZE(n, len) == CeilDiv(n * len, Word)
ZeroBits(words) == [p \in 0 .. words * Word - 1 |-> 0]

GETBIT32(table, i) == CellOf(table, i)
SETBIT32(table, i) == [table EXCEPT ![i] = 1]
UNSETBIT32(table, i) == [table EXCEPT ![i] = 1 - @]       \* exclusive or

(* a mutant: what does not fit into the first word is lost *)
set_bits_at_pos_OneWord(table, pos, x, len) ==
    LET end == Word * (pos \div Word + 1)
    IN  [p \in DOMAIN table |->
            IF p < pos \/ p >= end THEN table[p]
            ELSE IF p < pos + len THEN Bit(x, p - pos)
            ELSE IF Bit(x, p - pos) = 1 THEN 1 ELSE table[p]]

\* The bits of the mask are cleared and those of x or-ed in, which is not masked
\* itself: in the first word, and in the second one if the string goes on there.
set_bits_at_pos(table, pos, x, len) ==
    LET end == Word * (pos \div Word + IF (pos % Word) + len > Word THEN 2 ELSE 1)
    IN  [p \in DOMAIN table |->
            IF p < pos \/ p >= end THEN table[p]
            ELSE IF p < pos + len THEN Bit(x, p - pos)
            ELSE IF Bit(x, p - pos) = 1 THEN 1 ELSE table[p]]

get_bits_at_pos(table, pos, len) ==
    IF pos = Wild \/ len = Wild THEN Wild
    ELSE IF \E i \in 0 .. len - 1 : CellOf(table, pos + i) = Wild THEN Wild
    ELSE Fold(LAMBDA sum, i : sum + table[pos + i] * 2 ^ i, 0, Upto(len))

\* A table in a file or in packed memory: words of four bytes, from an offset on.
TableTokens(table) ==
    Array(4, Cardinality(DOMAIN table) \div Word,
          [w \in 0 .. Cardinality(DOMAIN table) \div Word - 1 |->
              [i \in 0 .. Word - 1 |-> table[w * Word + i]]])
TableAt(mem, off, words) ==
    LET word == [w \in 0 .. words - 1 |-> At(mem, off + 4 * w, 4)]
    IN  [p \in 0 .. words * Word - 1 |->
            IF word[p \div Word] = Wild THEN Wild ELSE word[p \div Word][p % Word]]

set_bits_value(table, index, x, len) == set_bits_at_pos(table, index * len, x, len)
get_bits_value(table, index, len) ==
    IF index = Wild \/ len = Wild THEN Wild ELSE get_bits_at_pos(table, index * len, len)

\* The low len bits of each of n numbers, one behind the other.
LowBits(vec, n, len) ==
    Fold(LAMBDA t, i : set_bits_value(t, i, vec[i] % 2 ^ len, len), ZeroBits(BITS_TABLE_SIZE(n, len)), Upto(n))

-----------------------------------------------------------------------------
(***************************************************************************)
(* cmph-2.0/src/select.c: a sequence of numbers that do not decrease, as a *)
(* string of bits: a one for each number, behind as many zeros as the      *)
(* number says.  The table tells where every SelectStep-th one is; a query *)
(* starts at the byte of such a one.  Bytes have eight bits.               *)
(***************************************************************************)

\* select_lookup_tables.h: the ones of a byte, and which bit is the k-th of them.
rank_lookup_table(bits, from, to) == Cardinality({p \in from .. to - 1 : CellOf(bits, p) = 1})
select_lookup_table(bits, from, k) ==
    LET hits == {p \in from .. Cardinality(DOMAIN bits) - 1 :
                    bits[p] = 1 /\ rank_lookup_table(bits, from, p) = k}
    IN  IF hits = {} THEN Wild ELSE CHOOSE p \in hits : TRUE

select_generate_sel_table(bits, n) ==
    [t \in 0 .. n \div SelectStep |->
        IF t * SelectStep < n THEN select_lookup_table(bits, 0, t * SelectStep) ELSE 0]

\* n numbers up to m.  Without numbers the code still reads the first one.
select_generate(keys_vec, n, m_) ==
    LET ones == {keys_vec[j] + j : j \in 0 .. n - 1}
        bits == [p \in 0 .. CeilDiv(n + m_, Word) * Word - 1 |->
                    IF n = 0 THEN Wild ELSE IF p \in ones THEN 1 ELSE 0]
    IN  [n |-> n, m |-> m_, bits_vec |-> bits, select_table |-> select_generate_sel_table(bits, n)]

select_query(bits, table, one_idx) ==
    LET near == CellOf(table, one_idx \div SelectStep)
        byte == 8 * (near \div 8)
        before == rank_lookup_table(bits, byte, near)
    IN  IF near = Wild THEN Wild
        ELSE select_lookup_table(bits, byte, (one_idx % SelectStep) + before)

\* The one that follows the one at a given position.
select_next_query(bits, vec_bit_idx) ==
    LET byte == 8 * (vec_bit_idx \div 8)
    IN  IF vec_bit_idx = Wild THEN Wild
        ELSE select_lookup_table(bits, byte, rank_lookup_table(bits, byte, vec_bit_idx) + 1)

-----------------------------------------------------------------------------
select_packed_size(sel) ==
    2 * 4 + 4 * CeilDiv(sel.n + sel.m, Word) + 4 * ((sel.n \div SelectStep) + 1)

select_dump(sel) ==
    W(4, sel.n) \o W(4, sel.m) \o TableTokens(sel.bits_vec)
        \o Array(4, (sel.n \div SelectStep) + 1, sel.select_table)

\* What is loaded from a buffer, or what a packed query works on, from an offset on.
select_load(mem, off) ==
    LET n == At(mem, off, 4)
        m_ == At(mem, off + 4, 4)
        words == CeilDiv(n + m_, Word)
    IN  [n |-> n, m |-> m_, bits_vec |-> TableAt(mem, off + 8, words),
         select_table |-> [t \in 0 .. n \div SelectStep |-> At(mem, off + 8 + 4 * words + 4 * t, 4)]]

select_query_packed(mem, off, one_idx) ==
    LET sel == select_load(mem, off) IN select_query(sel.bits_vec, sel.select_table, one_idx)
select_next_query_packed(mem, off, vec_bit_idx) ==
    select_next_query(select_load(mem, off).bits_vec, vec_bit_idx)

-----------------------------------------------------------------------------
(***************************************************************************)
(* cmph-2.0/src/compressed_seq.c: a table of numbers, each stored in as    *)
(* many bits as it needs.  Where the bits of number i end is kept in two   *)
(* parts: the low rem_r bits in length_rems, the rest in a Select.         *)
(***************************************************************************)

\* How often x can be halved before it is 1.
compressed_seq_i_log2(x) == Cardinality({e \in 1 .. Word : 2 ^ e <= x})

\* A number x takes log2(x + 1) bits, for x - (2^bits - 1).
Length(x) == IF x = 0 THEN 0 ELSE compressed_seq_i_log2(x + 1)

\* One bit is always kept in the low part.
RemBits(total, n) ==
    LET log == compressed_seq_i_log2(total \div n) IN IF log = 0 THEN 1 ELSE log

\* Where the bits of each number end.
EndsOfBits(vals_table, n) ==
    Fold(LAMBDA s, i : [s EXCEPT ![i] = (IF i = 0 THEN 0 ELSE s[i - 1]) + Length(vals_table[i])],
         [i \in 0 .. n - 1 |-> 0], Upto(n))

Stored(vals_table, ends, n) ==
    Fold(LAMBDA t, i :
                LET len == Length(vals_table[i])
                IN  IF vals_table[i] = 0 THEN t
                    ELSE set_bits_at_pos(t, ends[i] - len, vals_table[i] - (2 ^ len - 1), len),
         ZeroBits(CeilDiv(ends[n - 1], Word)), Upto(n))

compressed_seq_generate(vals_table, n) ==
    LET ends == EndsOfBits(vals_table, n)
        total == ends[n - 1]
        rem_r == RemBits(total, n)
    IN  [n |-> n, rem_r |-> rem_r, total_length |-> total, store_table |-> Stored(vals_table, ends, n),
         length_rems |-> LowBits(ends, n, rem_r),
         sel |-> select_generate([i \in 0 .. n - 1 |-> ends[i] \div 2 ^ rem_r], n, total \div 2 ^ rem_r)]

\* Where the bits of number idx end; quotient: what Select says.
Encoded(cs, quotient, idx) ==
    LET rem == get_bits_value(cs.length_rems, idx, cs.rem_r)
    IN  IF Wild \in {quotient, rem} THEN Wild ELSE (quotient - idx) * 2 ^ cs.rem_r + rem

compressed_seq_query(cs, idx) ==
    LET bits == cs.sel.bits_vec
        table == cs.sel.select_table
        prev == select_query(bits, table, idx - 1)
        start == IF idx = 0 THEN 0 ELSE Encoded(cs, prev, idx - 1)
        end == Encoded(cs, IF idx = 0 THEN select_query(bits, table, 0)
                           ELSE select_next_query(bits, prev), idx)
        stored == get_bits_at_pos(cs.store_table, start, end - start)
    IN  IF Wild \in {start, end} THEN Wild
        ELSE IF end <= start THEN IF end = start THEN 0 ELSE Wild
        ELSE IF stored = Wild THEN Wild ELSE stored + 2 ^ (end - start) - 1

-----------------------------------------------------------------------------
compressed_seq_packed_size(cs) ==
    4 * 4 + select_packed_size(cs.sel) + 4 * CeilDiv(cs.total_length, Word)
          + 4 * BITS_TABLE_SIZE(cs.n, cs.rem_r)

compressed_seq_dump(cs) ==
    W(4, cs.n) \o W(4, cs.rem_r) \o W(4, cs.total_length)
        \o W(4, select_packed_size(cs.sel)) \o select_dump(cs.sel)
        \o TableTokens(cs.length_rems) \o TableTokens(cs.store_table)

compressed_seq_load(mem, off) ==
    LET n == At(mem, off, 4)
        rem_r == At(mem, off + 4, 4)
        total == At(mem, off + 8, 4)
        rems == off + 16 + At(mem, off + 12, 4)
        store == rems + 4 * BITS_TABLE_SIZE(n, rem_r)
    IN  [n |-> n, rem_r |-> rem_r, total_length |-> total, sel |-> select_load(mem, off + 16),
         length_rems |-> TableAt(mem, rems, BITS_TABLE_SIZE(n, rem_r)),
         store_table |-> TableAt(mem, store, CeilDiv(total, Word))]

compressed_seq_pack(cs) == compressed_seq_dump(cs)

\* The same query, on the words of the packed structure.
compressed_seq_query_packed(mem, off, idx) ==
    With(compressed_seq_load(mem, off), LAMBDA cs : compressed_seq_query(cs, idx))

-----------------------------------------------------------------------------
(***************************************************************************)
(* cmph-2.0/src/compressed_rank.c: for an ascending table of numbers, how  *)
(* many of them are below a given one.  The low rem_r bits of the numbers  *)
(* are in vals_rems; a Select keeps, for each larger part, the index of    *)
(* the first number that reaches it.                                       *)
(***************************************************************************)

\* How often x can be halved before it is 1.
compressed_rank_i_log2(x) == Cardinality({e \in 1 .. Word : 2 ^ e <= x})

\* One bit is always kept in the low part.
RankRemBits(max_val, n) ==
    LET log == compressed_rank_i_log2(max_val \div n) IN IF log = 0 THEN 1 ELSE log

compressed_rank_generate(vals_table, n) ==
    LET max_val == vals_table[n - 1]
        rem_r == RankRemBits(max_val, n)
        quots == max_val \div 2 ^ rem_r
        select_vec == [i \in 0 .. quots - 1 |->
                         CHOOSE j \in 0 .. n - 1 : /\ vals_table[j] \div 2 ^ rem_r >= i + 1
                                                   /\ j > 0 => vals_table[j - 1] \div 2 ^ rem_r < i + 1]
    IN  [max_val |-> max_val, n |-> n, rem_r |-> rem_r, vals_rems |-> LowBits(vals_table, n, rem_r),
         sel |-> select_generate(select_vec, quots, n)]

NotBelow(rem, val_rem) == rem >= val_rem

\* From the first number with the same larger part on: up to the next larger part, or
\* to a number that is not smaller.
compressed_rank_query(cr, idx) ==
    LET val_quot == idx \div 2 ^ cr.rem_r
        first == select_query(cr.sel.bits_vec, cr.sel.select_table, val_quot - 1)
        sel_res == IF val_quot = 0 THEN 0 ELSE first + 1
        Rest(s) == get_bits_value(cr.vals_rems, sel_res + s - val_quot, cr.rem_r)
        Bit1(s) == GETBIT32(cr.sel.bits_vec, sel_res + s)
        stops == {s \in 0 .. cr.n :
                    Bit1(s) = 1 \/ Wild \in {Bit1(s), Rest(s)} \/ NotBelow(Rest(s), idx % 2 ^ cr.rem_r)}
        stop == CHOOSE s \in stops : \A t \in stops : s <= t
    IN  IF idx > cr.max_val THEN cr.n
        ELSE IF (val_quot > 0 /\ first = Wild) \/ stops = {} THEN Wild
        ELSE IF Bit1(stop) = Wild \/ (Bit1(stop) = 0 /\ Rest(stop) = Wild) THEN Wild
        ELSE sel_res - val_quot + stop

-----------------------------------------------------------------------------
compressed_rank_packed_size(cr) ==
    4 * 4 + select_packed_size(cr.sel) + 4 * BITS_TABLE_SIZE(cr.n, cr.rem_r)

compressed_rank_dump(cr) ==
    W(4, cr.max_val) \o W(4, cr.n) \o W(4, cr.rem_r)
        \o W(4, select_packed_size(cr.sel)) \o select_dump(cr.sel) \o TableTokens(cr.vals_rems)

compressed_rank_load(mem, off) ==
    LET n == At(mem, off + 4, 4)
        rem_r == At(mem, off + 8, 4)
    IN  [max_val |-> At(mem, off, 4), n |-> n, rem_r |-> rem_r, sel |-> select_load(mem, off + 16),
         vals_rems |-> TableAt(mem, off + 16 + At(mem, off + 12, 4), BITS_TABLE_SIZE(n, rem_r))]

compressed_rank_pack(cr) == compressed_rank_dump(cr)

\* The same query, on the words of the packed structure.
compressed_rank_query_packed(mem, off, idx) ==
    With(compressed_rank_load(mem, off), LAMBDA cr : compressed_rank_query(cr, idx))
=============================================================================
