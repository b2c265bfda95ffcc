----------------------------- MODULE HttpRanges -----------------------------
(***************************************************************************)
(* httplib::html::parser_http_ranges (src/lib/html.cpp), the validating   *)
(* parser of a Range header against a file of file_size bytes, checked     *)
(* against the byte-range semantics of RFC 7233 over bounded inputs.      *)
(*                                                                         *)
(* A header is abstracted to its shape after trimming: empty, not starting *)
(* with "bytes=", or "bytes=" followed by comma-separated items. An item  *)
(* is the list of its "-"-separated parts, each part a decimal number, an *)
(* empty string, digits followed by other text, or text from_chars        *)
(* rejects. util::split keeps empty      *)
(* tokens (the code's fist_range.empty() test relies on it).               *)
(*                                                                         *)
(* The permissive parser of src/lib/html.cxx is modelled beside it.        *)
(***************************************************************************)
EXTENDS Integers, Sequences

CONSTANTS
    MaxPos,     \* largest number written in a header
    MaxSize,    \* largest file size
    MaxItems,   \* largest number of comma-separated items
    MaxParts    \* largest number of "-"-separated parts in an item

Nums  == 0..MaxPos
Sizes == 0..MaxSize

\* A part of an item.
Num(v)  == [t |-> "num", v |-> v]
EmptyTok == [t |-> "empty", v |-> 0]
BadTok   == [t |-> "bad", v |-> 0]      \* from_chars reports an error
\* Digits followed by other text ("1x"): from_chars reads the digits and
\* stops, and the code does not look at where it stopped.
JunkTok(v) == [t |-> "junk", v |-> v]
Parts == {Num(v) : v \in Nums} \cup {EmptyTok, BadTok, JunkTok(1)}

Items == UNION {[1..k -> Parts] : k \in 1..MaxParts}

Headers ==
    {[kind |-> "empty", items |-> <<>>], [kind |-> "other", items |-> <<>>]}
    \cup {[kind |-> "bytes", items |-> s] :
            s \in UNION {[1..k -> Items] : k \in 1..MaxItems}}

Invalid == [valid |-> FALSE, ranges |-> <<>>]
Valid(rs) == [valid |-> TRUE, ranges |-> rs]

(***************************************************************************)
(* The parser. file_size is a size_t and start/end are ints; for these     *)
(* bounds every size_t expression converted to int keeps its signed value, *)
(* so file_size - 1 at file_size = 0 is the int -1 the code produces.      *)
(***************************************************************************)

\* range_str.find("--"): two dashes are adjacent exactly when a part other
\* than the first and the last of an item is empty.
HasDoubleDash(items) ==
    \E i \in 1..Len(items) :
        \E j \in 2..(Len(items[i]) - 1) : items[i][j] = EmptyTok

\* range_str == "-": a single item made of two empty parts.
IsLoneDash(items) == items = <<<<EmptyTok, EmptyTok>>>>

\* Fault variant of ParseItem: end clamped only when end > file_size.
ParseItemClampPastEnd(it, n) ==
    LET second == IF Len(it) = 1 THEN EmptyTok ELSE it[2]
        start0 == IF it[1] = EmptyTok THEN -1 ELSE it[1].v
        end0   == IF second = EmptyTok THEN n - 1 ELSE second.v
        end1   == IF end0 > 0 /\ end0 > n THEN n - 1 ELSE end0
    IN IF \/ it[1] = BadTok \/ second = BadTok
          \/ start0 > 0 /\ (start0 >= n \/ start0 = end0)
         THEN [ok |-> FALSE, r |-> <<0, 0>>]
         ELSE [ok |-> TRUE,
               r |-> IF start0 = -1 THEN <<n - end1, n - 1>> ELSE <<start0, end1>>]

\* One item: sub_range = split(range, "-"); start from the first part (-1
\* when empty), end from the second (file_size - 1 when absent or empty),
\* then the out-of-range check, the clamp of end, the suffix form.
ParseItem(it, n) ==
    LET first == it[1]
        second == IF Len(it) = 1 THEN EmptyTok ELSE it[2]
    IN IF first = BadTok \/ second = BadTok
         THEN [ok |-> FALSE, r |-> <<0, 0>>]
         ELSE
         LET start0 == IF first = EmptyTok THEN -1 ELSE first.v
             end0   == IF second = EmptyTok THEN n - 1 ELSE second.v
             end1   == IF end0 > 0 /\ end0 >= n THEN n - 1 ELSE end0
         IN IF start0 > 0 /\ (start0 >= n \/ start0 = end0)
              THEN [ok |-> FALSE, r |-> <<0, 0>>]
              ELSE IF start0 = -1
                     THEN [ok |-> TRUE, r |-> <<n - end1, n - 1>>]
                     ELSE [ok |-> TRUE, r |-> <<start0, end1>>]

\* The items left to right; the first invalid item makes the header invalid.
RECURSIVE ParseItems(_, _)
ParseItems(items, n) ==
    IF items = <<>> THEN Valid(<<>>)
    ELSE LET p == ParseItem(Head(items), n)
             rest == ParseItems(Tail(items), n)
         IN IF p.ok /\ rest.valid
              THEN Valid(<<p.r>> \o rest.ranges)
              ELSE Invalid

ParserHttpRanges(h, n) ==
    CASE h.kind = "empty" -> Valid(<<>>)
      [] h.kind = "other" -> Invalid
      [] HasDoubleDash(h.items) -> Invalid
      [] IsLoneDash(h.items) -> Valid(<<<<0, n - 1>>>>)
      [] OTHER -> ParseItems(h.items, n)

(***************************************************************************)
(* The permissive parser of html.cxx: no file size, -1 for an open end or  *)
(* a suffix, and an empty list for anything it rejects. It splits with     *)
(* strutil::split, which is not under src; whether that keeps empty        *)
(* tokens is left open (keep), and the parser is checked for both.         *)
(***************************************************************************)

\* strutil::split(s, "-") of an item.
CxxSplit(it, keep) == IF keep THEN it ELSE SelectSeq(it, LAMBDA p : p # EmptyTok)

\* std::atoll: the leading digits' value ("1x" gives 1), 0 when there are
\* none.
Atoll(p) == IF p.t \in {"num", "junk"} THEN p.v ELSE 0

\* Fault variant of ParseItemCxx: the str.front() == '-' test inverted.
ParseItemCxxFrontInverted(it, keep) ==
    LET r == CxxSplit(it, keep)
        dash == Len(it) > 1 /\ it[1] = EmptyTok
    IN CASE Len(r) = 1 ->
              [ok |-> TRUE, r |-> IF ~dash THEN <<-1, Atoll(r[1])>>
                                           ELSE <<Atoll(r[1]), -1>>]
         [] Len(r) = 2 ->
              [ok |-> TRUE,
               r |-> IF r[1] = EmptyTok /\ r[2] # EmptyTok
                       THEN <<-1, Atoll(r[2])>>
                       ELSE <<Atoll(r[1]), IF r[2] = EmptyTok THEN -1 ELSE Atoll(r[2])>>]
         [] OTHER -> [ok |-> FALSE, r |-> <<0, 0>>]

\* One item: a single number is a suffix when the item starts with '-' and
\* an open range otherwise; two numbers are start and end, an empty end
\* being -1; three or more parts (or none) reject the header.
ParseItemCxx(it, keep) ==
    LET r == CxxSplit(it, keep)
        dash == Len(it) > 1 /\ it[1] = EmptyTok   \* str.front() == '-'
    IN CASE Len(r) = 1 ->
              [ok |-> TRUE, r |-> IF dash THEN <<-1, Atoll(r[1])>>
                                          ELSE <<Atoll(r[1]), -1>>]
         [] Len(r) = 2 ->
              [ok |-> TRUE,
               r |-> IF r[1] = EmptyTok /\ r[2] # EmptyTok
                       THEN <<-1, Atoll(r[2])>>
                       ELSE <<Atoll(r[1]), IF r[2] = EmptyTok THEN -1 ELSE Atoll(r[2])>>]
         [] OTHER -> [ok |-> FALSE, r |-> <<0, 0>>]

RECURSIVE ParseItemsCxx(_, _)
ParseItemsCxx(items, keep) ==
    IF items = <<>> THEN Valid(<<>>)
    ELSE LET p == ParseItemCxx(Head(items), keep)
             rest == ParseItemsCxx(Tail(items), keep)
         IN IF p.ok /\ rest.valid THEN Valid(<<p.r>> \o rest.ranges) ELSE Invalid

\* trim; not "bytes=": empty list; split the rest on ",".
ParserHttpRangesCxx(h, keep) ==
    IF h.kind # "bytes" THEN <<>>
    ELSE LET items == IF keep THEN h.items
                      ELSE SelectSeq(h.items, LAMBDA it : it # <<EmptyTok>>)
             res == ParseItemsCxx(items, keep)
         IN IF res.valid THEN res.ranges ELSE <<>>

(***************************************************************************)
(* Reference: RFC 7233 section 2.1 for a single byte-range-spec.          *)
(***************************************************************************)

\* "a-b" or "a-": satisfiable when a < n; last-byte-pos clamped to n - 1.
RfcFirstByteRange(a, b, n) == <<a, IF b >= n THEN n - 1 ELSE b>>

\* "-k": the last k bytes, all of them when k >= n.
RfcSuffixRange(k, n) == <<IF k >= n THEN 0 ELSE n - k, n - 1>>

\* An item "a-b" or "a-" with a < n that selects more than one byte, or
\* starts at 0. Single-byte ranges at a non-zero offset ("a-a", and "a-"
\* for a = n - 1) are excluded: spec 4.4 declares start == end with a
\* non-zero start invalid, as the code does.
IsSatisfiablePrefixItem(it, n) ==
    /\ Len(it) = 2
    /\ it[1].t = "num" /\ it[1].v < n
    /\ LET a == it[1].v
           b == IF it[2] = EmptyTok THEN n - 1 ELSE it[2].v
       IN /\ it[2] = EmptyTok \/ it[2].t = "num"
          /\ a = 0 \/ a < b

RfcPrefixRange(it, n) ==
    RfcFirstByteRange(it[1].v, IF it[2] = EmptyTok THEN n - 1 ELSE it[2].v, n)

-----------------------------------------------------------------------------
VARIABLES header, fileSize, result, keepEmpty, resultCxx

vars == <<header, fileSize, result, keepEmpty, resultCxx>>

Init ==
    /\ header = [kind |-> "none", items |-> <<>>]
    /\ fileSize = 0
    /\ result = Valid(<<>>)
    /\ keepEmpty = FALSE
    /\ resultCxx = <<>>

\* A request's Range header is parsed against the target file's size, and
\* by the permissive parser.
Parse ==
    /\ header.kind = "none"
    /\ \E h \in Headers, n \in Sizes :
        /\ header' = h
        /\ fileSize' = n
        /\ result' = ParserHttpRanges(h, n)
        /\ \E keep \in BOOLEAN :
              keepEmpty' = keep /\ resultCxx' = ParserHttpRangesCxx(h, keep)

\* The parse is a function of its input: once done, nothing changes.
Parsed ==
    /\ header.kind # "none"
    /\ UNCHANGED vars

Next == Parse \/ Parsed

Spec == Init /\ [][Next]_vars

-----------------------------------------------------------------------------
(***************************************************************************)
(* Properties                                                              *)
(***************************************************************************)

\* For a non-empty file, a header whose every item is a satisfiable
\* first-byte-pos range ("a-b" with a < b, "0-b", or "a-", a < file size)
\* is accepted and yields, item by item and in order, the RFC 7233 range
\* with the last byte clamped to the end of the file. This covers the
\* spec's round trip "bytes=0-(N-1)" = (0, N-1) and multi-range lists.
PrefixRangesAgreeWithRfc ==
    LET n == fileSize
        its == header.items
    IN (/\ header.kind = "bytes" /\ n >= 1
        /\ \A i \in 1..Len(its) : IsSatisfiablePrefixItem(its[i], n))
       => result = Valid([i \in 1..Len(its) |-> RfcPrefixRange(its[i], n)])

\* Every range list the parser accepts is one RFC 7233 lets a server send
\* (spec 8.5: every input yields a valid range list or an explicit
\* invalid): each range lies inside the file with start <= end, and a
\* suffix item "-k" (k >= 1) selects the last k bytes, the whole file when
\* k >= file size; and the item is byte-range-spec syntax, its parts
\* digits or empty, with no text after a number. Ranges are reported item
\* by item, so the i-th range is the i-th item's.
AcceptedRangesAreRfcRanges ==
    result.valid =>
        \A i \in 1..Len(result.ranges) :
            LET r  == result.ranges[i]
                it == header.items[i]
            IN /\ 0 <= r[1] /\ r[1] <= r[2] /\ r[2] < fileSize
               /\ \A j \in 1..Len(it) : it[j].t \in {"num", "empty"}
               /\ (Len(it) = 2 /\ it[1] = EmptyTok /\ it[2].t = "num" /\ it[2].v >= 1)
                    => r = RfcSuffixRange(it[2].v, fileSize)

\* Where the validating parser accepts satisfiable first-byte-pos ranges
\* of a non-empty file, the permissive parser of html.cxx reports the same
\* ranges in the same order: the same start, and the same end except that
\* an open end is its -1 sentinel and an end past the file is left for the
\* caller to clamp (spec 9: the two implementations diverge; on these
\* headers they must not).
CxxAgreesOnPrefixRanges ==
    LET n == fileSize
        its == header.items
    IN (/\ header.kind = "bytes" /\ n >= 1
        /\ \A i \in 1..Len(its) : IsSatisfiablePrefixItem(its[i], n))
       => /\ Len(resultCxx) = Len(result.ranges)
          /\ \A i \in 1..Len(resultCxx) :
                /\ resultCxx[i][1] = result.ranges[i][1]
                /\ \/ resultCxx[i][2] = result.ranges[i][2]
                   \/ /\ resultCxx[i][2] = -1 \/ resultCxx[i][2] >= n
                      /\ result.ranges[i][2] = n - 1

=============================================================================
