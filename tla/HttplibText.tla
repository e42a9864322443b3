----------------------------- MODULE HttplibText ------------------------------
(***************************************************************************)
(* What lesson7/server/httplib.h does to texts: the URL and the parameters *)
(* of a request, the path of a file, Base64, byte ranges, chunks and the   *)
(* names in certificates.  There is no state: the operators are functions  *)
(* of their arguments, and the properties at the end compare them with     *)
(* what they are meant to compute.  A character is its code.               *)
(***************************************************************************)
EXTENDS Integers, Sequences, FiniteSets, SequencesExt, FiniteSetsExt

CONSTANT LineBuffer   \* the size of the fixed buffer of a stream_line_reader

CR == 13
LF == 10
Tab == 9
Space == 32
Hash == 35
Percent == 37
Ampersand == 38
Star == 42
Plus == 43
Dot == 46
Slash == 47
Equals == 61
Question == 63

FlatMap(f(_), s) == FlattenSeq([i \in DOMAIN s |-> f(s[i])])

(***************************************************************************)
(* Fields of a text.                                                       *)
(***************************************************************************)
Fields(s, d) ==
  LET cut == <<0>> \o SelectSeq([i \in DOMAIN s |-> i], LAMBDA i : s[i] = d) \o <<Len(s) + 1>>
  IN  [i \in 1 .. Len(cut) - 1 |-> SubSeq(s, cut[i] + 1, cut[i + 1] - 1)]

Trim(s) ==
  LET ink == {i \in DOMAIN s : s[i] \notin {Space, Tab}}
  IN  IF ink = {} THEN <<>> ELSE SubSeq(s, Min(ink), Max(ink))

NonEmpty(s) == s # <<>>

\* split(): the fields without the blanks around them, and no empty ones.
Split(s, d) ==
  SelectSeq([i \in DOMAIN Fields(s, d) |-> Trim(Fields(s, d)[i])], NonEmpty)

(***************************************************************************)
(* URLs.                                                                   *)
(***************************************************************************)
IsAlnum(c) == c \in (48 .. 57) \cup (65 .. 90) \cup (97 .. 122)

HexUpper(d) == IF d < 10 THEN 48 + d ELSE 55 + d
PercentHex(c) == <<Percent, HexUpper(c \div 16), HexUpper(c % 16)>>

IsHex(c) == c \in (48 .. 57) \cup (65 .. 70) \cup (97 .. 102)
HexValue(c) == IF c <= 57 THEN c - 48 ELSE IF c <= 70 THEN c - 55 ELSE c - 87

HexNumber(s) ==
  LET value[n \in 0 .. Len(s)] == IF n = 0 THEN 0 ELSE 16 * value[n - 1] + HexValue(s[n])
  IN  value[Len(s)]

\* from_hex_to_i(): n digits from position i, or -1.
FromHex(s, i, n) ==
  IF i + n - 1 <= Len(s) /\ \A j \in i .. i + n - 1 : IsHex(s[j])
  THEN HexNumber(SubSeq(s, i, i + n - 1)) ELSE -1

\* Mutant: a percent sign is taken for one that is encoded already.
EncodeQueryParamPercent(s) ==
  FlatMap(LAMBDA c : IF IsAlnum(c) \/ c \in {45, 95, 46, 33, 126, 42, 39, 40, 41, Percent}
                     THEN <<c>> ELSE PercentHex(c), s)

EncodeQueryParam(s) ==
  FlatMap(LAMBDA c : IF IsAlnum(c) \/ c \in {45, 95, 46, 33, 126, 42, 39, 40, 41}
                     THEN <<c>> ELSE PercentHex(c), s)

\* What comes before the first character that is d.
Before(s, d) ==
  LET at == {i \in DOMAIN s : s[i] = d}
  IN  IF at = {} THEN s ELSE SubSeq(s, 1, Min(at) - 1)

\* The characters of a URL: a percent sign stays.
UrlChars(s) ==
  FlatMap(LAMBDA c : IF c \in {Space, Plus, CR, LF, 39, 44, 59} \/ c >= 128
                     THEN PercentHex(c) ELSE <<c>>, s)

\* encode_url() goes as far as the first zero byte.
EncodeUrl(s) == UrlChars(Before(s, 0))

ToUtf8(v) ==
  CASE v < 128                -> <<v>>
    [] v \in 128 .. 2047      -> <<192 + v \div 64, 128 + (v % 64)>>
    [] v \in 55296 .. 57343   -> <<>>
    [] OTHER -> <<224 + v \div 4096, 128 + ((v \div 64) % 64), 128 + (v % 64)>>

\* What decode_url() makes of the text at position i, and of how much of it.
DecodeAt(s, i, plusIsSpace) ==
  LET wide == FromHex(s, i + 2, 4)
      byte == FromHex(s, i + 1, 2)
  IN  IF s[i] = Percent /\ i < Len(s)
      THEN IF s[i + 1] = 117
           THEN IF wide >= 0 THEN [text |-> ToUtf8(wide), size |-> 6]
                             ELSE [text |-> <<s[i]>>, size |-> 1]
           ELSE IF byte >= 0 THEN [text |-> <<byte>>, size |-> 3]
                             ELSE [text |-> <<s[i]>>, size |-> 1]
      ELSE [text |-> <<IF plusIsSpace /\ s[i] = Plus THEN Space ELSE s[i]>>, size |-> 1]

DecodeUrl(s, plusIsSpace) ==
  LET from[i \in 1 .. Len(s) + 1] ==
        IF i > Len(s) THEN <<>>
        ELSE LET d == DecodeAt(s, i, plusIsSpace) IN d.text \o from[i + d.size]
  IN  from[1]

ParamsToQueryStr(params) ==
  FlattenSeq([i \in DOMAIN params |->
    (IF i = 1 THEN <<>> ELSE <<Ampersand>>)
      \o params[i].key \o <<Equals>> \o EncodeQueryParam(params[i].val)])

\* parse_query_text(): a field that has been before is left out.
ParseQueryText(s) ==
  LET fields == FoldLeft(LAMBDA seen, kv : IF Contains(seen, kv) THEN seen ELSE Append(seen, kv),
                         <<>>, Split(s, Ampersand))
      Param(kv) ==
        LET parts == Split(kv, Equals)
        IN  IF parts = <<>> THEN <<>>
            ELSE <<[key |-> DecodeUrl(parts[1], TRUE),
                    val |-> IF Len(parts) = 1 THEN <<>> ELSE DecodeUrl(Last(parts), TRUE)]>>
  IN  FlatMap(Param, fields)

\* The target in parse_request_line(): a fragment is dropped, and a second
\* question mark with something behind it refused.
ParseTarget(s) ==
  LET parts == Split(Before(s, Hash), Question)
  IN  [ok |-> Len(parts) <= 2,
       path |-> IF parts = <<>> THEN <<>> ELSE DecodeUrl(parts[1], FALSE),
       params |-> IF Len(parts) <= 1 THEN <<>> ELSE ParseQueryText(parts[2])]

(***************************************************************************)
(* Paths of files.                                                         *)
(***************************************************************************)
Components(s) == SelectSeq(Fields(s, Slash), NonEmpty)

\* Mutant: "." counts as a directory.
LevelOfDot(level, c) ==
  IF level < 0 THEN level ELSE IF c = <<Dot, Dot>> THEN level - 1 ELSE level + 1

Level(level, c) ==
  IF level < 0 \/ c = <<Dot>> THEN level ELSE IF c = <<Dot, Dot>> THEN level - 1 ELSE level + 1

IsValidPath(s) == FoldLeft(Level, 0, Components(s)) >= 0

(***************************************************************************)
(* Base64: the index of each character in the alphabet, 64 for "=".  Only  *)
(* the last 12 bits of val are ever looked at, so 20 are kept.             *)
(***************************************************************************)
Base64Last(st) ==
  IF st.valb > -6 THEN Append(st.out, ((st.val * 256) \div 2^(st.valb + 8)) % 64) ELSE st.out

Base64Encode(s) ==
  LET Sextet(v, b) == (v \div 2^b) % 64
      Step(st, c) ==
        LET v == (st.val * 256 + c) % 2^20
            b == st.valb + 8
            n == b \div 6 + 1                    \* turns of the inner loop
        IN  [val |-> v, valb |-> b - 6 * n,
             out |-> st.out \o [i \in 1 .. n |-> Sextet(v, b - 6 * (i - 1))]]
      text == Base64Last(FoldLeft(Step, [val |-> 0, valb |-> -6, out |-> <<>>], s))
  IN  text \o [i \in 1 .. (4 - (Len(text) % 4)) % 4 |-> 64]

(***************************************************************************)
(* Byte ranges; -1 is a number that is not there.                          *)
(***************************************************************************)
GetRangeOffsetAndLength(first, last, size) ==
  LET f == IF first = -1 THEN Max({0, size - last}) ELSE first
      l == IF first = -1 \/ last = -1 THEN size - 1 ELSE last
  IN  IF first = -1 /\ last = -1 THEN [offset |-> 0, length |-> size]
      ELSE [offset |-> f, length |-> l - f + 1]

\* apply_ranges() for a body and one range.
ApplyRange(body, first, last) ==
  LET r == GetRangeOffsetAndLength(first, last, Len(body))
  IN  IF r.offset < Len(body)
      THEN [status |-> 206,
            body |-> SubSeq(body, r.offset + 1, Min({Len(body), r.offset + r.length}))]
      ELSE [status |-> 416, body |-> <<>>]

(***************************************************************************)
(* Chunks, read line by line.                                              *)
(***************************************************************************)
CRLF == <<CR, LF>>

FromIToHex(n) ==
  LET digits[k \in 0 .. n] ==
        LET d == IF k % 16 < 10 THEN 48 + (k % 16) ELSE 87 + (k % 16)
        IN  IF k < 16 THEN <<d>> ELSE Append(digits[k \div 16], d)
  IN  digits[n]

\* What write_content_chunked() writes for a provider that gives it one piece a
\* call, and then calls done(): a write() of nothing ends it before, and without
\* the last chunk.
WriteChunked(pieces) ==
  FlatMap(LAMBDA p : FromIToHex(Len(p)) \o CRLF \o p \o CRLF, Before(pieces, <<>>))
  \o IF Contains(pieces, <<>>) THEN <<>> ELSE <<48>> \o CRLF \o CRLF

\* Mutant: the growable buffer begins without what is in the fixed one.
AppendCharForgets(st, c) ==
  IF Len(st.fixed) < LineBuffer - 1 THEN [st EXCEPT !.fixed = Append(@, c)]
  ELSE [st EXCEPT !.growable = Append(@, c)]

\* append() of a stream_line_reader.
AppendChar(st, c) ==
  IF Len(st.fixed) < LineBuffer - 1 THEN [st EXCEPT !.fixed = Append(@, c)]
  ELSE [st EXCEPT !.growable = Append(IF @ = <<>> THEN st.fixed ELSE @, c)]

\* getline() from position i: what ptr() is then, and where the next begins.
GetLine(s, i) ==
  LET ends == {j \in i .. Len(s) : s[j] = LF}
      next == 1 + IF ends = {} THEN Len(s) ELSE Min(ends)
      st == FoldLeft(AppendChar, [fixed |-> <<>>, growable |-> <<>>], SubSeq(s, i, next - 1))
  IN  [ok |-> i <= Len(s), next |-> next,
       text |-> IF st.growable = <<>> THEN st.fixed ELSE st.growable]

\* strtoul(): the number at the beginning of a line.
ChunkLength(line) ==
  LET others == {j \in DOMAIN line : ~IsHex(line[j])}
      n == (IF others = {} THEN Len(line) + 1 ELSE Min(others)) - 1
  IN  IF n = 0 THEN -1 ELSE HexNumber(SubSeq(line, 1, n))

ReadContentChunked(s) ==
  LET bad == [ok |-> FALSE, data |-> <<>>, next |-> 0]
      from[i \in 1 .. Len(s) + 1] ==
        LET line == GetLine(s, i)
            n == ChunkLength(line.text)
            end == GetLine(s, line.next + Max({n, 0}))
        IN  CASE ~line.ok \/ n = -1 -> bad
              [] n = 0 -> IF end.ok /\ end.text = CRLF
                          THEN [ok |-> TRUE, data |-> <<>>, next |-> end.next] ELSE bad
              [] n > 0 /\ ~end.ok -> bad
              [] OTHER ->
                   LET data == SubSeq(s, line.next, line.next + n - 1)
                   IN  IF end.text # CRLF THEN [ok |-> TRUE, data |-> data, next |-> end.next]
                       ELSE [from[end.next] EXCEPT !.data = data \o @]
  IN  from[1]

(***************************************************************************)
(* Names in certificates.                                                  *)
(***************************************************************************)
\* Mutant: a pattern may have fewer components than the name.
SameDepthAtLeast(h, p) == Len(h) >= Len(p)

SameDepth(h, p) == Len(h) = Len(p)

CheckHostName(pattern, host) ==
  LET p == Split(pattern, Dot)
      h == Split(host, Dot)
  IN  \/ pattern = host
      \/ /\ SameDepth(h, p)
         /\ \A i \in DOMAIN p :
              \/ p[i] \in {h[i], <<Star>>}
              \/ Last(p[i]) = Star /\ Front(p[i]) = h[i]

-----------------------------------------------------------------------------
Pair(key, val) == [key |-> key, val |-> val]

\* The server gets the path and the parameters that the client was given: what
\* encode_query_param(), encode_url(), decode_url() and split() do to each
\* character adds up to nothing, whatever the values are.  In the path,
\* encode_url() leaves %, # and ? as they are and stops at a zero byte, and
\* split() trims a tab at its end: it has none of these.
RequestSurvives(word, other) ==
  LET params == <<Pair(<<97>>, word), Pair(<<98>>, other)>>
      path == <<Slash>> \o SelectSeq(word, LAMBDA c : c \notin {0, Tab, Hash, Percent, Question})
      got == ParseTarget(EncodeUrl(path \o <<Question>> \o ParamsToQueryStr(params)))
  IN  got = [ok |-> TRUE, path |-> path, params |-> params]

\* is_valid_path() says yes exactly if the path never leaves the directory it
\* starts in, however the slashes and the dots are put.
PathStaysBelow(word) ==
  LET c == Components(word)
      Count(k, S) == Cardinality({i \in 1 .. k : c[i] \in S})
      names == ToSet(c) \ {<<Dot>>, <<Dot, Dot>>}
  IN  IsValidPath(word) <=> \A k \in DOMAIN c : Count(k, {<<Dot, Dot>>}) <= Count(k, names)

\* base64_encode() is that of RFC 4648: six bits a character, in their order,
\* zeros behind the last, and = up to a multiple of four.
Base64IsRfc(word) ==
  LET bit(j) == IF j \div 8 < Len(word) THEN (word[j \div 8 + 1] \div 2^(7 - (j % 8))) % 2 ELSE 0
      sextet(k) == 32 * bit(6*k) + 16 * bit(6*k + 1) + 8 * bit(6*k + 2)
                     + 4 * bit(6*k + 3) + 2 * bit(6*k + 4) + bit(6*k + 5)
  IN  Base64Encode(word) =
        [k \in 1 .. 4 * ((Len(word) + 2) \div 3) |->
           IF 6 * (k - 1) < 8 * Len(word) THEN sextet(k - 1) ELSE 64]

\* A range is answered with the bytes it names, those of them that exist; with
\* 416 if there are none.  One without any number names all of them.
RangeIsAnswered(word, first, last) ==
  LET asked == {i \in DOMAIN word :
                  IF first = -1 THEN last = -1 \/ i > Len(word) - last
                  ELSE i > first /\ (last = -1 \/ i <= last + 1)}
  IN  ApplyRange(word, first, last) =
        IF asked = {} THEN [status |-> 416, body |-> <<>>]
        ELSE [status |-> 206, body |-> SubSeq(word, Min(asked), Max(asked))]

\* The ranges that parse_range_header() lets through.
IsRange(first, last) == first # -1 /\ last # -1 => first <= last

RangeIsSlice(word) ==
  \A first, last \in -1 .. Len(word) + 2 :
    IsRange(first, last) => RangeIsAnswered(word, first, last)

\* A content in chunks arrives as it was, whatever it contains and wherever it
\* is cut, and nothing is read of what follows it; content that a provider ends
\* by writing nothing is not taken for whole.
ChunksArrive(word, other) ==
  \A k \in 0 .. Len(word) :
    LET long == FlattenSeq([i \in 1 .. 5 |-> word])
        pieces == <<SubSeq(word, 1, k), SubSeq(word, k + 1, Len(word)), long>>
        sent == WriteChunked(SelectSeq(pieces, NonEmpty))
    IN  /\ ReadContentChunked(sent \o other) =
             [ok |-> TRUE, data |-> word \o long, next |-> Len(sent) + 1]
        /\ Contains(pieces, <<>>) => ~ReadContentChunked(WriteChunked(pieces)).ok

WellFormed(s) == s # <<>> /\ \A i \in DOMAIN Fields(s, Dot) : Fields(s, Dot)[i] # <<>>

\* RFC 2818, quoted in verify_host(): * is any component or fragment of one.
Fits(p, h) ==
  \/ p = h
  \/ \E i \in DOMAIN p :
       /\ p[i] = Star
       /\ Len(h) >= Len(p) - 1
       /\ SubSeq(p, 1, i - 1) = SubSeq(h, 1, i - 1)
       /\ SubSeq(p, i + 1, Len(p)) = SubSeq(h, Len(h) - (Len(p) - i) + 1, Len(h))

Names(pattern, host) ==
  LET p == Fields(pattern, Dot)
      h == Fields(host, Dot)
  IN  Len(p) = Len(h) /\ \A i \in DOMAIN p : Fits(p[i], h[i])

\* A host name is accepted only if the pattern names it.  (Not if: a fragment
\* as in "f*.com" is compared with the whole component.)
HostIsNamed(pattern, host) ==
  WellFormed(pattern) /\ WellFormed(host) /\ ~Contains(host, Star) =>
    (CheckHostName(pattern, host) => Names(pattern, host))
==============================================================================
