------------------------- MODULE LineSession_proofs -------------------------
(***************************************************************************)
(* Theorems about LineSession and its settings, for any texts, any length  *)
(* of the buffers, any set of words and any files: the types; that every   *)
(* line goes to the handler of its first word; that lines arrive complete, *)
(* in order and once, up to the first that is too long; and that a file of *)
(* pairs becomes the settings it describes.                                *)
(***************************************************************************)
EXTENDS LineSession, LeastNumber, SequenceTheorems, FiniteSetTheorems, TLAPS

-----------------------------------------------------------------------------
(* Strings                                                                 *)

\* The first word ends at the first delimiter.
LEMMA WordEndOK ==
  ASSUME NEW s \in Seq(STRING)
  PROVE  /\ WordEnd(s) \in 1 .. (Len(s) + 1)
         /\ \A j \in 1 .. (WordEnd(s) - 1) : s[j] \notin Delimiters
         /\ WordEnd(s) <= Len(s) => s[WordEnd(s)] \in Delimiters
PROOF
<1> DEFINE S == {i \in 1 .. Len(s) : s[i] \in Delimiters}
<1>0. Len(s) \in Nat
  BY LenProperties
<1>1. CASE S = {}
  <2>1. WordEnd(s) = Len(s) + 1
    BY <1>1 DEF WordEnd
  <2> QED BY <1>0, <1>1, <2>1
<1>2. CASE S # {}
  <2>1. PICK n \in S : \A m \in S : n <= m
    <3>1. S \in SUBSET Nat
      BY <1>0
    <3> QED BY <1>2, <3>1, LeastExists
  <2>2. \A j \in 1 .. (n - 1) : s[j] \notin Delimiters
    BY <1>0, <2>1
  <2>3. WordEnd(s) = CHOOSE i \in 1 .. Len(s) :
          s[i] \in Delimiters /\ \A j \in 1 .. (i - 1) : s[j] \notin Delimiters
    BY <1>2 DEF WordEnd
  <2> QED BY <1>0, <2>1, <2>2, <2>3
<1> QED BY <1>1, <1>2

\* The next word starts behind the delimiters.
LEMMA NextWordStartOK ==
  ASSUME NEW s \in Seq(STRING)
  PROVE  /\ NextWordStart(s) \in WordEnd(s) .. (Len(s) + 1)
         /\ \A j \in WordEnd(s) .. (NextWordStart(s) - 1) : s[j] \in Delimiters
         /\ NextWordStart(s) <= Len(s) => s[NextWordStart(s)] \notin Delimiters
PROOF
<1> DEFINE e == WordEnd(s)
           S == {i \in e .. Len(s) : s[i] \notin Delimiters}
<1>0. Len(s) \in Nat /\ e \in 1 .. (Len(s) + 1)
  BY LenProperties, WordEndOK
<1>3. NextWordStart(s) =
        IF S # {}
          THEN CHOOSE i \in e .. Len(s) :
                 /\ s[i] \notin Delimiters
                 /\ \A j \in e .. (i - 1) : s[j] \in Delimiters
          ELSE Len(s) + 1
  BY DEF NextWordStart
<1> HIDE DEF e
<1>1. CASE S = {}
  BY <1>0, <1>1, <1>3 DEF e
<1>2. CASE S # {}
  <2>1. PICK n \in S : \A m \in S : n <= m
    <3>1. S \in SUBSET Nat
      BY <1>0
    <3> QED BY <1>2, <3>1, LeastExists
  <2>2. \A j \in e .. (n - 1) : s[j] \in Delimiters
    BY <1>0, <2>1
  <2> QED BY <1>0, <1>2, <1>3, <2>1, <2>2 DEF e
<1> QED BY <1>1, <1>2

\* What is cut out of a string is a string that is no longer.
LEMMA SubStringOK ==
  ASSUME NEW s \in Seq(STRING), NEW m \in 1 .. (Len(s) + 1),
         NEW n \in 0 .. Len(s), n >= m - 1
  PROVE  /\ SubSeq(s, m, n) \in Seq(STRING)
         /\ Len(SubSeq(s, m, n)) = n - m + 1
         /\ \A i \in 1 .. (n - m + 1) : SubSeq(s, m, n)[i] = s[m + i - 1]
PROOF
<1>1. Len(s) \in Nat /\ \A i \in 1 .. Len(s) : s[i] \in STRING
  BY LenProperties, ElementOfSeq
<1>2. \A i \in m .. n : s[i] \in STRING
  BY <1>1
<1>3. m \in Int /\ n \in Int /\ m <= n + 1
  BY <1>1
<1>4. /\ SubSeq(s, m, n) \in Seq(STRING)
      /\ Len(SubSeq(s, m, n)) = IF m <= n THEN n - m + 1 ELSE 0
      /\ \A i \in 1 .. (n - m + 1) : SubSeq(s, m, n)[i] = s[m + i - 1]
  BY <1>2, <1>3, SubSeqProperties
<1> QED BY <1>3, <1>4

\* What is before the zero is a string that is no longer.
LEMMA CStringOK ==
  ASSUME NEW s \in Seq(STRING)
  PROVE  CString(s) \in Seq(STRING) /\ Len(CString(s)) <= Len(s)
PROOF
<1> DEFINE S == {i \in 1 .. Len(s) : s[i] = NUL}
           First0 == CHOOSE i \in 1 .. Len(s) :
                       s[i] = NUL /\ \A j \in 1 .. (i - 1) : s[j] # NUL
<1>0. Len(s) \in Nat
  BY LenProperties
<1>1. CASE S = {}
  BY <1>0, <1>1 DEF CString
<1>2. CASE S # {}
  <2>1. PICK n \in S : \A m \in S : n <= m
    <3>1. S \in SUBSET Nat
      BY <1>0
    <3> QED BY <1>2, <3>1, LeastExists
  <2>2. \A j \in 1 .. (n - 1) : s[j] # NUL
    BY <1>0, <2>1
  <2>3. First0 \in 1 .. Len(s)
    BY <2>1, <2>2
  <2>4. CString(s) = SubSeq(s, 1, First0 - 1)
    BY <1>2 DEF CString
  <2> HIDE DEF First0
  <2>5. /\ SubSeq(s, 1, First0 - 1) \in Seq(STRING)
        /\ Len(SubSeq(s, 1, First0 - 1)) = First0 - 1
    <3>1. /\ 1 \in 1 .. (Len(s) + 1) /\ First0 - 1 \in 0 .. Len(s)
          /\ First0 - 1 >= 1 - 1
      BY <1>0, <2>3
    <3> DEFINE n1 == First0 - 1
    <3>2. n1 \in 0 .. Len(s) /\ n1 >= 1 - 1
      BY <3>1
    <3> HIDE DEF n1
    <3>3. /\ SubSeq(s, 1, n1) \in Seq(STRING)
          /\ Len(SubSeq(s, 1, n1)) = n1 - 1 + 1
      BY <3>1, <3>2, SubStringOK
    <3> QED BY <2>3, <3>3 DEF n1
  <2> QED BY <1>0, <2>3, <2>4, <2>5
<1> QED BY <1>1, <1>2

\* With the terminator in its last byte, a buffer holds no more.
LEMMA TerminatedOK ==
  ASSUME NEW s \in Seq(STRING)
  PROVE  Terminated(s) \in Seq(STRING) /\ Len(Terminated(s)) < MAX_LINE_LENGTH
PROOF
<1> DEFINE n == IF Len(s) < MAX_LINE_LENGTH THEN Len(s)
                  ELSE MAX_LINE_LENGTH - 1
<1>1. Len(s) \in Nat
  BY LenProperties
<1>2. /\ 1 \in 1 .. (Len(s) + 1) /\ n \in 0 .. Len(s) /\ n >= 1 - 1
      /\ n < MAX_LINE_LENGTH
  BY <1>1, LineAssumption
<1>3. Terminated(s) = SubSeq(s, 1, n)
  BY DEF Terminated
<1> HIDE DEF n
<1>4. SubSeq(s, 1, n) \in Seq(STRING) /\ Len(SubSeq(s, 1, n)) = n - 1 + 1
  BY <1>2, SubStringOK
<1> QED BY <1>2, <1>3, <1>4, <1>1

LEMMA CutOK ==
  ASSUME NEW s \in Seq(STRING)
  PROVE  Cut(s) \in Seq(STRING)
PROOF
<1> DEFINE n == IF Len(s) <= MAX_LINE_LENGTH - 2 THEN Len(s)
                  ELSE MAX_LINE_LENGTH - 2
<1>1. Len(s) \in Nat
  BY LenProperties
<1>2. /\ 1 \in 1 .. (Len(s) + 1) /\ n \in 0 .. Len(s) /\ n >= 1 - 1
  BY <1>1, LineAssumption
<1>3. Cut(s) = SubSeq(s, 1, n)
  BY DEF Cut
<1> HIDE DEF n
<1> QED BY <1>2, <1>3, SubStringOK

-----------------------------------------------------------------------------
(* A line and its handler                                                  *)

\* What session_thread looks up for a line and hands over with it.
Dispatched(l) ==
  /\ l.handler = handler_for_command(CommandName(l.text))
  /\ l.rest = remainder_of_string(l.text, NextWordStart(l.text))

Line ==
  [text : Seq(STRING), handler : Handlers \union {NoHandler},
   rest : Seq(STRING), garbled : BOOLEAN]

\* The words a line may begin with.
BeginsWith(s, w) ==
  /\ Len(w) <= Len(s) /\ SubSeq(s, 1, Len(w)) = w
  /\ Len(w) < Len(s) => s[Len(w) + 1] \in Delimiters

\* The first word and what it is.
LEMMA FirstWord ==
  ASSUME NEW s \in Seq(STRING)
  PROVE  /\ next_word(s) \in Seq(STRING)
         /\ BeginsWith(s, next_word(s))
PROOF
<1> DEFINE n == WordEnd(s) - 1
<1>1. Len(s) \in Nat
  BY LenProperties
<1>2. /\ 1 \in 1 .. (Len(s) + 1) /\ n \in 0 .. Len(s) /\ n >= 1 - 1
      /\ n < Len(s) => s[n + 1] \in Delimiters
  BY <1>1, WordEndOK
<1>3. next_word(s) = SubSeq(s, 1, n)
  BY DEF next_word
<1> HIDE DEF n
<1>4. SubSeq(s, 1, n) \in Seq(STRING) /\ Len(SubSeq(s, 1, n)) = n - 1 + 1
  BY <1>2, SubStringOK
<1>5. Len(next_word(s)) = n
  BY <1>1, <1>2, <1>3, <1>4
<1> QED BY <1>1, <1>2, <1>3, <1>4, <1>5 DEF BeginsWith

\* A line begins with no other word that has a handler.
LEMMA OnlyWord ==
  ASSUME NEW s \in Seq(STRING), NEW w \in Handlers, BeginsWith(s, w)
  PROVE  w = next_word(s)
PROOF
<1>1. /\ Len(s) \in Nat /\ Len(w) \in Nat /\ w \in Seq(STRING)
      /\ \A i \in 1 .. Len(w) : w[i] \notin Delimiters
  BY LenProperties, HandlersAssumption
<1>2. Len(w) <= Len(s) /\ SubSeq(s, 1, Len(w)) = w
  BY DEF BeginsWith
<1>3. \A i \in 1 .. Len(w) : s[i] = w[i]
  <2>1. /\ 1 \in 1 .. (Len(s) + 1) /\ Len(w) \in 0 .. Len(s)
        /\ Len(w) >= 1 - 1
    BY <1>1, <1>2
  <2>2. \A i \in 1 .. (Len(w) - 1 + 1) :
          SubSeq(s, 1, Len(w))[i] = s[1 + i - 1]
    BY <2>1, SubStringOK
  <2> QED BY <1>1, <1>2, <2>2
<1>4. Len(w) < Len(s) => s[Len(w) + 1] \in Delimiters
  BY DEF BeginsWith
<1>5. /\ WordEnd(s) \in 1 .. (Len(s) + 1)
      /\ \A j \in 1 .. (WordEnd(s) - 1) : s[j] \notin Delimiters
      /\ WordEnd(s) <= Len(s) => s[WordEnd(s)] \in Delimiters
  BY WordEndOK
<1>6. Len(w) = WordEnd(s) - 1
  <2>1. ~ (Len(w) < WordEnd(s) - 1)
    <3>1. SUFFICES ASSUME Len(w) < WordEnd(s) - 1 PROVE FALSE
      OBVIOUS
    <3>2. Len(w) + 1 \in 1 .. (WordEnd(s) - 1) /\ Len(w) < Len(s)
      BY <1>1, <1>5, <3>1
    <3> QED BY <1>4, <1>5, <3>2
  <2>2. ~ (Len(w) > WordEnd(s) - 1)
    <3>1. SUFFICES ASSUME Len(w) > WordEnd(s) - 1 PROVE FALSE
      OBVIOUS
    <3>2. WordEnd(s) \in 1 .. Len(w) /\ WordEnd(s) <= Len(s)
      BY <1>1, <1>2, <1>5, <3>1
    <3>3. s[WordEnd(s)] = w[WordEnd(s)]
      BY <1>3, <3>2
    <3> QED BY <1>1, <1>5, <3>2, <3>3
  <2> QED BY <1>1, <1>5, <2>1, <2>2
<1> QED BY <1>2, <1>6 DEF next_word

\* A line that is dispatched as session_thread does it has gone to the
\* handler of the word it begins with, or to that of *.
LEMMA HandlerOfFirstWord ==
  ASSUME NEW l \in Line, Dispatched(l)
  PROVE  LET named == {w \in Handlers : BeginsWith(l.text, w)}
         IN  IF named # {} THEN l.handler \in named ELSE l.handler = Star
PROOF
<1> DEFINE s == l.text
           named == {w \in Handlers : BeginsWith(s, w)}
<1>1. s \in Seq(STRING)
  BY DEF Line
<1>2. l.handler = IF next_word(s) \in Handlers THEN next_word(s) ELSE Star
  BY HandlersAssumption DEF Dispatched, handler_for_command, CommandName
<1>3. CASE next_word(s) \in Handlers
  <2>1. next_word(s) \in named
    BY <1>1, <1>3, FirstWord
  <2> QED BY <1>2, <1>3, <2>1
<1>4. CASE next_word(s) \notin Handlers
  <2>1. named = {}
    BY <1>1, <1>4, OnlyWord
  <2> QED BY <1>2, <1>4, <2>1
<1> QED BY <1>3, <1>4

\* Its arguments are what comes behind the delimiters.
LEMMA ArgumentsOfLine ==
  ASSUME NEW l \in Line, Dispatched(l)
  PROVE  LET s == l.text IN
         \E j, k \in 0 .. Len(s) :
           /\ j <= k
           /\ \A c \in 1 .. j : s[c] \notin Delimiters
           /\ \A c \in (j + 1) .. k : s[c] \in Delimiters
           /\ k < Len(s) => k > j /\ s[k + 1] \notin Delimiters
           /\ l.rest = SubSeq(s, k + 1, Len(s))
PROOF
<1> DEFINE s == l.text
           e == WordEnd(s)
           n == NextWordStart(s)
<1>1. s \in Seq(STRING) /\ Len(s) \in Nat
  BY LenProperties DEF Line
<1>2. /\ e \in 1 .. (Len(s) + 1)
      /\ \A c \in 1 .. (e - 1) : s[c] \notin Delimiters
      /\ e <= Len(s) => s[e] \in Delimiters
  BY <1>1, WordEndOK
<1>3. /\ n \in e .. (Len(s) + 1)
      /\ \A c \in e .. (n - 1) : s[c] \in Delimiters
      /\ n <= Len(s) => s[n] \notin Delimiters
  BY <1>1, NextWordStartOK
<1>4. l.rest = SubSeq(s, n, Len(s))
  BY DEF Dispatched, remainder_of_string
<1> HIDE DEF e, n, s
<1> DEFINE j1 == e - 1
           k1 == n - 1
<1>5. /\ j1 \in 0 .. Len(s) /\ k1 \in 0 .. Len(s) /\ j1 <= k1
      /\ j1 + 1 = e /\ k1 + 1 = n
  BY <1>1, <1>2, <1>3
<1>6. k1 < Len(s) => k1 > j1 /\ s[k1 + 1] \notin Delimiters
  BY <1>1, <1>2, <1>3
<1>7. /\ \A c \in 1 .. j1 : s[c] \notin Delimiters
      /\ \A c \in (j1 + 1) .. k1 : s[c] \in Delimiters
  BY <1>2, <1>3, <1>5
<1>8. l.rest = SubSeq(s, k1 + 1, Len(s))
  BY <1>4, <1>5
<1> HIDE DEF j1, k1
<1>9. \E j, k \in 0 .. Len(s) :
        /\ j <= k
        /\ \A c \in 1 .. j : s[c] \notin Delimiters
        /\ \A c \in (j + 1) .. k : s[c] \in Delimiters
        /\ k < Len(s) => k > j /\ s[k + 1] \notin Delimiters
        /\ l.rest = SubSeq(s, k + 1, Len(s))
  BY <1>5, <1>6, <1>7, <1>8
<1> QED BY <1>9 DEF s

-----------------------------------------------------------------------------
(* The invariant                                                           *)

\* The lines that were handed to handlers.
LinesOK(ls) ==
  /\ ls \in Seq(Line)
  /\ \A i \in 1 .. Len(ls) :
       Len(ls[i].text) < MAX_LINE_LENGTH /\ Dispatched(ls[i])

\* readln leaves room for the terminating zero.
LineInv ==
  /\ receiver \in {"server", "client"}
  /\ connection \in {"opening", "up", "ended", "failed", "closed"}
  /\ stream \in Seq(STRING)
  /\ buffer \in Seq(STRING) /\ Len(buffer) <= MAX_LINE_LENGTH
  /\ receiver = "server" => Len(buffer) < MAX_LINE_LENGTH
  /\ LinesOK(lines)
  /\ sent \in Seq([text : Seq(STRING), bytes : Seq(STRING)])
  /\ Len(sent) <= MaxLines

\* It holds after a step when its parts do.
LEMMA LineInvAfter ==
  ASSUME /\ receiver' \in {"server", "client"}
         /\ connection' \in {"opening", "up", "ended", "failed", "closed"}
         /\ stream' \in Seq(STRING)
         /\ buffer' \in Seq(STRING) /\ Len(buffer') <= MAX_LINE_LENGTH
         /\ receiver' = "server" => Len(buffer') < MAX_LINE_LENGTH
         /\ LinesOK(lines')
         /\ sent' \in Seq([text : Seq(STRING), bytes : Seq(STRING)])
         /\ Len(sent') <= MaxLines
  PROVE  LineInv'
BY DEF LineInv, LinesOK

\* One more line.
LEMMA HandleOK ==
  ASSUME LinesOK(lines), NEW s \in Seq(STRING), Len(s) < MAX_LINE_LENGTH,
         NEW garbled \in BOOLEAN, Handle(s, garbled)
  PROVE  LinesOK(lines')
PROOF
<1> DEFINE l == [text |-> s, handler |-> handler_for_command(CommandName(s)),
                 rest |-> remainder_of_string(s, NextWordStart(s)),
                 garbled |-> garbled]
<1>1. remainder_of_string(s, NextWordStart(s)) \in Seq(STRING)
  <2> DEFINE n == NextWordStart(s)
  <2>1. Len(s) \in Nat
    BY LenProperties
  <2>2. n \in 1 .. (Len(s) + 1)
    BY <2>1, WordEndOK, NextWordStartOK
  <2> HIDE DEF n
  <2>3. Len(s) \in 0 .. Len(s) /\ Len(s) >= n - 1
    BY <2>1, <2>2
  <2>4. SubSeq(s, n, Len(s)) \in Seq(STRING)
    BY <2>2, <2>3, SubStringOK
  <2> QED BY <2>4 DEF n, remainder_of_string
<1>2. handler_for_command(CommandName(s)) \in Handlers \union {NoHandler}
  BY DEF handler_for_command
<1>3. l \in Line /\ l.text = s /\ Dispatched(l)
  BY <1>1, <1>2 DEF Line, Dispatched
<1>4. lines' = Append(lines, l)
  BY DEF Handle
<1> HIDE DEF l
<1>5. lines \in Seq(Line)
  BY DEF LinesOK
<1>6. /\ lines' \in Seq(Line) /\ Len(lines') = Len(lines) + 1
      /\ \A i \in 1 .. Len(lines) : lines'[i] = lines[i]
      /\ lines'[Len(lines) + 1] = l
  BY <1>3, <1>4, <1>5, AppendProperties
<1>7. Len(lines) \in Nat
  BY <1>5, LenProperties
<1>8. ASSUME NEW i \in 1 .. Len(lines')
      PROVE  Len(lines'[i].text) < MAX_LINE_LENGTH /\ Dispatched(lines'[i])
  <2>1. CASE i \in 1 .. Len(lines)
    BY <1>6, <2>1 DEF LinesOK
  <2>2. CASE i = Len(lines) + 1
    BY <1>3, <1>6, <2>2
  <2> QED BY <1>6, <1>7, <2>1, <2>2
<1> QED BY <1>6, <1>8 DEF LinesOK

\* One more line on its way.
LEMMA SendOK ==
  ASSUME LineInv, NEW text \in Seq(STRING), NEW bytes \in Seq(STRING),
         SendBytes(text, bytes)
  PROVE  LineInv'
PROOF
<1>1. stream' \in Seq(STRING)
  BY ConcatProperties DEF LineInv, SendBytes
<1>2. /\ sent' \in Seq([text : Seq(STRING), bytes : Seq(STRING)])
      /\ Len(sent') = Len(sent) + 1 /\ Len(sent) \in Nat
  BY AppendProperties, LenProperties DEF LineInv, SendBytes
<1>3. Len(sent') <= MaxLines
  BY <1>2, LineAssumption DEF SendBytes
<1>4. UNCHANGED <<receiver, connection, buffer, lines>>
  BY DEF SendBytes
<1>5. LinesOK(lines')
  BY <1>4 DEF LineInv
<1>6. /\ receiver' \in {"server", "client"}
      /\ connection' \in {"opening", "up", "ended", "failed", "closed"}
      /\ buffer' \in Seq(STRING) /\ Len(buffer') <= MAX_LINE_LENGTH
      /\ receiver' = "server" => Len(buffer') < MAX_LINE_LENGTH
  BY <1>4 DEF LineInv
<1> QED BY <1>1, <1>2, <1>3, <1>5, <1>6, LineInvAfter

\* One byte is read.
LEMMA ReadOK ==
  ASSUME LineInv, NEW by, Read(by)
  PROVE  /\ Byte \in STRING /\ stream' \in Seq(STRING)
         /\ UNCHANGED <<receiver, connection, sent>>
PROOF
BY HeadTailProperties DEF LineInv, Read, Byte

LEMMA LineInvInit ==
  Init => LineInv
PROOF
<1> SUFFICES ASSUME Init PROVE LineInv
  OBVIOUS
<1>1. Len(lines) = 0 /\ Len(buffer) = 0 /\ Len(sent) = 0
  BY EmptySeq DEF Init
<1>2. LinesOK(lines)
  BY <1>1, EmptySeq DEF Init, LinesOK
<1>3. /\ stream \in Seq(STRING) /\ buffer \in Seq(STRING)
      /\ sent \in Seq([text : Seq(STRING), bytes : Seq(STRING)])
  BY EmptySeq DEF Init
<1> QED BY <1>1, <1>2, <1>3, LineAssumption DEF Init, LineInv

LEMMA LineInvNext ==
  LineInv /\ [Next]_vars => LineInv'
PROOF
<1> SUFFICES ASSUME LineInv, [Next]_vars PROVE LineInv'
  OBVIOUS
<1>0. /\ receiver \in {"server", "client"}
      /\ connection \in {"opening", "up", "ended", "failed", "closed"}
      /\ stream \in Seq(STRING)
      /\ buffer \in Seq(STRING) /\ Len(buffer) <= MAX_LINE_LENGTH
      /\ receiver = "server" => Len(buffer) < MAX_LINE_LENGTH
      /\ LinesOK(lines)
      /\ sent \in Seq([text : Seq(STRING), bytes : Seq(STRING)])
      /\ Len(sent) <= MaxLines
  BY DEF LineInv
<1>n. Len(buffer) \in Nat /\ MAX_LINE_LENGTH \in Nat /\ MAX_LINE_LENGTH > 2
  BY <1>0, LenProperties, LineAssumption
<1>e. /\ <<>> \in Seq(STRING)
      /\ Len(<<>>) <= MAX_LINE_LENGTH /\ Len(<<>>) < MAX_LINE_LENGTH
  BY <1>n, EmptySeq
<1>f. ASSUME /\ receiver' \in {"server", "client"}
             /\ connection' \in {"opening", "up", "ended", "failed", "closed"}
             /\ stream' \in Seq(STRING)
             /\ buffer' \in Seq(STRING) /\ Len(buffer') <= MAX_LINE_LENGTH
             /\ receiver' = "server" => Len(buffer') < MAX_LINE_LENGTH
             /\ LinesOK(lines')
             /\ sent' \in Seq([text : Seq(STRING), bytes : Seq(STRING)])
             /\ Len(sent') <= MaxLines
      PROVE  LineInv'
  BY <1>f, LineInvAfter
<1>l. lines' = lines => LinesOK(lines')
  BY <1>0
<1>1. CASE UNCHANGED lineVars
  BY <1>0, <1>1, <1>f, <1>l DEF lineVars
<1>2. CASE Open
  BY <1>0, <1>2, <1>f, <1>l DEF Open
<1>3. ASSUME NEW text \in Texts,
             sendln(text) \/ SendPlain(text) \/ printf(text)
      PROVE  LineInv'
  <2>1. text \in Seq(STRING) /\ <<CR, LF>> \in Seq(STRING)
        /\ <<LF>> \in Seq(STRING)
    BY LineAssumption, CharactersAssumption
  <2>2. text \o <<CR, LF>> \in Seq(STRING) /\ text \o <<LF>> \in Seq(STRING)
    BY <2>1, ConcatProperties
  <2>3. Cut(text \o <<CR, LF>>) \in Seq(STRING)
    BY <2>2, CutOK
  <2>4. CASE sendln(text)
    BY <2>1, <2>2, <2>4, SendOK DEF sendln
  <2>5. CASE SendPlain(text)
    BY <2>1, <2>2, <2>5, SendOK DEF SendPlain
  <2>6. CASE printf(text)
    BY <2>1, <2>3, <2>6, SendOK DEF printf
  <2> QED BY <1>3, <2>4, <2>5, <2>6
<1>4. CASE End
  <2>1. ASSUME NEW n \in 0 .. Len(stream)
        PROVE  SubSeq(stream, 1, n) \in Seq(STRING)
    <3>1. /\ 1 \in 1 .. (Len(stream) + 1) /\ n >= 1 - 1
      BY <1>0, LenProperties
    <3> QED BY <1>0, <3>1, SubStringOK
  <2>2. stream' \in Seq(STRING)
    BY <1>0, <1>4, <2>1 DEF End
  <2>3. connection' \in {"ended", "failed"}
        /\ UNCHANGED <<receiver, buffer, lines, sent>>
    BY <1>4 DEF End
  <2> QED BY <1>0, <1>f, <1>l, <2>2, <2>3
<1>5. CASE ReadInLine
  <2>1. Byte \in STRING /\ stream' \in Seq(STRING)
        /\ UNCHANGED <<receiver, connection, sent>>
    BY <1>5, ReadOK DEF ReadInLine
  <2>2. Stored(Byte) \in STRING
    BY <2>1, CharactersAssumption DEF Stored
  <2>3. buffer' \in Seq(STRING) /\ Len(buffer') = Len(buffer) + 1
    BY <1>0, <1>5, <2>2, AppendProperties DEF ReadInLine
  <2>4. Len(buffer') < MAX_LINE_LENGTH /\ Len(buffer') <= MAX_LINE_LENGTH
        /\ lines' = lines
    BY <1>n, <1>5, <2>3 DEF ReadInLine
  <2> QED BY <1>0, <1>f, <1>l, <2>1, <2>3, <2>4
<1>6. CASE ReadLineEnd \/ ReadFull
  <2>r. Len(buffer) < MAX_LINE_LENGTH
    BY <1>0, <1>6 DEF ReadLineEnd, ReadFull, Read
  <2>1. stream' \in Seq(STRING) /\ UNCHANGED <<receiver, connection, sent>>
    BY <1>6, ReadOK DEF ReadLineEnd, ReadFull
  <2>2. CString(buffer) \in Seq(STRING)
        /\ Len(CString(buffer)) < MAX_LINE_LENGTH
    BY <1>0, <1>n, <2>r, CStringOK, LenProperties
  <2>3. LinesOK(lines')
    BY <1>0, <1>6, <2>2, HandleOK DEF ReadLineEnd, ReadFull
  <2>4. buffer' = <<>>
    BY <1>6 DEF ReadLineEnd, ReadFull
  <2> QED BY <1>0, <1>e, <1>f, <2>1, <2>3, <2>4
<1>7. CASE ReadEnd
  <2>1. LinesOK(lines')
    <3>1. CASE UNCHANGED lines
      BY <1>l, <3>1
    <3>2. ASSUME NEW rest \in Leftovers,
                 Handle(CString(Terminated(buffer \o rest)), TRUE)
          PROVE  LinesOK(lines')
      <4>1. buffer \o rest \in Seq(STRING)
        BY <1>0, LineAssumption, ConcatProperties
      <4> DEFINE t == Terminated(buffer \o rest)
      <4>2. t \in Seq(STRING) /\ Len(t) < MAX_LINE_LENGTH
        BY <4>1, TerminatedOK
      <4> HIDE DEF t
      <4>3. CString(t) \in Seq(STRING) /\ Len(CString(t)) < MAX_LINE_LENGTH
        BY <1>n, <4>2, CStringOK, LenProperties
      <4>4. Handle(CString(t), TRUE)
        BY <3>2 DEF t
      <4> QED BY <1>0, <4>3, <4>4, HandleOK
    <3> QED BY <1>7, <3>1, <3>2 DEF ReadEnd
  <2>2. /\ connection' = "closed" /\ buffer' = <<>>
        /\ UNCHANGED <<receiver, stream, sent>>
    BY <1>7 DEF ReadEnd
  <2> QED BY <1>0, <1>e, <1>f, <2>1, <2>2
<1>8. CASE ListenInLine
  <2>1. Byte \in STRING /\ stream' \in Seq(STRING)
        /\ UNCHANGED <<receiver, connection, sent>>
    BY <1>8, ReadOK DEF ListenInLine
  <2>2. buffer' \in Seq(STRING) /\ Len(buffer') = Len(buffer) + 1
    BY <1>0, <1>8, <2>1, AppendProperties DEF ListenInLine
  <2>3. Len(buffer') <= MAX_LINE_LENGTH /\ lines' = lines
        /\ receiver = "client"
    BY <1>n, <1>8, <2>2 DEF ListenInLine, Read
  <2> QED BY <1>0, <1>f, <1>l, <2>1, <2>2, <2>3
<1>9. CASE ListenLineEnd
  <2>1. stream' \in Seq(STRING) /\ UNCHANGED <<receiver, connection, sent>>
    BY <1>9, ReadOK DEF ListenLineEnd
  <2>2. buffer' = <<>> /\ Len(buffer) < MAX_LINE_LENGTH
        /\ (lines' = lines \/ Handle(buffer, FALSE))
    BY <1>9 DEF ListenLineEnd
  <2>3. LinesOK(lines')
    BY <1>0, <1>l, <2>2, HandleOK
  <2> QED BY <1>0, <1>e, <1>f, <2>1, <2>2, <2>3
<1>10. CASE ListenEnd
  BY <1>0, <1>e, <1>f, <1>l, <1>10 DEF ListenEnd
<1>11. CASE UNCHANGED vars
  BY <1>1, <1>11 DEF vars, lineVars
<1> QED BY <1>1, <1>2, <1>3, <1>4, <1>5, <1>6, <1>7, <1>8, <1>9, <1>10, <1>11
           DEF Next

-----------------------------------------------------------------------------
(***************************************************************************)
(* The types: neither receiver ever has more in its buffer than fits, and  *)
(* no line that reaches a handler is longer than a buffer less the byte of *)
(* its terminator (readln, eleven_session.cpp; listen_for_messages_thread, *)
(* eleven_chatclient.cpp).                                                 *)
(***************************************************************************)
THEOREM LineTypeCorrect ==
  Spec => []LineTypeOK
PROOF
<1>1. LineInv => LineTypeOK
  BY DEF LineInv, LineTypeOK, LinesOK, Line
<1> QED BY <1>1, LineInvInit, LineInvNext, PTL DEF Spec

(***************************************************************************)
(* Every line, also one that was cut or that a failed connection left      *)
(* behind, goes to the handler of its first word, or to that of * if there *)
(* is none, with what comes behind the delimiters (session_thread of       *)
(* eleven_chatserver.cpp, next_word of eleven_session.cpp).                *)
(***************************************************************************)
THEOREM FirstWordsDispatch ==
  Spec => []FirstWordDispatches
PROOF
<1>1. LineInv => FirstWordDispatches
  <2> SUFFICES ASSUME LineInv, NEW i \in 1 .. Len(lines)
               PROVE
    LET s == lines[i].text
        named == {w \in Handlers :
                    /\ Len(w) <= Len(s) /\ SubSeq(s, 1, Len(w)) = w
                    /\ Len(w) < Len(s) => s[Len(w) + 1] \in Delimiters}
    IN  /\ IF named # {} THEN lines[i].handler \in named
             ELSE lines[i].handler = Star
        /\ \E j, k \in 0 .. Len(s) :
             /\ j <= k
             /\ \A c \in 1 .. j : s[c] \notin Delimiters
             /\ \A c \in (j + 1) .. k : s[c] \in Delimiters
             /\ k < Len(s) => k > j /\ s[k + 1] \notin Delimiters
             /\ lines[i].rest = SubSeq(s, k + 1, Len(s))
    BY DEF FirstWordDispatches
  <2> DEFINE l == lines[i]
  <2>1. l \in Line /\ Dispatched(l)
    BY ElementOfSeq DEF LineInv, LinesOK
  <2> HIDE DEF l
  <2>2. LET named == {w \in Handlers : BeginsWith(l.text, w)}
        IN  IF named # {} THEN l.handler \in named ELSE l.handler = Star
    BY <2>1, HandlerOfFirstWord
  <2>3. LET s == l.text IN
        \E j, k \in 0 .. Len(s) :
          /\ j <= k
          /\ \A c \in 1 .. j : s[c] \notin Delimiters
          /\ \A c \in (j + 1) .. k : s[c] \in Delimiters
          /\ k < Len(s) => k > j /\ s[k + 1] \notin Delimiters
          /\ l.rest = SubSeq(s, k + 1, Len(s))
    BY <2>1, ArgumentsOfLine
  <2> QED BY <2>2, <2>3, Zenon DEF l, BeginsWith
<1> QED BY <1>1, LineInvInit, LineInvNext, PTL DEF Spec

-----------------------------------------------------------------------------
(* Which lines are expected                                                *)

\* The characters that mean something to the receivers are three.
LEMMA LineBreaks ==
  CR # LF /\ CR # NUL /\ LF # NUL
BY DEF CR, LF, NUL

LEMMA ExpectedIs ==
  ASSUME LineInv
  PROVE  /\ Len(sent) \in Nat
         /\ \A i \in Expected : i \in Nat /\ 1 <= i /\ i <= Len(sent)
         /\ IsFiniteSet(Expected) /\ Cardinality(Expected) \in Nat
PROOF
<1>1. Len(sent) \in Nat
  BY LenProperties DEF LineInv
<1>2. Expected \in SUBSET (1 .. Len(sent))
  BY DEF Expected
<1>3. IsFiniteSet(1 .. Len(sent))
  BY <1>1, FS_Interval
<1>4. IsFiniteSet(Expected) /\ Cardinality(Expected) \in Nat
  BY <1>2, <1>3, FS_Subset, FS_CardinalityType
<1>5. \A i \in Expected : i \in Nat /\ 1 <= i /\ i <= Len(sent)
  BY <1>1, <1>2
<1> QED BY <1>1, <1>4, <1>5

\* The expected lines up to the n-th, whose number is the rank of n.
UpTo(n) == {i \in Expected : i <= n}

LEMMA UpToIs ==
  ASSUME LineInv, NEW n \in Nat
  PROVE  /\ IsFiniteSet(UpTo(n)) /\ UpTo(n) \in SUBSET Expected
         /\ Rank(n) = Cardinality(UpTo(n)) /\ Rank(n) \in Nat
         /\ Rank(n) <= Cardinality(Expected)
PROOF
<1>1. UpTo(n) \in SUBSET Expected
  BY DEF UpTo
<1>2. IsFiniteSet(UpTo(n)) /\ Cardinality(UpTo(n)) <= Cardinality(Expected)
  BY <1>1, ExpectedIs, FS_Subset
<1>3. Rank(n) = Cardinality(UpTo(n))
  BY DEF Rank, UpTo
<1> QED BY <1>1, <1>2, <1>3, FS_CardinalityType

\* Each expected line adds one to the rank.
LEMMA RankSteps ==
  ASSUME LineInv
  PROVE  /\ Rank(0) = 0 /\ Rank(Len(sent)) = Cardinality(Expected)
         /\ \A n \in Nat :
              /\ Rank(n) \in Nat
              /\ n + 1 \in Expected => Rank(n + 1) = Rank(n) + 1
              /\ n + 1 \notin Expected => Rank(n + 1) = Rank(n)
PROOF
<1>1. /\ Len(sent) \in Nat
      /\ \A i \in Expected : i \in Nat /\ 1 <= i /\ i <= Len(sent)
  BY ExpectedIs
<1>2. Rank(0) = 0
  <2>1. UpTo(0) = {}
    BY <1>1 DEF UpTo
  <2> QED BY <2>1, UpToIs, FS_EmptySet
<1>3. Rank(Len(sent)) = Cardinality(Expected)
  <2>1. UpTo(Len(sent)) = Expected
    BY <1>1 DEF UpTo
  <2> QED BY <1>1, <2>1, UpToIs
<1>4. ASSUME NEW n \in Nat, n + 1 \in Expected
      PROVE  Rank(n + 1) = Rank(n) + 1
  <2>1. UpTo(n + 1) = UpTo(n) \union {n + 1}
    BY <1>1, <1>4 DEF UpTo
  <2>2. n + 1 \notin UpTo(n)
    BY DEF UpTo
  <2>3. Cardinality(UpTo(n) \union {n + 1}) = Cardinality(UpTo(n)) + 1
    BY <2>2, UpToIs, FS_AddElement
  <2>4. /\ Rank(n + 1) = Cardinality(UpTo(n + 1))
        /\ Rank(n) = Cardinality(UpTo(n))
    BY UpToIs
  <2> QED BY <2>1, <2>3, <2>4
<1>5. ASSUME NEW n \in Nat, n + 1 \notin Expected
      PROVE  Rank(n + 1) = Rank(n)
  <2>1. \A i \in Expected : i <= n + 1 <=> i <= n
    BY <1>1, <1>5
  <2>2. UpTo(n + 1) = UpTo(n)
    BY <2>1 DEF UpTo
  <2>3. /\ Rank(n + 1) = Cardinality(UpTo(n + 1))
        /\ Rank(n) = Cardinality(UpTo(n))
    BY UpToIs
  <2> QED BY <2>2, <2>3
<1> QED BY <1>2, <1>3, <1>4, <1>5, UpToIs

\* What is expected later has a higher rank.
LEMMA RankOrder ==
  ASSUME LineInv, NEW n \in Nat, NEW k \in Expected
  PROVE  /\ n < k => Rank(n) < Rank(k)
         /\ k <= n => Rank(k) <= Rank(n)
         /\ Rank(k) \in 1 .. Cardinality(Expected)
PROOF
<1>1. /\ k \in Nat /\ 0 < k
      /\ \A i \in Expected : i \in Nat
      /\ Cardinality(Expected) \in Nat
  BY ExpectedIs
<1>2. \A x \in Nat : Rank(x) \in Nat /\ Rank(x) = Cardinality(UpTo(x))
                      /\ Rank(x) <= Cardinality(Expected)
                      /\ IsFiniteSet(UpTo(x))
  BY UpToIs
<1>3. ASSUME NEW x \in Nat, x < k
      PROVE  Rank(x) < Rank(k)
  <2>1. UpTo(x) \union {k} \in SUBSET UpTo(k)
    <3>1. ASSUME NEW i \in Expected, i <= x PROVE i <= k
      BY <1>1, <1>3, <3>1
    <3>2. k <= k
      BY <1>1
    <3> QED BY <3>1, <3>2 DEF UpTo
  <2>2. k \notin UpTo(x)
    BY <1>1, <1>3 DEF UpTo
  <2>3. Cardinality(UpTo(x) \union {k}) = Cardinality(UpTo(x)) + 1
    BY <1>2, <2>2, FS_AddElement
  <2>4. Cardinality(UpTo(x) \union {k}) <= Cardinality(UpTo(k))
    BY <1>1, <1>2, <2>1, FS_Subset
  <2> QED BY <1>1, <1>2, <2>3, <2>4
<1>4. ASSUME k <= n
      PROVE  Rank(k) <= Rank(n)
  <2>1. UpTo(k) \in SUBSET UpTo(n)
    <3>1. ASSUME NEW i \in Expected, i <= k PROVE i <= n
      BY <1>1, <1>4, <3>1
    <3> QED BY <3>1 DEF UpTo
  <2>2. Cardinality(UpTo(k)) <= Cardinality(UpTo(n))
    BY <1>2, <2>1, FS_Subset
  <2> QED BY <1>1, <1>2, <2>2
<1>5. Rank(0) < Rank(k) /\ Rank(0) \in Nat /\ Rank(k) \in Nat
      /\ Rank(k) <= Cardinality(Expected)
  BY <1>1, <1>2, <1>3
<1>6. Rank(k) \in 1 .. Cardinality(Expected)
  BY <1>1, <1>5
<1> QED BY <1>3, <1>4, <1>6

\* Where nothing is sent nothing changes.
LEMMA ExpectedStays ==
  ASSUME UNCHANGED <<sent, receiver>>
  PROVE  Expected' = Expected /\ \A n : Rank(n)' = Rank(n)
BY DEF Expected, Fits, Rank

\* A line that is sent may be expected; the others are what they were.
LEMMA ExpectedGrows ==
  ASSUME LineInv, NEW r \in [text : Seq(STRING), bytes : Seq(STRING)],
         sent' = Append(sent, r), UNCHANGED receiver
  PROVE  /\ Len(sent') = Len(sent) + 1
         /\ \A i \in 1 .. Len(sent) : sent'[i] = sent[i]
         /\ sent'[Len(sent) + 1] = r
         /\ \A i \in 1 .. Len(sent) : Fits(sent[i])' <=> Fits(sent[i])
         /\ Expected = {n \in Expected' : n <= Len(sent)}
         /\ \A n \in 0 .. Len(sent) : Rank(n)' = Rank(n)
PROOF
<1>1. /\ Len(sent) \in Nat /\ Len(sent') = Len(sent) + 1
      /\ \A i \in 1 .. Len(sent) : sent'[i] = sent[i]
      /\ sent'[Len(sent) + 1] = r
  BY AppendProperties, LenProperties DEF LineInv
<1>2. \A i \in 1 .. Len(sent) : Fits(sent[i])' <=> Fits(sent[i])
  BY <1>1 DEF Fits
<1>3. Expected = {n \in Expected' : n <= Len(sent)}
  BY <1>1, <1>2 DEF Expected
<1>4. ASSUME NEW n \in 0 .. Len(sent)
      PROVE  Rank(n)' = Rank(n)
  <2>1. {i \in Expected' : i <= n} = {i \in Expected : i <= n}
    BY <1>1, <1>3, ExpectedIs DEF Expected
  <2> QED BY <2>1 DEF Rank
<1> QED BY <1>1, <1>2, <1>3, <1>4

-----------------------------------------------------------------------------
(* The bytes of a line                                                     *)

\* What goes out for a text.
SentOK ==
  \A j \in 1 .. Len(sent) :
    /\ sent[j].text \in Texts
    /\ Fits(sent[j]) =>
         \/ sent[j].bytes = sent[j].text \o <<CR, LF>>
         \/ receiver = "server" /\ sent[j].bytes = sent[j].text \o <<LF>>

\* The bytes of a line that fits are its text and its line break.
LEMMA LineShape ==
  ASSUME LineInv, SentOK, NEW n \in 1 .. Len(sent), Fits(sent[n]),
         NEW t, NEW b, t = sent[n].text, b = sent[n].bytes
  PROVE  /\ t \in Seq(STRING) /\ Len(t) \in Nat
         /\ b \in Seq(STRING) /\ Len(b) \in Nat
         /\ \A i \in 1 .. Len(t) : b[i] = t[i] /\ t[i] \notin {CR, LF, NUL}
         /\ \/ Len(b) = Len(t) + 2 /\ b[Len(t) + 1] = CR
            \/ Len(b) = Len(t) + 1 /\ receiver = "server"
         /\ b[Len(b)] = LF
         /\ receiver = "server" => Len(b) <= MAX_LINE_LENGTH
         /\ receiver = "client" => Len(b) <= MAX_LINE_LENGTH + 1
PROOF
<1>1. sent[n] \in [text : Seq(STRING), bytes : Seq(STRING)]
  BY ElementOfSeq DEF LineInv
<1>2. t \in Seq(STRING) /\ b \in Seq(STRING)
  BY <1>1
<1>3. Len(t) \in Nat /\ Len(b) \in Nat
  BY <1>2, LenProperties
<1>4. \A i \in 1 .. Len(t) : t[i] \notin {CR, LF, NUL}
  BY TextsAssumption DEF SentOK
<1>5. /\ b[Len(b)] = LF
      /\ receiver = "server" => Len(b) <= MAX_LINE_LENGTH
      /\ receiver = "client" => Len(b) <= MAX_LINE_LENGTH + 1
  BY DEF Fits
<1>6. CASE b = t \o <<CR, LF>>
  <2>1. <<CR, LF>> \in Seq(STRING) /\ Len(<<CR, LF>>) = 2
        /\ <<CR, LF>>[1] = CR
    BY CharactersAssumption
  <2>2. /\ Len(b) = Len(t) + 2
        /\ \A i \in 1 .. Len(t) : b[i] = t[i]
        /\ b[Len(t) + 1] = CR
    BY <1>2, <1>3, <1>6, <2>1, ConcatProperties
  <2> QED BY <1>2, <1>3, <1>4, <1>5, <2>2
<1>7. CASE b = t \o <<LF>> /\ receiver = "server"
  <2>1. <<LF>> \in Seq(STRING) /\ Len(<<LF>>) = 1
    BY CharactersAssumption
  <2>2. /\ Len(b) = Len(t) + 1
        /\ \A i \in 1 .. Len(t) : b[i] = t[i]
    BY <1>2, <1>3, <1>7, <2>1, ConcatProperties
  <2> QED BY <1>2, <1>3, <1>4, <1>5, <1>7, <2>2
<1> QED BY <1>6, <1>7 DEF SentOK

\* A carriage return behind a text, or nothing, leaves the text.
LEMMA CStringIs ==
  ASSUME NEW s \in Seq(STRING), NEW t \in Seq(STRING),
         \A i \in 1 .. Len(t) : s[i] = t[i] /\ t[i] # NUL,
         \/ Len(s) = Len(t)
         \/ Len(s) = Len(t) + 1 /\ s[Len(t) + 1] = NUL
  PROVE  CString(s) = t
PROOF
<1>0. Len(s) \in Nat /\ Len(t) \in Nat
  BY LenProperties
<1>1. CASE Len(s) = Len(t)
  <2>1. ~ \E i \in 1 .. Len(s) : s[i] = NUL
    BY <1>1
  <2>2. s = t
    BY <1>0, <1>1, SeqEqual
  <2> QED BY <2>1, <2>2 DEF CString
<1>2. CASE Len(s) = Len(t) + 1 /\ s[Len(t) + 1] = NUL
  <2> DEFINE IsFirst(i) == s[i] = NUL /\ \A j \in 1 .. (i - 1) : s[j] # NUL
             z == CHOOSE i \in 1 .. Len(s) : IsFirst(i)
  <2>1. Len(t) + 1 \in 1 .. Len(s) /\ IsFirst(Len(t) + 1)
    BY <1>0, <1>2
  <2>2. ASSUME NEW i \in 1 .. Len(s), IsFirst(i)
        PROVE  i = Len(t) + 1
    BY <1>0, <1>2, <2>2
  <2>3. z = Len(t) + 1
    BY <2>1, <2>2
  <2>4. CString(s) = SubSeq(s, 1, z - 1)
    BY <2>1 DEF CString
  <2>5. CString(s) = SubSeq(s, 1, Len(t))
    <3> HIDE DEF z
    <3>1. z - 1 = Len(t)
      BY <1>0, <2>3
    <3> QED BY <2>4, <3>1
  <2>6. /\ SubSeq(s, 1, Len(t)) \in Seq(STRING)
        /\ Len(SubSeq(s, 1, Len(t))) = Len(t) - 1 + 1
        /\ \A i \in 1 .. (Len(t) - 1 + 1) :
             SubSeq(s, 1, Len(t))[i] = s[1 + i - 1]
    <3>1. /\ 1 \in 1 .. (Len(s) + 1) /\ Len(t) \in 0 .. Len(s)
          /\ Len(t) >= 1 - 1
      BY <1>0, <1>2
    <3> QED BY <3>1, SubStringOK
  <2>7. \A i \in 1 .. Len(t) : SubSeq(s, 1, Len(t))[i] = t[i]
    BY <1>0, <2>6
  <2>8. Len(SubSeq(s, 1, Len(t))) = Len(t)
    BY <1>0, <2>6
  <2> QED BY <2>5, <2>6, <2>7, <2>8, SeqEqual
<1> QED BY <1>1, <1>2

-----------------------------------------------------------------------------
(* Where the receiver is                                                   *)

\* A line of a failed connection is the last one.
GarbledLast ==
  \A i \in 1 .. Len(lines) :
    lines[i].garbled => i = Len(lines) /\ connection = "closed"

\* The lines handed over so far are those expected.
Matches ==
  \A n \in Expected :
    Rank(n) <= Len(lines) /\ ~ lines[Rank(n)].garbled =>
      lines[Rank(n)].text = sent[n].text

\* Where the lines sent lie on the stream: the first byte of the j-th, which
\* may have been read already, comes after start[j] others.
OnStream(start) ==
  /\ \A j \in 1 .. Len(sent) :
       /\ start[j + 1] = start[j] + Len(sent[j].bytes)
       /\ \A i \in 1 .. Len(sent[j].bytes) :
            start[j] + i \in 1 .. Len(stream) =>
              stream[start[j] + i] = sent[j].bytes[i]
  /\ \A j \in 1 .. (Len(sent) + 1) : start[j] <= start[Len(sent) + 1]
  /\ Len(stream) <= start[Len(sent) + 1]
  /\ connection \in {"opening", "up"} => Len(stream) = start[Len(sent) + 1]

\* The buffer has the beginning of line m + 1, if that was sent.
AtLine(m, start) ==
  /\ start[m + 1] = 0 - Len(buffer)
  /\ m = Len(sent) => buffer = <<>>
  /\ m < Len(sent) =>
       /\ \A i \in 1 .. Len(buffer) :
            buffer[i] = Stored(sent[m + 1].bytes[i])
       /\ receiver = "server" => Len(buffer) < Len(sent[m + 1].bytes)
       /\ receiver = "client" => Len(buffer) <= Len(sent[m + 1].text)

\* The client has read line m up to its carriage return.
BehindCR(m, start) ==
  /\ receiver = "client" /\ buffer = <<>>
  /\ start[m + 1] = 1
  /\ stream # <<>> => Head(stream) = LF

\* The receiver has read m lines, and the next one fits.
InStep(m, start) ==
  /\ \A j \in 1 .. m : Fits(sent[j])
  /\ m < Len(sent) => Fits(sent[m + 1])
  /\ OnStream(start)
  /\ Len(lines) = Rank(m)
  /\ AtLine(m, start) \/ BehindCR(m, start)

\* It has read all that is expected, and the line behind does not fit.
Past ==
  /\ \E j \in 1 .. Len(sent) : ~ Fits(sent[j])
  /\ Cardinality(Expected) <= Len(lines)

Starts == [1 .. (Len(sent) + 1) -> Int]

Place ==
  \/ connection = "closed"
  \/ Past
  \/ \E m \in 0 .. Len(sent), start \in Starts : InStep(m, start)

\* With the types, the inductive invariant.
ArriveInv ==
  SentOK /\ GarbledLast /\ Matches /\ Place

-----------------------------------------------------------------------------
(* From one line to the next                                               *)

\* An expected line is handed over with its rank.
LEMMA RankIs ==
  ASSUME LineInv, NEW m \in Nat, m + 1 \in Expected, NEW n \in Expected,
         Rank(n) = Rank(m) + 1
  PROVE  n = m + 1
PROOF
<1>1. n \in Nat /\ m + 1 \in Nat
  BY ExpectedIs
<1>2. Rank(m + 1) = Rank(m) + 1 /\ Rank(m) \in Nat
  BY RankSteps
<1>3. ~ (n < m + 1)
  <2>1. SUFFICES ASSUME n < m + 1 PROVE FALSE
    OBVIOUS
  <2>2. Rank(n) < Rank(m + 1)
    BY <1>1, <2>1, RankOrder
  <2> QED BY <1>2, <2>2
<1>4. ~ (m + 1 < n)
  <2>1. SUFFICES ASSUME m + 1 < n PROVE FALSE
    OBVIOUS
  <2>2. Rank(m + 1) < Rank(n)
    BY <1>1, <2>1, RankOrder
  <2> QED BY <1>2, <2>2
<1> QED BY <1>1, <1>3, <1>4

\* At the beginning of a line the receiver is in step, or past what it gets.
BeginningOK ==
  \A m \in 0 .. Len(sent), start \in Starts :
    /\ OnStream(start) /\ (\A j \in 1 .. m : Fits(sent[j]))
    /\ Len(lines) = Rank(m) /\ buffer = <<>>
    /\ start[m + 1] = 0 \/ BehindCR(m, start)
    => Past \/ InStep(m, start)

LEMMA AtBeginning ==
  LineInv /\ SentOK => BeginningOK
PROOF
<1> SUFFICES ASSUME LineInv, SentOK,
                    NEW m \in 0 .. Len(sent), NEW start \in Starts,
                    OnStream(start), \A j \in 1 .. m : Fits(sent[j]),
                    Len(lines) = Rank(m), buffer = <<>>,
                    start[m + 1] = 0 \/ BehindCR(m, start)
             PROVE  Past \/ InStep(m, start)
  BY DEF BeginningOK
<1>1. Len(sent) \in Nat
  BY LenProperties DEF LineInv
<1>2. CASE m < Len(sent) /\ ~ Fits(sent[m + 1])
  <2>1. m + 1 \in 1 .. Len(sent)
    BY <1>1, <1>2
  <2>2. \A i \in Expected : i <= m
    <3>1. SUFFICES ASSUME NEW i \in Expected, ~ (i <= m) PROVE FALSE
      OBVIOUS
    <3>2. m + 1 \in 1 .. i
      BY <1>1, <3>1, ExpectedIs
    <3>3. Fits(sent[m + 1])
      BY <3>2 DEF Expected
    <3> QED BY <1>2, <3>3
  <2>3. UpTo(m) = Expected
    BY <2>2 DEF UpTo
  <2>4. Rank(m) = Cardinality(Expected) /\ Rank(m) \in Nat
    BY <1>1, <2>3, UpToIs
  <2> QED BY <1>2, <2>1, <2>4 DEF Past
<1>3. CASE ~ (m < Len(sent) /\ ~ Fits(sent[m + 1]))
  <2>1. Len(buffer) = 0
    BY EmptySeq
  <2>2. CASE BehindCR(m, start)
    BY <1>3, <2>2 DEF InStep
  <2>3. CASE start[m + 1] = 0
    <3>1. m < Len(sent) => 0 < Len(sent[m + 1].bytes)
                           /\ 0 <= Len(sent[m + 1].text)
      <4>1. SUFFICES ASSUME m < Len(sent)
                     PROVE  /\ 0 < Len(sent[m + 1].bytes)
                            /\ 0 <= Len(sent[m + 1].text)
        OBVIOUS
      <4>2. m + 1 \in 1 .. Len(sent) /\ Fits(sent[m + 1])
        BY <1>1, <1>3, <4>1
      <4>3. /\ Len(sent[m + 1].text) \in Nat
            /\ \/ Len(sent[m + 1].bytes) = Len(sent[m + 1].text) + 2
               \/ Len(sent[m + 1].bytes) = Len(sent[m + 1].text) + 1
        BY <4>2, LineShape
      <4> QED BY <4>3
    <3>2. /\ start[m + 1] = 0 - Len(buffer)
          /\ m < Len(sent) =>
               /\ receiver = "server" => Len(buffer) < Len(sent[m + 1].bytes)
               /\ receiver = "client" =>
                    Len(buffer) <= Len(sent[m + 1].text)
      <4>1. start[m + 1] = 0 - Len(buffer)
        <5> DEFINE read == Len(buffer)
        <5>1. read = 0
          BY <2>1
        <5> HIDE DEF read
        <5>2. start[m + 1] = 0 - read
          BY <2>3, <5>1
        <5> QED BY <5>2 DEF read
      <4>2. ASSUME m < Len(sent)
            PROVE  /\ Len(buffer) < Len(sent[m + 1].bytes)
                   /\ Len(buffer) <= Len(sent[m + 1].text)
        BY <2>1, <3>1, <4>2
      <4> QED BY <4>1, <4>2
    <3>3. \A i \in 1 .. Len(buffer) :
            buffer[i] = Stored(sent[m + 1].bytes[i])
      BY <2>1
    <3>4. AtLine(m, start)
      BY <3>2, <3>3, Zenon DEF AtLine
    <3> QED BY <1>3, <3>4 DEF InStep
  <2> QED BY <2>2, <2>3
<1> QED BY <1>2, <1>3

\* The next bytes are those of the line that is being read.
LEMMA NextBytes ==
  ASSUME LineInv, SentOK, NEW m \in 0 .. Len(sent), NEW start \in Starts,
         InStep(m, start), AtLine(m, start), stream # <<>>,
         NEW b, b = sent[m + 1].bytes
  PROVE  /\ m + 1 \in 1 .. Len(sent) /\ Fits(sent[m + 1])
         /\ Len(buffer) + 1 \in 1 .. Len(b)
         /\ Byte = b[Len(buffer) + 1]
         /\ \A i \in 1 .. Len(stream) :
              Len(buffer) + i <= Len(b) => stream[i] = b[Len(buffer) + i]
PROOF
<1>1. Len(sent) \in Nat /\ Len(buffer) \in Nat /\ Len(stream) \in Nat
  BY LenProperties DEF LineInv
<1>2. Len(stream) >= 1 /\ Byte = stream[1]
  BY EmptySeq, <1>1, HeadTailProperties DEF LineInv, Byte
<1>3. m < Len(sent)
  <2>1. SUFFICES ASSUME m = Len(sent) PROVE FALSE
    BY <1>1
  <2>2. Len(buffer) = 0 /\ start[Len(sent) + 1] = 0
    BY <2>1, EmptySeq DEF AtLine
  <2>3. Len(stream) <= start[Len(sent) + 1]
    BY DEF InStep, OnStream
  <2> QED BY <1>2, <2>2, <2>3
<1>4. m + 1 \in 1 .. Len(sent) /\ Fits(sent[m + 1])
  BY <1>1, <1>3 DEF InStep
<1>5. /\ Len(sent[m + 1].text) \in Nat /\ Len(b) \in Nat
      /\ \/ Len(b) = Len(sent[m + 1].text) + 2
         \/ Len(b) = Len(sent[m + 1].text) + 1 /\ receiver = "server"
  <2> DEFINE t == sent[m + 1].text
  <2>1. t = sent[m + 1].text
    OBVIOUS
  <2> HIDE DEF t
  <2>2. /\ Len(t) \in Nat /\ Len(b) \in Nat
        /\ \/ Len(b) = Len(t) + 2
           \/ Len(b) = Len(t) + 1 /\ receiver = "server"
    BY <1>4, <2>1, LineShape
  <2> QED BY <2>1, <2>2
<1>6. /\ start[m + 1] = 0 - Len(buffer)
      /\ receiver = "server" => Len(buffer) < Len(b)
      /\ receiver = "client" => Len(buffer) <= Len(sent[m + 1].text)
  BY <1>3 DEF AtLine
<1>7. Len(buffer) + 1 \in 1 .. Len(b)
  <2>1. receiver \in {"server", "client"}
    BY DEF LineInv
  <2> QED BY <1>1, <1>5, <1>6, <2>1
<1>8. ASSUME NEW i \in 1 .. Len(stream), Len(buffer) + i <= Len(b)
      PROVE  stream[i] = b[Len(buffer) + i]
  <2>1. Len(buffer) + i \in 1 .. Len(b)
        /\ start[m + 1] + (Len(buffer) + i) = i
    BY <1>1, <1>5, <1>6, <1>8
  <2>2. \A k \in 1 .. Len(b) : start[m + 1] + k \in 1 .. Len(stream) =>
          stream[start[m + 1] + k] = b[k]
    BY <1>4 DEF InStep, OnStream
  <2> QED BY <2>1, <2>2
<1>9. Byte = b[Len(buffer) + 1]
  <2>1. 1 \in 1 .. Len(stream) /\ Len(buffer) + 1 <= Len(b)
    BY <1>1, <1>2, <1>7
  <2> QED BY <1>2, <1>8, <2>1
<1> QED BY <1>4, <1>7, <1>8, <1>9

\* When a byte was read everything is one nearer.
LEMMA Nearer ==
  ASSUME LineInv, NEW start \in Starts, OnStream(start),
         stream # <<>>, stream' = Tail(stream),
         connection \in {"up", "ended", "failed"},
         UNCHANGED <<connection, sent>>
  PROVE  \E next \in Starts :
           /\ \A j \in 1 .. (Len(sent) + 1) : next[j] = start[j] - 1
           /\ OnStream(next)'
PROOF
<1>1. /\ Len(sent) \in Nat /\ Len(stream) \in Nat /\ Len(stream) >= 1
      /\ Len(stream') = Len(stream) - 1
      /\ \A i \in 1 .. Len(stream') : stream'[i] = stream[i + 1]
  BY LenProperties, EmptySeq, HeadTailProperties DEF LineInv
<1>2. \A j \in 1 .. (Len(sent) + 1) : start[j] \in Int
  BY DEF Starts
<1>3. PICK next \in Starts :
        \A j \in 1 .. (Len(sent) + 1) : next[j] = start[j] - 1
  <2> DEFINE f == [j \in 1 .. (Len(sent) + 1) |-> start[j] - 1]
  <2>1. f \in Starts /\ \A j \in 1 .. (Len(sent) + 1) : f[j] = start[j] - 1
    BY <1>2 DEF Starts
  <2> QED BY <2>1
<1>5. \A j \in 1 .. Len(sent) : j \in 1 .. (Len(sent) + 1)
        /\ j + 1 \in 1 .. (Len(sent) + 1)
  BY <1>1
<1>6. \A j \in 1 .. Len(sent) : next[j + 1] = next[j] + Len(sent[j].bytes)
  <2>1. SUFFICES ASSUME NEW j \in 1 .. Len(sent)
                 PROVE  next[j + 1] = next[j] + Len(sent[j].bytes)
    OBVIOUS
  <2>2. sent[j] \in [text : Seq(STRING), bytes : Seq(STRING)]
    BY ElementOfSeq DEF LineInv
  <2>3. Len(sent[j].bytes) \in Nat
    BY <2>2, LenProperties
  <2>4. start[j + 1] = start[j] + Len(sent[j].bytes)
    BY DEF OnStream
  <2>5. /\ start[j] \in Int /\ start[j + 1] \in Int
        /\ next[j] = start[j] - 1 /\ next[j + 1] = start[j + 1] - 1
    BY <1>2, <1>3, <1>5
  <2> QED BY <2>3, <2>4, <2>5
<1>7. ASSUME NEW j \in 1 .. Len(sent), NEW i \in 1 .. Len(sent[j].bytes),
             next[j] + i \in 1 .. Len(stream')
      PROVE  stream'[next[j] + i] = sent[j].bytes[i]
  <2>0. i \in Int
    OBVIOUS
  <2>1. start[j] + i = (next[j] + i) + 1 /\ start[j] + i \in 1 .. Len(stream)
    BY <1>1, <1>2, <1>3, <1>5, <1>7, <2>0
  <2>2. stream'[next[j] + i] = stream[start[j] + i]
    BY <1>1, <1>7, <2>1
  <2> QED BY <2>1, <2>2 DEF OnStream
<1>8. Len(sent) + 1 \in 1 .. (Len(sent) + 1)
  BY <1>1
<1>9. /\ \A j \in 1 .. (Len(sent) + 1) : next[j] <= next[Len(sent) + 1]
      /\ Len(stream') <= next[Len(sent) + 1]
      /\ connection' \in {"opening", "up"} =>
           Len(stream') = next[Len(sent) + 1]
  <2> DEFINE n == Len(sent) + 1
  <2>1. /\ \A j \in 1 .. n : start[j] <= start[n]
        /\ Len(stream) <= start[n]
        /\ connection \in {"opening", "up"} => Len(stream) = start[n]
    BY DEF OnStream
  <2>2. \A j \in 1 .. n : start[j] \in Int /\ next[j] = start[j] - 1
    BY <1>2, <1>3
  <2>3. n \in 1 .. n
    BY <1>8
  <2> HIDE DEF n
  <2>4. \A j \in 1 .. n : next[j] <= next[n]
    BY <2>1, <2>2, <2>3
  <2>5. /\ Len(stream') <= next[n]
        /\ connection' \in {"opening", "up"} => Len(stream') = next[n]
    BY <1>1, <2>1, <2>2, <2>3
  <2> QED BY <2>4, <2>5 DEF n
<1>10. OnStream(next)'
  BY <1>6, <1>7, <1>9 DEF OnStream
<1> QED BY <1>3, <1>10

\* The same after a step.
LEMMA BeginningNext ==
  ASSUME LineInv', SentOK', NEW m \in 0 .. Len(sent'),
         NEW start \in [1 .. (Len(sent') + 1) -> Int],
         OnStream(start)', \A j \in 1 .. m : Fits(sent[j])',
         Len(lines') = Rank(m)', buffer' = <<>>,
         start[m + 1] = 0 \/ BehindCR(m, start)'
  PROVE  Place'
PROOF
<1>1. BeginningOK'
  BY AtBeginning, PTL
<1>2. m \in 0 .. Len(sent') /\ start \in Starts'
  BY DEF Starts
<1>3. Past' \/ InStep(m, start)'
  BY <1>1, <1>2 DEF BeginningOK
<1> QED BY <1>2, <1>3 DEF Place

\* The lines handed over are one more.
Handed(s, garbled) ==
  /\ Len(lines') = Len(lines) + 1
  /\ \A i \in 1 .. Len(lines) : lines'[i] = lines[i]
  /\ lines'[Len(lines) + 1].text = s
  /\ lines'[Len(lines) + 1].garbled = garbled

LEMMA HandleIs ==
  ASSUME LinesOK(lines), NEW s \in Seq(STRING),
         NEW garbled \in BOOLEAN, Handle(s, garbled)
  PROVE  Handed(s, garbled)
PROOF
<1> DEFINE l == [text |-> s, handler |-> handler_for_command(CommandName(s)),
                 rest |-> remainder_of_string(s, NextWordStart(s)),
                 garbled |-> garbled]
<1>1. l.text = s /\ l.garbled = garbled
  OBVIOUS
<1>2. lines' = Append(lines, l) /\ lines \in Seq(Line)
  BY DEF Handle, LinesOK
<1> HIDE DEF l
<1>3. /\ Len(lines') = Len(lines) + 1
      /\ \A i \in 1 .. Len(lines) : lines'[i] = lines[i]
      /\ lines'[Len(lines) + 1] = l
  BY <1>2
<1> QED BY <1>1, <1>3 DEF Handed

\* As long as the connection is not closed no line is garbled.
LEMMA NotGarbled ==
  ASSUME GarbledLast, connection # "closed", LineInv,
         NEW s, NEW garbled, garbled => connection' = "closed",
         Handed(s, garbled) \/ lines' = lines
  PROVE  GarbledLast'
PROOF
<1>1. \A i \in 1 .. Len(lines) : ~ lines[i].garbled
  BY DEF GarbledLast
<1>2. Len(lines) \in Nat
  BY LenProperties DEF LineInv, LinesOK
<1>3. CASE Handed(s, garbled)
  <2>1. /\ Len(lines') = Len(lines) + 1
        /\ \A i \in 1 .. Len(lines) : lines'[i] = lines[i]
        /\ lines'[Len(lines) + 1].garbled = garbled
    BY <1>3 DEF Handed
  <2>2. ASSUME NEW i \in 1 .. Len(lines'), lines'[i].garbled
        PROVE  i = Len(lines') /\ connection' = "closed"
    <3>1. i \in 1 .. Len(lines) \/ i = Len(lines) + 1
      BY <1>2, <2>1
    <3> QED BY <1>1, <2>1, <2>2, <3>1
  <2> QED BY <2>2 DEF GarbledLast
<1>4. CASE lines' = lines
  BY <1>1, <1>4 DEF GarbledLast
<1> QED BY <1>3, <1>4

\* What was handed over before stays; a line that comes next is the one
\* expected next, or garbled, or no line is expected any more.
LEMMA MatchesMore ==
  ASSUME LineInv, Matches, UNCHANGED <<sent, receiver>>,
         NEW s, NEW garbled, Handed(s, garbled),
         \/ garbled
         \/ \A n \in Expected : Rank(n) = Len(lines) + 1 => sent[n].text = s
  PROVE  Matches'
PROOF
<1>1. Expected' = Expected /\ \A n : Rank(n)' = Rank(n)
  BY ExpectedStays
<1>2. Len(lines) \in Nat
  BY LenProperties DEF LineInv, LinesOK
<1>3. /\ Len(lines') = Len(lines) + 1
      /\ \A i \in 1 .. Len(lines) : lines'[i] = lines[i]
      /\ lines'[Len(lines) + 1].text = s
      /\ lines'[Len(lines) + 1].garbled = garbled
  BY DEF Handed
<1>4. ASSUME NEW n \in Expected,
             Rank(n) <= Len(lines'), ~ lines'[Rank(n)].garbled
      PROVE  lines'[Rank(n)].text = sent[n].text
  <2>1. Rank(n) \in Nat /\ 1 <= Rank(n)
    <3>1. n \in Nat /\ Cardinality(Expected) \in Nat
      BY ExpectedIs
    <3>2. Rank(n) \in 1 .. Cardinality(Expected)
      BY <3>1, RankOrder
    <3> QED BY <3>1, <3>2
  <2>2. CASE Rank(n) <= Len(lines)
    <3>1. lines'[Rank(n)] = lines[Rank(n)]
      BY <1>2, <1>3, <2>1, <2>2
    <3> QED BY <1>4, <2>2, <3>1 DEF Matches
  <2>3. CASE Rank(n) = Len(lines) + 1
    BY <1>3, <1>4, <2>3
  <2> QED BY <1>2, <1>3, <1>4, <2>1, <2>2, <2>3
<1>5. \A n \in Expected' :
        Rank(n)' <= Len(lines') /\ ~ lines'[Rank(n)'].garbled =>
          lines'[Rank(n)'].text = sent'[n].text
  BY <1>1, <1>4
<1> QED BY <1>5 DEF Matches

LEMMA MatchesStay ==
  ASSUME Matches, UNCHANGED <<lines, sent, receiver>>
  PROVE  Matches'
BY ExpectedStays DEF Matches

\* Who is past what is expected stays there.
LEMMA PastStays ==
  ASSUME LineInv, Past, UNCHANGED <<sent, receiver>>,
         NEW s, NEW garbled, Handed(s, garbled) \/ lines' = lines
  PROVE  /\ Past'
         /\ \A n \in Expected : Rank(n) # Len(lines) + 1
PROOF
<1>1. Expected' = Expected
  BY ExpectedStays
<1>2. Len(lines) \in Nat /\ Cardinality(Expected) \in Nat
      /\ Cardinality(Expected) <= Len(lines)
  BY LenProperties, ExpectedIs DEF LineInv, LinesOK, Past
<1>3. Len(lines') \in {Len(lines), Len(lines) + 1}
  BY DEF Handed
<1>4. \E j \in 1 .. Len(sent') : ~ Fits(sent[j])'
  BY DEF Past, Fits
<1>5. Past'
  BY <1>1, <1>2, <1>3, <1>4 DEF Past
<1>6. \A n \in Expected : Rank(n) # Len(lines) + 1
  <2>1. \A n \in Expected : Rank(n) \in 1 .. Cardinality(Expected)
    BY RankOrder, ExpectedIs
  <2> QED BY <1>2, <2>1
<1> QED BY <1>5, <1>6

-----------------------------------------------------------------------------
(* Steps of the receiver                                                   *)

\* The receiver has read a part of the text t of line m + 1, or all of it
\* and perhaps its carriage return, and the next byte is what comes then.
OfLine(m, t) ==
  /\ m + 1 \in 1 .. Len(sent) /\ Fits(sent[m + 1])
  /\ t \in Seq(STRING) /\ Len(t) \in Nat /\ Len(buffer) \in Nat
  /\ \A i \in 1 .. Len(t) : t[i] \notin {CR, LF, NUL}
  /\ \A i \in 1 .. Len(buffer) :
       /\ i <= Len(t) => buffer[i] = t[i]
       /\ i = Len(t) + 1 /\ Len(buffer) = i => buffer[i] = NUL
  /\ \/ /\ Len(buffer) < Len(t) /\ Byte = t[Len(buffer) + 1]
     \/ /\ Len(buffer) = Len(t) /\ Byte = CR
        /\ Len(sent[m + 1].bytes) = Len(t) + 2
        /\ 2 \in 1 .. Len(stream) => stream[2] = LF
     \/ /\ receiver = "server" /\ Byte = LF
        /\ Len(buffer) = Len(t) \/ Len(buffer) = Len(t) + 1
        /\ Len(sent[m + 1].bytes) = Len(buffer) + 1

LEMMA ByteOfLine ==
  ASSUME LineInv, SentOK, NEW m \in 0 .. Len(sent), NEW start \in Starts,
         InStep(m, start), AtLine(m, start), stream # <<>>,
         NEW t, t = sent[m + 1].text
  PROVE  OfLine(m, t)
PROOF
<1> DEFINE b == sent[m + 1].bytes
<1>1. b = sent[m + 1].bytes
  OBVIOUS
<1> HIDE DEF b
<1>2. /\ m + 1 \in 1 .. Len(sent) /\ Fits(sent[m + 1])
      /\ Len(buffer) + 1 \in 1 .. Len(b)
      /\ Byte = b[Len(buffer) + 1]
      /\ \A i \in 1 .. Len(stream) :
           Len(buffer) + i <= Len(b) => stream[i] = b[Len(buffer) + i]
  BY <1>1, NextBytes
<1>3. /\ t \in Seq(STRING) /\ Len(t) \in Nat
      /\ b \in Seq(STRING) /\ Len(b) \in Nat
      /\ \A i \in 1 .. Len(t) : b[i] = t[i] /\ t[i] \notin {CR, LF, NUL}
      /\ \/ Len(b) = Len(t) + 2 /\ b[Len(t) + 1] = CR
         \/ Len(b) = Len(t) + 1 /\ receiver = "server"
      /\ b[Len(b)] = LF
  <2> DEFINE n == m + 1
  <2>1. n \in 1 .. Len(sent) /\ Fits(sent[n])
        /\ t = sent[n].text /\ b = sent[n].bytes
    BY <1>1, <1>2
  <2> HIDE DEF n
  <2> QED BY <2>1, LineShape
<1>4. Len(buffer) \in Nat /\ Len(sent) \in Nat
      /\ receiver \in {"server", "client"}
  BY LenProperties DEF LineInv
<1>5. m < Len(sent)
  BY <1>2, <1>4
<1>6. /\ \A i \in 1 .. Len(buffer) : buffer[i] = Stored(b[i])
      /\ receiver = "client" => Len(buffer) <= Len(t)
  BY <1>1, <1>5 DEF AtLine
<1>7. ASSUME NEW i \in 1 .. Len(buffer), i <= Len(t)
      PROVE  buffer[i] = t[i]
  <2>1. i \in 1 .. Len(t)
    BY <1>3, <1>7
  <2> QED BY <1>3, <1>6, <2>1 DEF Stored
<1>8. ASSUME NEW i \in 1 .. Len(buffer), i = Len(t) + 1, Len(buffer) = i
      PROVE  buffer[i] = NUL
  <2>1. Len(b) = Len(t) + 2 /\ b[i] = CR
    BY <1>2, <1>3, <1>4, <1>8
  <2> QED BY <1>6, <2>1 DEF Stored
<1>9. CASE Len(buffer) < Len(t)
  <2>1. Len(buffer) + 1 \in 1 .. Len(t)
    BY <1>3, <1>4, <1>9
  <2>2. Byte = t[Len(buffer) + 1]
    BY <1>2, <1>3, <2>1
  <2> QED BY <1>2, <1>3, <1>4, <1>7, <1>8, <1>9, <2>2 DEF OfLine
<1>10. CASE Len(buffer) = Len(t) /\ Len(b) = Len(t) + 2
  <2>1. Byte = CR
    BY <1>2, <1>3, <1>10
  <2>2. 2 \in 1 .. Len(stream) => stream[2] = LF
    BY <1>2, <1>3, <1>10
  <2> QED BY <1>1, <1>2, <1>3, <1>4, <1>7, <1>8, <1>10, <2>1, <2>2 DEF OfLine
<1>11. CASE ~ (Len(buffer) < Len(t))
            /\ ~ (Len(buffer) = Len(t) /\ Len(b) = Len(t) + 2)
  <2>1. /\ Len(b) = Len(buffer) + 1
        /\ Len(buffer) = Len(t) \/ Len(buffer) = Len(t) + 1
    BY <1>2, <1>3, <1>4, <1>11
  <2>2. receiver = "server"
    <3>1. SUFFICES ASSUME receiver = "client" PROVE FALSE
      BY <1>4
    <3>2. Len(b) = Len(t) + 2 /\ Len(buffer) <= Len(t)
      BY <1>3, <1>6, <3>1
    <3> QED BY <1>3, <1>4, <2>1, <3>2
  <2>3. Byte = LF
    BY <1>2, <1>3, <2>1
  <2> QED BY <1>1, <1>2, <1>3, <1>4, <1>7, <1>8, <2>1, <2>2, <2>3 DEF OfLine
<1> QED BY <1>9, <1>10, <1>11

\* Inside a line.
LEMMA InsideLine ==
  ASSUME LineInv, SentOK, NEW m \in 0 .. Len(sent), NEW start \in Starts,
         InStep(m, start), stream # <<>>, stream' = Tail(stream),
         connection \in {"up", "ended", "failed"},
         UNCHANGED <<receiver, connection, lines, sent>>,
         Byte # LF, receiver = "client" => Byte # CR,
         buffer' = Append(buffer, Stored(Byte))
  PROVE  Place'
PROOF
<1>1. AtLine(m, start)
  BY DEF InStep, BehindCR, Byte
<1> DEFINE t == sent[m + 1].text
           b == sent[m + 1].bytes
<1>2. t = sent[m + 1].text /\ b = sent[m + 1].bytes
  OBVIOUS
<1> HIDE DEF t, b
<1>3. /\ m + 1 \in 1 .. Len(sent) /\ Fits(sent[m + 1])
      /\ Len(t) \in Nat /\ Len(buffer) \in Nat
      /\ \/ Len(buffer) < Len(t) /\ Byte = t[Len(buffer) + 1]
         \/ /\ Len(buffer) = Len(t) /\ Byte = CR
            /\ Len(b) = Len(t) + 2
         \/ Byte = LF
  BY <1>1, <1>2, ByteOfLine DEF OfLine
<1>4. /\ Len(buffer) + 1 \in 1 .. Len(b) /\ Byte = b[Len(buffer) + 1]
  BY <1>1, <1>2, NextBytes
<1>5. /\ Len(b) = Len(t) + 2 \/ Len(b) = Len(t) + 1
      /\ Len(sent) \in Nat
      /\ receiver \in {"server", "client"}
  <2> DEFINE n == m + 1
  <2>1. n \in 1 .. Len(sent) /\ Fits(sent[n])
        /\ t = sent[n].text /\ b = sent[n].bytes
    BY <1>2, <1>3
  <2> HIDE DEF n
  <2>2. Len(b) = Len(t) + 2 \/ Len(b) = Len(t) + 1
    BY <2>1, LineShape
  <2> QED BY <2>2, LenProperties DEF LineInv
<1>6. /\ Len(buffer) + 1 < Len(b)
      /\ receiver = "client" => Len(buffer) + 1 <= Len(t)
  BY <1>3, <1>4, <1>5
<1>7. /\ Byte \in STRING /\ Stored(Byte) \in STRING /\ buffer \in Seq(STRING)
  BY CharactersAssumption, HeadTailProperties DEF LineInv, Byte, Stored
<1>8. /\ Len(buffer') = Len(buffer) + 1
      /\ \A i \in 1 .. Len(buffer) : buffer'[i] = buffer[i]
      /\ buffer'[Len(buffer) + 1] = Stored(Byte)
  BY <1>7, AppendProperties
<1>9. PICK next \in Starts :
        /\ \A j \in 1 .. (Len(sent) + 1) : next[j] = start[j] - 1
        /\ OnStream(next)'
  BY Nearer DEF InStep
<1>10. next[m + 1] = 0 - Len(buffer')
  <2>1. m + 1 \in 1 .. (Len(sent) + 1)
    BY <1>3, <1>5
  <2>2. next[m + 1] = start[m + 1] - 1 /\ start[m + 1] = 0 - Len(buffer)
    BY <1>1, <1>9, <2>1 DEF AtLine
  <2> QED BY <1>3, <1>8, <2>2
<1>11. m < Len(sent) /\ m # Len(sent)
  BY <1>3, <1>5
<1>12. \A i \in 1 .. Len(buffer') : buffer'[i] = Stored(b[i])
  <2>1. \A i \in 1 .. Len(buffer) : buffer[i] = Stored(b[i])
    BY <1>1, <1>2, <1>11 DEF AtLine
  <2> QED BY <1>3, <1>4, <1>8, <2>1
<1>13. AtLine(m, next)'
  <2>1. /\ next[m + 1] = 0 - Len(buffer')
        /\ ~ (m = Len(sent'))
        /\ \A i \in 1 .. Len(buffer') :
             buffer'[i] = Stored(sent'[m + 1].bytes[i])
        /\ receiver' = "server" => Len(buffer') < Len(sent'[m + 1].bytes)
        /\ receiver' = "client" => Len(buffer') <= Len(sent'[m + 1].text)
    BY <1>2, <1>6, <1>8, <1>10, <1>11, <1>12
  <2> QED BY <2>1, Zenon DEF AtLine, Stored
<1>14. InStep(m, next)'
  <2>1. /\ \A j \in 1 .. m : Fits(sent[j])'
        /\ Fits(sent[m + 1])'
        /\ Len(lines') = Rank(m)'
    BY <1>3, ExpectedStays DEF InStep, Fits
  <2> QED BY <1>9, <1>13, <2>1 DEF InStep
<1>15. m \in 0 .. Len(sent') /\ next \in Starts'
  BY DEF Starts
<1> QED BY <1>14, <1>15 DEF Place

\* The next line begins where the last one ends.
LEMMA NextStart ==
  ASSUME LineInv, NEW m \in 0 .. Len(sent), m + 1 \in 1 .. Len(sent),
         NEW start \in Starts, OnStream(start)
  PROVE  /\ start[m + 1] \in Int /\ start[m + 2] \in Int
         /\ start[m + 2] = start[m + 1] + Len(sent[m + 1].bytes)
         /\ Len(sent[m + 1].bytes) \in Nat
PROOF
<1>1. Len(sent) \in Nat
  BY LenProperties DEF LineInv
<1>2. m + 1 \in 1 .. (Len(sent) + 1) /\ m + 2 \in 1 .. (Len(sent) + 1)
  BY <1>1
<1>3. start[m + 1] \in Int /\ start[m + 2] \in Int
  BY <1>2 DEF Starts
<1>4. sent[m + 1] \in [text : Seq(STRING), bytes : Seq(STRING)]
  BY ElementOfSeq DEF LineInv
<1>5. Len(sent[m + 1].bytes) \in Nat
  BY <1>4, LenProperties
<1>6. start[(m + 1) + 1] = start[m + 1] + Len(sent[m + 1].bytes)
  BY DEF OnStream
<1>7. (m + 1) + 1 = m + 2
  OBVIOUS
<1> QED BY <1>3, <1>5, <1>6, <1>7

\* Where one more line fits, the rank follows.
LEMMA NextRank ==
  ASSUME LineInv, NEW m \in 0 .. Len(sent), m + 1 \in 1 .. Len(sent),
         \A j \in 1 .. m : Fits(sent[j]), Fits(sent[m + 1])
  PROVE  /\ \A j \in 1 .. (m + 1) : Fits(sent[j])
         /\ Rank(m) \in Nat
         /\ IF receiver = "server" \/ sent[m + 1].text # <<>>
              THEN m + 1 \in Expected /\ Rank(m + 1) = Rank(m) + 1
              ELSE Rank(m + 1) = Rank(m)
PROOF
<1>1. m \in Nat
  BY LenProperties DEF LineInv
<1>2. \A j \in 1 .. (m + 1) : Fits(sent[j])
  <2>1. \A j \in 1 .. (m + 1) : j \in 1 .. m \/ j = m + 1
    BY <1>1
  <2> QED BY <2>1
<1>3. m + 1 \in Expected <=> receiver = "server" \/ sent[m + 1].text # <<>>
  BY <1>2 DEF Expected
<1>4. /\ Rank(m) \in Nat
      /\ m + 1 \in Expected => Rank(m + 1) = Rank(m) + 1
      /\ m + 1 \notin Expected => Rank(m + 1) = Rank(m)
  BY <1>1, RankSteps
<1> QED BY <1>2, <1>3, <1>4

\* At the end of a line, or behind its carriage return, the next begins.
LEMMA LineBehind ==
  ASSUME LineInv, SentOK, LineInv', SentOK',
         NEW m \in 0 .. Len(sent), NEW start \in Starts,
         InStep(m, start), AtLine(m, start),
         m + 1 \in 1 .. Len(sent), Fits(sent[m + 1]),
         stream # <<>>, stream' = Tail(stream),
         connection \in {"up", "ended", "failed"},
         UNCHANGED <<receiver, connection, sent>>, buffer' = <<>>,
         Len(lines') = Rank(m + 1),
         \/ Len(sent[m + 1].bytes) = Len(buffer) + 1
         \/ /\ Len(sent[m + 1].bytes) = Len(buffer) + 2
            /\ receiver = "client"
            /\ stream' # <<>> => Head(stream') = LF
  PROVE  Place'
PROOF
<1>1. PICK next \in Starts :
        /\ \A j \in 1 .. (Len(sent) + 1) : next[j] = start[j] - 1
        /\ OnStream(next)'
  BY Nearer DEF InStep
<1>2. Len(sent) \in Nat /\ Len(buffer) \in Nat
  BY LenProperties DEF LineInv
<1>3. next[m + 2] = Len(sent[m + 1].bytes) - Len(buffer) - 1
  <2>1. m + 2 \in 1 .. (Len(sent) + 1)
    BY <1>2
  <2>2. /\ start[m + 2] = start[m + 1] + Len(sent[m + 1].bytes)
        /\ Len(sent[m + 1].bytes) \in Nat
    BY NextStart DEF InStep
  <2>3. next[m + 2] = start[m + 2] - 1
    BY <1>1, <2>1
  <2>4. start[m + 1] = 0 - Len(buffer)
    BY DEF AtLine
  <2>5. start[m + 1] \in Int
    BY NextStart DEF InStep
  <2> DEFINE l == Len(sent[m + 1].bytes)
             r == Len(buffer)
  <2>6. /\ l \in Nat /\ r \in Nat /\ start[m + 1] = 0 - r
        /\ start[m + 2] = start[m + 1] + l
    BY <1>2, <2>2, <2>4
  <2> HIDE DEF l, r
  <2>7. next[m + 2] = l - r - 1
    BY <2>3, <2>5, <2>6
  <2> QED BY <2>7 DEF l, r
<1> DEFINE n == m + 1
<1>4. /\ n \in 0 .. Len(sent') /\ n + 1 = m + 2
      /\ n = m + 1
  BY <1>2
<1>5. /\ \A j \in 1 .. n : Fits(sent[j])
      /\ Len(lines') = Rank(n)
  BY NextRank DEF InStep
<1>6. /\ \A j \in 1 .. n : Fits(sent[j])'
      /\ Len(lines') = Rank(n)'
  BY <1>5, ExpectedStays DEF Fits
<1>7. next[n + 1] = 0 \/ BehindCR(n, next)'
  <2>1. CASE Len(sent[m + 1].bytes) = Len(buffer) + 1
    BY <1>2, <1>3, <1>4, <2>1
  <2>2. CASE /\ Len(sent[m + 1].bytes) = Len(buffer) + 2
             /\ receiver = "client"
             /\ stream' # <<>> => Head(stream') = LF
    <3>1. next[n + 1] = 1
      BY <1>2, <1>3, <1>4, <2>2
    <3> QED BY <2>2, <3>1 DEF BehindCR
  <2> QED BY <2>1, <2>2
<1> HIDE DEF n
<1>8. next \in [1 .. (Len(sent') + 1) -> Int]
  BY DEF Starts
<1> QED BY <1>1, <1>4, <1>6, <1>7, <1>8, BeginningNext

\* readln hands over the line that was sent.
LEMMA ServerLineEnd ==
  ASSUME LineInv, SentOK, LineInv', SentOK',
         NEW m \in 0 .. Len(sent), NEW start \in Starts,
         InStep(m, start), ReadLineEnd
  PROVE  /\ Place'
         /\ \A n \in Expected :
              Rank(n) = Len(lines) + 1 => sent[n].text = CString(buffer)
PROOF
<1>1. /\ receiver = "server" /\ connection \in {"up", "ended", "failed"}
      /\ stream # <<>> /\ stream' = Tail(stream) /\ Byte = LF
      /\ UNCHANGED <<receiver, connection, sent>> /\ buffer' = <<>>
      /\ Handle(CString(buffer), FALSE)
  BY DEF ReadLineEnd, Read
<1>2. AtLine(m, start)
  BY <1>1 DEF InStep, BehindCR
<1> DEFINE t == sent[m + 1].text
<1>3. t = sent[m + 1].text
  OBVIOUS
<1> HIDE DEF t
<1>4. /\ m + 1 \in 1 .. Len(sent) /\ Fits(sent[m + 1])
      /\ t \in Seq(STRING) /\ Len(t) \in Nat /\ Len(buffer) \in Nat
      /\ \A i \in 1 .. Len(t) : t[i] \notin {CR, LF, NUL}
      /\ \A i \in 1 .. Len(buffer) :
           /\ i <= Len(t) => buffer[i] = t[i]
           /\ i = Len(t) + 1 /\ Len(buffer) = i => buffer[i] = NUL
      /\ \/ Len(buffer) < Len(t) /\ Byte = t[Len(buffer) + 1]
         \/ Byte = CR
         \/ /\ Len(buffer) = Len(t) \/ Len(buffer) = Len(t) + 1
            /\ Len(sent[m + 1].bytes) = Len(buffer) + 1
  <2>1. OfLine(m, t)
    BY <1>1, <1>2, <1>3, ByteOfLine
  <2> QED BY <2>1 DEF OfLine
<1>5. /\ Len(buffer) = Len(t) \/ Len(buffer) = Len(t) + 1
      /\ Len(sent[m + 1].bytes) = Len(buffer) + 1
  <2>1. Len(buffer) < Len(t) => t[Len(buffer) + 1] # LF
    BY <1>4
  <2> QED BY <1>1, <1>4, <2>1, LineBreaks
<1>6. CString(buffer) = t
  <2>1. \A i \in 1 .. Len(t) : buffer[i] = t[i] /\ t[i] # NUL
    BY <1>4, <1>5
  <2>2. Len(buffer) = Len(t) + 1 => buffer[Len(t) + 1] = NUL
    BY <1>4
  <2>3. buffer \in Seq(STRING)
    BY DEF LineInv
  <2> QED BY <1>4, <1>5, <2>1, <2>2, <2>3, CStringIs
<1>7. Handed(t, FALSE)
  BY <1>1, <1>4, <1>6, HandleIs DEF LineInv
<1>8. /\ m + 1 \in Expected /\ Rank(m + 1) = Rank(m) + 1 /\ Rank(m) \in Nat
      /\ Len(lines) = Rank(m)
  BY <1>1, <1>4, NextRank DEF InStep
<1>9. Len(lines') = Rank(m + 1)
  BY <1>7, <1>8 DEF Handed
<1>10. Place'
  BY <1>1, <1>2, <1>4, <1>5, <1>9, LineBehind
<1>11. ASSUME NEW n \in Expected, Rank(n) = Len(lines) + 1
       PROVE  sent[n].text = CString(buffer)
  <2>1. m \in Nat
    BY LenProperties DEF LineInv
  <2>2. n = m + 1
    BY <1>8, <1>11, <2>1, RankIs
  <2> QED BY <1>3, <1>6, <2>2
<1> QED BY <1>10, <1>11

\* The client hands over the line that was sent when it reads its carriage
\* return, and drops the line feed behind.
LEMMA ClientLineEnd ==
  ASSUME LineInv, SentOK, LineInv', SentOK',
         NEW m \in 0 .. Len(sent), NEW start \in Starts,
         InStep(m, start), ListenLineEnd
  PROVE  /\ Place'
         /\ buffer # <<>> => \A n \in Expected :
              Rank(n) = Len(lines) + 1 => sent[n].text = buffer
PROOF
<1>1. /\ receiver = "client" /\ receiver # "server"
      /\ connection \in {"up", "ended", "failed"}
      /\ stream # <<>> /\ stream' = Tail(stream) /\ Byte \in {CR, LF}
      /\ UNCHANGED <<receiver, connection, sent>> /\ buffer' = <<>>
      /\ IF buffer = <<>> THEN UNCHANGED lines ELSE Handle(buffer, FALSE)
  BY DEF ListenLineEnd, Read
<1>2. /\ Len(stream) \in Nat /\ Len(stream') = Len(stream) - 1
      /\ stream' # <<>> => 2 \in 1 .. Len(stream) /\ Head(stream') = stream[2]
  <2>1. /\ Len(stream) \in Nat /\ Len(stream') = Len(stream) - 1
        /\ \A i \in 1 .. Len(stream') : stream'[i] = stream[i + 1]
        /\ stream' \in Seq(STRING)
    BY <1>1, LenProperties, EmptySeq, HeadTailProperties DEF LineInv
  <2>2. ASSUME stream' # <<>>
        PROVE  2 \in 1 .. Len(stream) /\ Head(stream') = stream[2]
    <3>1. Len(stream') \in Nat /\ Len(stream') # 0
      BY <2>1, <2>2, LenProperties, EmptySeq
    <3>2. Head(stream') = stream'[1]
      BY <2>1, <2>2, HeadTailProperties
    <3> QED BY <2>1, <3>1, <3>2
  <2> QED BY <2>1, <2>2
<1>3. CASE BehindCR(m, start)
  <2>1. PICK next \in Starts :
          /\ \A j \in 1 .. (Len(sent) + 1) : next[j] = start[j] - 1
          /\ OnStream(next)'
    BY <1>1, Nearer DEF InStep
  <2>2. next[m + 1] = 0
    <3>1. m + 1 \in 1 .. (Len(sent) + 1)
      BY LenProperties DEF LineInv
    <3>2. start[m + 1] = 1
      BY <1>3 DEF BehindCR
    <3> QED BY <2>1, <3>1, <3>2
  <2>3. buffer = <<>> /\ UNCHANGED lines
    BY <1>1, <1>3 DEF BehindCR
  <2>4. /\ \A j \in 1 .. m : Fits(sent[j])'
        /\ Len(lines') = Rank(m)'
    BY <1>1, <2>3, ExpectedStays DEF InStep, Fits
  <2>5. m \in 0 .. Len(sent') /\ next \in [1 .. (Len(sent') + 1) -> Int]
    BY <1>1 DEF Starts
  <2>6. Place'
    BY <1>1, <2>1, <2>2, <2>4, <2>5, BeginningNext
  <2> QED BY <2>3, <2>6
<1>4. CASE AtLine(m, start)
  <2> DEFINE t == sent[m + 1].text
  <2>1. t = sent[m + 1].text
    OBVIOUS
  <2> HIDE DEF t
  <2>2. /\ m + 1 \in 1 .. Len(sent) /\ Fits(sent[m + 1])
        /\ t \in Seq(STRING) /\ Len(t) \in Nat /\ Len(buffer) \in Nat
        /\ \A i \in 1 .. Len(t) : t[i] \notin {CR, LF, NUL}
        /\ \A i \in 1 .. Len(buffer) : i <= Len(t) => buffer[i] = t[i]
        /\ \/ Len(buffer) < Len(t) /\ Byte = t[Len(buffer) + 1]
           \/ /\ Len(buffer) = Len(t)
              /\ Len(sent[m + 1].bytes) = Len(t) + 2
              /\ 2 \in 1 .. Len(stream) => stream[2] = LF
    <3>1. OfLine(m, t)
      BY <1>1, <1>4, <2>1, ByteOfLine
    <3> QED BY <1>1, <3>1 DEF OfLine
  <2>3. /\ Len(buffer) = Len(t)
        /\ Len(sent[m + 1].bytes) = Len(buffer) + 2
        /\ 2 \in 1 .. Len(stream) => stream[2] = LF
    <3>1. Len(buffer) < Len(t) => t[Len(buffer) + 1] \notin {CR, LF}
      BY <2>2
    <3> QED BY <1>1, <2>2, <3>1
  <2>4. buffer = t
    <3>1. buffer \in Seq(STRING)
      BY DEF LineInv
    <3> QED BY <2>2, <2>3, <3>1, SeqEqual
  <2>5. /\ Rank(m) \in Nat /\ Len(lines) = Rank(m)
        /\ IF t # <<>>
             THEN m + 1 \in Expected /\ Rank(m + 1) = Rank(m) + 1
             ELSE Rank(m + 1) = Rank(m)
    BY <1>1, <2>1, <2>2, NextRank DEF InStep
  <2>6. Len(lines') = Rank(m + 1)
    <3>1. CASE t = <<>>
      BY <1>1, <2>4, <2>5, <3>1
    <3>2. CASE t # <<>>
      <4>1. Handed(t, FALSE)
        BY <1>1, <2>2, <2>4, <3>2, HandleIs DEF LineInv
      <4> QED BY <2>5, <3>2, <4>1 DEF Handed
    <3> QED BY <3>1, <3>2
  <2>7. Place'
    BY <1>1, <1>2, <1>4, <2>2, <2>3, <2>6, LineBehind
  <2>8. ASSUME buffer # <<>>,
               NEW n \in Expected, Rank(n) = Len(lines) + 1
        PROVE  sent[n].text = buffer
    <3>1. m \in Nat /\ m + 1 \in Expected
      BY <2>4, <2>5, <2>8, LenProperties DEF LineInv
    <3>2. n = m + 1
      BY <2>5, <2>8, <3>1, RankIs
    <3> QED BY <2>1, <2>4, <3>2
  <2> QED BY <2>7, <2>8
<1> QED BY <1>3, <1>4 DEF InStep

-----------------------------------------------------------------------------
(* Steps of the sender and of the connection                               *)

\* What a step leaves alone that takes nothing from the stream, or only its
\* end.
LEMMA StreamCut ==
  ASSUME LineInv, NEW m \in 0 .. Len(sent), NEW start \in Starts,
         InStep(m, start), UNCHANGED <<receiver, buffer, lines, sent>>,
         connection' \in {"opening", "up"} =>
           connection \in {"opening", "up"} /\ stream' = stream,
         NEW n \in 0 .. Len(stream), stream' = SubSeq(stream, 1, n)
  PROVE  Place'
PROOF
<1>0. Len(stream) \in Nat /\ Len(sent) \in Nat
  BY LenProperties DEF LineInv
<1>1. /\ stream' \in Seq(STRING) /\ Len(stream') = n
      /\ \A i \in 1 .. n : stream'[i] = stream[i]
  <2>1. 1 \in 1 .. (Len(stream) + 1) /\ n >= 1 - 1
    BY <1>0
  <2>2. /\ SubSeq(stream, 1, n) \in Seq(STRING)
        /\ Len(SubSeq(stream, 1, n)) = n - 1 + 1
        /\ \A i \in 1 .. (n - 1 + 1) :
             SubSeq(stream, 1, n)[i] = stream[1 + i - 1]
    BY <2>1, SubStringOK DEF LineInv
  <2>3. n - 1 + 1 = n /\ \A i \in 1 .. n : 1 + i - 1 = i
    BY <1>0
  <2> QED BY <2>2, <2>3
<1>2. Len(sent) + 1 \in 1 .. (Len(sent) + 1)
      /\ \A j \in 1 .. (Len(sent) + 1) : start[j] \in Int
  BY <1>0 DEF Starts
<1>3. OnStream(start)'
  <2>1. \A j \in 1 .. Len(sent) :
          /\ start[j + 1] = start[j] + Len(sent[j].bytes)
          /\ \A i \in 1 .. Len(sent[j].bytes) :
               start[j] + i \in 1 .. Len(stream') =>
                 stream'[start[j] + i] = sent[j].bytes[i]
    <3>1. \A k \in 1 .. Len(stream') :
            k \in 1 .. Len(stream) /\ stream'[k] = stream[k]
      BY <1>0, <1>1
    <3> QED BY <3>1 DEF InStep, OnStream
  <2>2. /\ \A j \in 1 .. (Len(sent) + 1) : start[j] <= start[Len(sent) + 1]
        /\ Len(stream') <= start[Len(sent) + 1]
    <3>1. /\ \A j \in 1 .. (Len(sent) + 1) : start[j] <= start[Len(sent) + 1]
          /\ Len(stream) <= start[Len(sent) + 1]
      BY DEF InStep, OnStream
    <3>2. start[Len(sent) + 1] \in Int
      BY <1>2
    <3> QED BY <1>0, <1>1, <3>1, <3>2
  <2>3. connection' \in {"opening", "up"} =>
          Len(stream') = start[Len(sent) + 1]
    BY DEF InStep, OnStream
  <2> QED BY <2>1, <2>2, <2>3 DEF OnStream
<1>4. AtLine(m, start)' <=> AtLine(m, start)
  BY DEF AtLine, Stored
<1>5. BehindCR(m, start) => BehindCR(m, start)'
  <2>1. ASSUME stream' # <<>>
        PROVE  stream # <<>> /\ Head(stream') = Head(stream)
    <3>1. Len(stream') # 0
      BY <1>1, <2>1, EmptySeq
    <3>2. 1 \in 1 .. n /\ Len(stream) # 0
      BY <1>0, <1>1, <3>1
    <3>3. stream # <<>> /\ stream \in Seq(STRING)
      BY <3>2, EmptySeq DEF LineInv
    <3> QED BY <1>1, <2>1, <3>2, <3>3, HeadTailProperties
  <2> QED BY <2>1 DEF BehindCR
<1>6. /\ \A j \in 1 .. m : Fits(sent[j])'
      /\ m < Len(sent') => Fits(sent[m + 1])'
      /\ Len(lines') = Rank(m)'
  BY ExpectedStays DEF InStep, Fits
<1>7. InStep(m, start)'
  BY <1>3, <1>4, <1>5, <1>6 DEF InStep
<1>8. m \in 0 .. Len(sent') /\ start \in Starts'
  BY DEF Starts
<1> QED BY <1>7, <1>8 DEF Place

\* Where nothing happens to the lines and the stream.
LEMMA PlaceStays ==
  ASSUME LineInv, Place, UNCHANGED <<receiver, stream, buffer, lines, sent>>,
         connection = "closed" => connection' = "closed",
         connection' \in {"opening", "up"} => connection \in {"opening", "up"}
  PROVE  Place'
PROOF
<1>1. CASE connection = "closed"
  BY <1>1 DEF Place
<1>2. CASE Past
  BY <1>2, PastStays DEF Place
<1>3. ASSUME NEW m \in 0 .. Len(sent), NEW start \in Starts, InStep(m, start)
      PROVE  Place'
  <2>1. Len(stream) \in Nat /\ stream \in Seq(STRING)
    BY LenProperties DEF LineInv
  <2>2. Len(stream) \in 0 .. Len(stream)
    BY <2>1
  <2>3. stream' = SubSeq(stream, 1, Len(stream))
    <3>1. 1 \in 1 .. (Len(stream) + 1) /\ Len(stream) >= 1 - 1
      BY <2>1
    <3>2. /\ SubSeq(stream, 1, Len(stream)) \in Seq(STRING)
          /\ Len(SubSeq(stream, 1, Len(stream))) = Len(stream) - 1 + 1
          /\ \A i \in 1 .. (Len(stream) - 1 + 1) :
               SubSeq(stream, 1, Len(stream))[i] = stream[1 + i - 1]
      BY <2>1, <2>2, <3>1, SubStringOK
    <3>3. /\ Len(stream) - 1 + 1 = Len(stream)
          /\ \A i \in 1 .. Len(stream) : 1 + i - 1 = i
      BY <2>1
    <3>4. /\ Len(SubSeq(stream, 1, Len(stream))) = Len(stream)
          /\ \A i \in 1 .. Len(stream) :
               SubSeq(stream, 1, Len(stream))[i] = stream[i]
      BY <3>2, <3>3
    <3> QED BY <2>1, <3>2, <3>4, SeqEqual
  <2>4. connection' \in {"opening", "up"} =>
          connection \in {"opening", "up"} /\ stream' = stream
    OBVIOUS
  <2> QED BY <1>3, <2>2, <2>3, <2>4, StreamCut
<1> QED BY <1>1, <1>2, <1>3 DEF Place

\* One line more on its way.
LEMMA StreamGrows ==
  ASSUME LineInv, NEW start \in Starts, OnStream(start),
         connection = "up", UNCHANGED connection,
         NEW text \in Seq(STRING), NEW bytes \in Seq(STRING),
         stream' = stream \o bytes,
         sent' = Append(sent, [text |-> text, bytes |-> bytes])
  PROVE  \E next \in [1 .. (Len(sent') + 1) -> Int] :
           /\ \A j \in 1 .. (Len(sent) + 1) : next[j] = start[j]
           /\ OnStream(next)'
PROOF
<1>1. /\ Len(sent) \in Nat /\ Len(stream) \in Nat /\ Len(bytes) \in Nat
      /\ Len(stream') = Len(stream) + Len(bytes)
      /\ \A i \in 1 .. Len(stream) : stream'[i] = stream[i]
      /\ \A i \in 1 .. Len(bytes) : stream'[Len(stream) + i] = bytes[i]
  BY LenProperties, ConcatProperties DEF LineInv
<1>2. /\ Len(sent') = Len(sent) + 1
      /\ \A i \in 1 .. Len(sent) : sent'[i] = sent[i]
      /\ sent'[Len(sent) + 1] = [text |-> text, bytes |-> bytes]
  BY AppendProperties DEF LineInv
<1> DEFINE n == Len(sent) + 1
<1>3. /\ n \in Nat /\ n \in 1 .. n /\ Len(sent') = n
      /\ n + 1 \in 1 .. (n + 1) /\ n + 1 \notin 1 .. n
      /\ \A j \in 1 .. n : j \in 1 .. (n + 1)
      /\ \A j \in 1 .. (n + 1) : j \in 1 .. n \/ j = n + 1
      /\ \A j \in 1 .. n : j \in 1 .. Len(sent) \/ j = n
      /\ \A j \in 1 .. Len(sent) : j \in 1 .. n /\ j + 1 \in 1 .. n
  BY <1>1, <1>2
<1>4. \A j \in 1 .. n : start[j] \in Int
  BY DEF Starts
<1>5. /\ \A j \in 1 .. n : start[j] <= start[n]
      /\ Len(stream) = start[n]
  BY DEF OnStream
<1>6. \A j \in 1 .. Len(sent) :
        /\ start[j + 1] = start[j] + Len(sent[j].bytes)
        /\ \A i \in 1 .. Len(sent[j].bytes) :
             start[j] + i \in 1 .. Len(stream) =>
               stream[start[j] + i] = sent[j].bytes[i]
  BY DEF OnStream
<1>7. sent'[n].bytes = bytes /\ \A j \in 1 .. Len(sent) : sent'[j] = sent[j]
  BY <1>2
<1>s. \A j \in 1 .. Len(sent) : Len(sent[j].bytes) \in Nat
  <2>1. \A j \in 1 .. Len(sent) :
          sent[j] \in [text : Seq(STRING), bytes : Seq(STRING)]
    BY ElementOfSeq DEF LineInv
  <2> QED BY <2>1, LenProperties
<1> HIDE DEF n
<1>8. PICK next \in [1 .. (n + 1) -> Int] :
        /\ \A j \in 1 .. n : next[j] = start[j]
        /\ next[n + 1] = start[n] + Len(bytes)
  <2> DEFINE f == [j \in 1 .. (n + 1) |->
                     IF j = n + 1 THEN start[n] + Len(bytes) ELSE start[j]]
  <2>1. f \in [1 .. (n + 1) -> Int]
    BY <1>1, <1>3, <1>4
  <2>2. (\A j \in 1 .. n : f[j] = start[j]) /\ f[n + 1] = start[n] + Len(bytes)
    BY <1>3
  <2> QED BY <2>1, <2>2
<1>9. ASSUME NEW j \in 1 .. n
      PROVE  /\ next[j + 1] = next[j] + Len(sent'[j].bytes)
             /\ \A i \in 1 .. Len(sent'[j].bytes) :
                  next[j] + i \in 1 .. Len(stream') =>
                    stream'[next[j] + i] = sent'[j].bytes[i]
  <2>1. CASE j = n
    <3>1. next[j] = Len(stream) /\ next[j + 1] = Len(stream) + Len(bytes)
      BY <1>3, <1>5, <1>8, <2>1
    <3> QED BY <1>1, <1>7, <2>1, <3>1
  <2>2. CASE j \in 1 .. Len(sent)
    <3>1. next[j] = start[j] /\ next[j + 1] = start[j + 1]
      BY <1>3, <1>8, <2>2
    <3>2. start[j + 1] = start[j] + Len(sent[j].bytes)
          /\ start[j + 1] <= Len(stream)
          /\ start[j] \in Int
      BY <1>3, <1>4, <1>5, <1>6, <2>2
    <3>3. ASSUME NEW i \in 1 .. Len(sent[j].bytes),
                 start[j] + i \in 1 .. Len(stream')
          PROVE  stream'[start[j] + i] = sent[j].bytes[i]
      <4>1. start[j] + i <= start[j] + Len(sent[j].bytes)
        BY <1>s, <2>2, <3>2
      <4>2. start[j] + i \in 1 .. Len(stream)
        BY <1>1, <1>s, <2>2, <3>2, <3>3, <4>1
      <4>3. stream'[start[j] + i] = stream[start[j] + i]
        BY <1>1, <4>2
      <4> QED BY <1>6, <2>2, <4>2, <4>3
    <3> QED BY <1>7, <2>2, <3>1, <3>2, <3>3
  <2> QED BY <1>3, <2>1, <2>2
<1>10. /\ \A j \in 1 .. (n + 1) : next[j] <= next[n + 1]
       /\ Len(stream') <= next[n + 1]
       /\ Len(stream') = next[n + 1]
  <2>1. next[n + 1] = Len(stream) + Len(bytes)
    BY <1>5, <1>8
  <2>2. \A j \in 1 .. n : next[j] <= Len(stream) /\ next[j] \in Int
    BY <1>4, <1>5, <1>8
  <2>3. ASSUME NEW j \in 1 .. (n + 1) PROVE next[j] <= next[n + 1]
    <3>1. CASE j = n + 1
      BY <1>1, <2>1, <3>1
    <3>2. CASE j \in 1 .. n
      BY <1>1, <2>1, <2>2, <3>2
    <3> QED BY <1>3, <3>1, <3>2
  <2> QED BY <1>1, <2>1, <2>3
<1>11. OnStream(next)'
  BY <1>3, <1>9, <1>10 DEF OnStream
<1> QED BY <1>3, <1>8, <1>11 DEF n

\* No line has the rank of one before.
RanksRise ==
  \A n \in Expected, k \in Nat :
    k < n => Rank(k) < Rank(n) /\ Rank(k) \in Nat /\ Rank(n) \in Nat

LEMMA RanksRising ==
  LineInv => RanksRise
BY RankOrder, RankSteps, ExpectedIs DEF RanksRise

\* What is sent does not disturb what was read.
LEMMA SendArrives ==
  ASSUME LineInv, SentOK, Matches, Place, LineInv',
         NEW text \in Texts, NEW bytes \in Seq(STRING),
         SendBytes(text, bytes),
         bytes[Len(bytes)] = LF =>
           \/ bytes = text \o <<CR, LF>>
           \/ receiver = "server" /\ bytes = text \o <<LF>>
  PROVE  SentOK' /\ Matches' /\ Place'
PROOF
<1> DEFINE r == [text |-> text, bytes |-> bytes]
<1>1. /\ connection = "up" /\ stream' = stream \o bytes
      /\ sent' = Append(sent, r)
      /\ UNCHANGED <<receiver, connection, buffer, lines>>
  BY DEF SendBytes
<1>2. /\ text \in Seq(STRING)
      /\ r \in [text : Seq(STRING), bytes : Seq(STRING)]
      /\ r.text = text /\ r.bytes = bytes
  BY LineAssumption
<1>3. Len(sent) \in Nat
  BY LenProperties DEF LineInv
<1> HIDE DEF r
<1>4. /\ Len(sent') = Len(sent) + 1
      /\ \A i \in 1 .. Len(sent) : sent'[i] = sent[i]
      /\ sent'[Len(sent) + 1] = r
      /\ \A i \in 1 .. Len(sent) : Fits(sent[i])' <=> Fits(sent[i])
      /\ Expected = {n \in Expected' : n <= Len(sent)}
      /\ \A n \in 0 .. Len(sent) : Rank(n)' = Rank(n)
  BY <1>1, <1>2, ExpectedGrows
<1>5. SentOK'
  <2>1. ASSUME NEW j \in 1 .. Len(sent')
        PROVE  /\ sent'[j].text \in Texts
               /\ Fits(sent[j])' =>
                    \/ sent'[j].bytes = sent'[j].text \o <<CR, LF>>
                    \/ /\ receiver' = "server"
                       /\ sent'[j].bytes = sent'[j].text \o <<LF>>
    <3>1. CASE j \in 1 .. Len(sent)
      BY <1>1, <1>4, <3>1 DEF SentOK
    <3>2. CASE j = Len(sent) + 1
      <4>1. sent'[j].text = text /\ sent'[j].bytes = bytes
        BY <1>2, <1>4, <3>2
      <4>2. Fits(sent[j])' => bytes[Len(bytes)] = LF
        BY <4>1 DEF Fits
      <4> QED BY <1>1, <4>1, <4>2
    <3>3. j \in 1 .. Len(sent) \/ j = Len(sent) + 1
      BY <1>3, <1>4
    <3> QED BY <3>1, <3>2, <3>3, Zenon
  <2> QED BY <2>1 DEF SentOK
<1>6. \A n \in Expected' : n \in Expected \/ n = Len(sent) + 1
  <2>1. \A n \in Expected' : n \in 1 .. (Len(sent) + 1)
    BY <1>4 DEF Expected
  <2> QED BY <1>3, <1>4, <2>1
<1>7. CASE Past
  <2>1. PICK j \in 1 .. Len(sent) : ~ Fits(sent[j])
    BY <1>7 DEF Past
  <2>2. j \in 1 .. Len(sent') /\ ~ Fits(sent[j])'
    BY <1>3, <1>4, <2>1
  <2>3. Len(sent) + 1 \notin Expected'
    <3>1. SUFFICES ASSUME Len(sent) + 1 \in Expected' PROVE FALSE
      OBVIOUS
    <3>2. \A i \in 1 .. (Len(sent) + 1) : Fits(sent[i])'
      BY <3>1 DEF Expected
    <3>3. j \in 1 .. (Len(sent) + 1)
      BY <1>3
    <3> QED BY <2>2, <3>2, <3>3
  <2>4. Expected' = Expected
    BY <1>4, <1>6, <2>3
  <2>5. Place'
    BY <1>1, <1>7, <2>2, <2>4 DEF Past, Place
  <2>6. Matches'
    <3>1. \A n \in Expected : n \in 0 .. Len(sent) /\ n \in 1 .. Len(sent)
      BY <1>3, ExpectedIs
    <3>2. ASSUME NEW n \in Expected'
          PROVE  Rank(n)' <= Len(lines') /\ ~ lines'[Rank(n)'].garbled =>
                   lines'[Rank(n)'].text = sent'[n].text
      <4>1. n \in Expected /\ Rank(n)' = Rank(n) /\ sent'[n] = sent[n]
        BY <1>4, <2>4, <3>1
      <4> QED BY <1>1, <4>1 DEF Matches
    <3> QED BY <3>2 DEF Matches
  <2> QED BY <1>5, <2>5, <2>6
<1>8. ASSUME NEW m \in 0 .. Len(sent), NEW start \in Starts, InStep(m, start)
      PROVE  SentOK' /\ Matches' /\ Place'
  <2>1. PICK next \in [1 .. (Len(sent') + 1) -> Int] :
          /\ \A j \in 1 .. (Len(sent) + 1) : next[j] = start[j]
          /\ OnStream(next)'
    BY <1>1, <1>2, <1>8, StreamGrows DEF InStep, r
  <2>2. m + 1 \in 1 .. (Len(sent) + 1) /\ m \in 0 .. Len(sent')
        /\ next[m + 1] = start[m + 1]
    BY <1>3, <1>4, <2>1
  <2>3. /\ \A j \in 1 .. m : Fits(sent[j])'
        /\ Len(lines') = Rank(m)' /\ Len(lines) = Rank(m)
    <3>1. \A j \in 1 .. m : j \in 1 .. Len(sent) /\ Fits(sent[j])
      BY <1>3, <1>8 DEF InStep
    <3> QED BY <1>1, <1>4, <1>8, <3>1 DEF InStep
  <2>4. ASSUME BehindCR(m, start) PROVE Place'
    <3>1. stream # <<>>
      <4>1. SUFFICES ASSUME stream = <<>> PROVE FALSE
        OBVIOUS
      <4>2. Len(stream) = 0
        BY <4>1, EmptySeq
      <4>3. start[m + 1] <= start[Len(sent) + 1]
            /\ Len(stream) = start[Len(sent) + 1]
        BY <1>1, <1>8, <2>2 DEF InStep, OnStream
      <4>4. start[m + 1] = 1
        BY <2>4 DEF BehindCR
      <4> QED BY <4>2, <4>3, <4>4
    <3>2. Head(stream') = Head(stream)
      <4>1. /\ stream \in Seq(STRING) /\ Len(stream) \in Nat
            /\ Len(stream) # 0
        BY <3>1, LenProperties, EmptySeq DEF LineInv
      <4>2. /\ stream' \in Seq(STRING) /\ Len(bytes) \in Nat
            /\ Len(stream') = Len(stream) + Len(bytes)
            /\ \A i \in 1 .. Len(stream) : stream'[i] = stream[i]
        BY <1>1, <4>1, ConcatProperties, LenProperties
      <4>3. stream' # <<>> /\ 1 \in 1 .. Len(stream)
        BY <4>1, <4>2, EmptySeq
      <4> QED BY <3>1, <4>1, <4>2, <4>3, HeadTailProperties
    <3>3. BehindCR(m, next)' /\ buffer' = <<>>
      BY <1>1, <2>2, <2>4, <3>1, <3>2 DEF BehindCR
    <3> QED BY <1>5, <2>1, <2>2, <2>3, <3>3, BeginningNext
  <2>5. ASSUME AtLine(m, start), m = Len(sent) PROVE Place'
    <3>1. buffer' = <<>> /\ next[m + 1] = 0
      <4>1. buffer = <<>> /\ start[m + 1] = 0 - Len(buffer)
        BY <2>5 DEF AtLine
      <4>2. Len(buffer) = 0
        BY <4>1, EmptySeq
      <4> DEFINE k == Len(buffer)
      <4>3. k = 0 /\ start[m + 1] = 0 - k
        BY <4>1, <4>2
      <4> HIDE DEF k
      <4>4. start[m + 1] = 0
        BY <4>3
      <4> QED BY <1>1, <2>2, <4>1, <4>4
    <3> QED BY <1>5, <2>1, <2>2, <2>3, <3>1, BeginningNext
  <2>6. ASSUME AtLine(m, start), m # Len(sent) PROVE Place'
    <3>1. m < Len(sent) /\ m + 1 \in 1 .. Len(sent)
          /\ sent'[m + 1] = sent[m + 1] /\ m # Len(sent')
      BY <1>3, <1>4, <2>6
    <3>2. AtLine(m, next)'
      <4>1. /\ next[m + 1] = 0 - Len(buffer')
            /\ ~ (m = Len(sent'))
            /\ \A i \in 1 .. Len(buffer') :
                 buffer'[i] = Stored(sent'[m + 1].bytes[i])
            /\ receiver' = "server" => Len(buffer') < Len(sent'[m + 1].bytes)
            /\ receiver' = "client" => Len(buffer') <= Len(sent'[m + 1].text)
        BY <1>1, <2>2, <2>6, <3>1 DEF AtLine
      <4> QED BY <4>1, Zenon DEF AtLine, Stored
    <3>3. Fits(sent[m + 1])'
      BY <1>4, <1>8, <3>1 DEF InStep
    <3>4. InStep(m, next)'
      BY <2>1, <2>3, <3>2, <3>3 DEF InStep
    <3>5. next \in Starts'
      BY DEF Starts
    <3> QED BY <2>2, <3>4, <3>5 DEF Place
  <2>7. Place'
    BY <1>8, <2>4, <2>5, <2>6 DEF InStep
  <2>8. ASSUME NEW n \in Expected', Rank(n)' <= Len(lines'),
               ~ lines'[Rank(n)'].garbled
        PROVE  lines'[Rank(n)'].text = sent'[n].text
    <3>1. CASE n \in Expected
      <4>1. n \in 0 .. Len(sent) /\ n \in 1 .. Len(sent)
        BY <1>3, <3>1, ExpectedIs
      <4>2. Rank(n)' = Rank(n) /\ sent'[n] = sent[n]
        BY <1>4, <4>1
      <4> QED BY <1>1, <2>8, <3>1, <4>2 DEF Matches
    <3>2. CASE n = Len(sent) + 1
      <4>1. RanksRise'
        BY RanksRising, PTL
      <4>2. m \in Nat /\ m < n
        BY <1>3, <3>2
      <4>3. Rank(m)' < Rank(n)' /\ Rank(m)' \in Nat /\ Rank(n)' \in Nat
        BY <4>1, <4>2 DEF RanksRise
      <4> QED BY <2>3, <2>8, <4>3
    <3> QED BY <1>6, <3>1, <3>2
  <2>9. Matches'
    BY <2>8 DEF Matches
  <2> QED BY <1>5, <2>7, <2>9
<1> QED BY <1>1, <1>7, <1>8 DEF Place

\* A line that was cut off has lost its line feed.
LEMMA CutLine ==
  ASSUME NEW text \in Texts, NEW b, b = Cut(text \o <<CR, LF>>),
         b[Len(b)] = LF
  PROVE  b = text \o <<CR, LF>>
PROOF
<1> DEFINE s == text \o <<CR, LF>>
           n == MAX_LINE_LENGTH - 2
<1>1. /\ text \in Seq(STRING) /\ <<CR, LF>> \in Seq(STRING)
      /\ Len(<<CR, LF>>) = 2 /\ <<CR, LF>>[1] = CR
      /\ Len(text) \in Nat
  BY LineAssumption, CharactersAssumption, LenProperties
<1>2. /\ s \in Seq(STRING) /\ Len(s) = Len(text) + 2
      /\ \A i \in 1 .. Len(text) : s[i] = text[i]
      /\ s[Len(text) + 1] = CR
  BY <1>1, ConcatProperties
<1>3. \A i \in 1 .. (Len(text) + 1) : s[i] # LF
  <2>1. \A i \in 1 .. Len(text) : text[i] # LF
    BY TextsAssumption
  <2>2. \A i \in 1 .. (Len(text) + 1) :
          i \in 1 .. Len(text) \/ i = Len(text) + 1
    BY <1>1
  <2> QED BY <1>2, <2>1, <2>2, LineBreaks
<1>4. n \in Nat /\ n >= 1
  BY LineAssumption
<1>5. b = SubSeq(s, 1, IF Len(s) <= n THEN Len(s) ELSE n)
  BY DEF Cut
<1> HIDE DEF s, n
<1>6. CASE Len(s) <= n
  <2>1. b = SubSeq(s, 1, Len(s))
    BY <1>5, <1>6
  <2>2. 1 \in 1 .. (Len(s) + 1) /\ Len(s) \in 0 .. Len(s) /\ Len(s) >= 1 - 1
    BY <1>1, <1>2
  <2>3. /\ b \in Seq(STRING) /\ Len(b) = Len(s) - 1 + 1
        /\ \A i \in 1 .. (Len(s) - 1 + 1) : b[i] = s[1 + i - 1]
    BY <1>2, <2>1, <2>2, SubStringOK
  <2>4. Len(s) - 1 + 1 = Len(s) /\ \A i \in 1 .. Len(s) : 1 + i - 1 = i
    BY <1>1, <1>2
  <2>5. Len(b) = Len(s) /\ \A i \in 1 .. Len(s) : b[i] = s[i]
    BY <2>3, <2>4
  <2> QED BY <1>2, <2>3, <2>5, SeqEqual DEF s
<1>7. CASE ~ (Len(s) <= n)
  <2>1. b = SubSeq(s, 1, n)
    BY <1>5, <1>7
  <2>2. 1 \in 1 .. (Len(s) + 1) /\ n \in 0 .. Len(s) /\ n >= 1 - 1
    BY <1>1, <1>2, <1>4, <1>7
  <2>3. /\ Len(b) = n - 1 + 1
        /\ \A i \in 1 .. (n - 1 + 1) : b[i] = s[1 + i - 1]
    BY <1>2, <2>1, <2>2, SubStringOK
  <2>4. Len(b) = n /\ b[n] = s[n]
    BY <1>4, <2>3
  <2>5. n \in 1 .. (Len(text) + 1)
    BY <1>1, <1>2, <1>4, <1>7
  <2> QED BY <1>3, <2>4, <2>5
<1> QED BY <1>6, <1>7

-----------------------------------------------------------------------------
(* The invariant                                                           *)

LEMMA ArriveInit ==
  Init => ArriveInv
PROOF
<1> SUFFICES ASSUME Init PROVE SentOK /\ GarbledLast /\ Matches /\ Place
  BY DEF ArriveInv
<1>1. /\ connection = "opening" /\ stream = <<>> /\ buffer = <<>>
      /\ lines = <<>> /\ sent = <<>>
      /\ Len(stream) = 0 /\ Len(buffer) = 0 /\ Len(lines) = 0 /\ Len(sent) = 0
  BY EmptySeq DEF Init
<1>2. LineInv
  BY LineInvInit
<1>3. SentOK /\ GarbledLast
  BY <1>1 DEF SentOK, GarbledLast
<1>4. Expected = {}
  BY <1>1 DEF Expected
<1>5. Matches
  BY <1>4 DEF Matches
<1>6. Len(lines) = Rank(0)
  BY <1>1, <1>2, RankSteps
<1>7. PICK start \in Starts : start[1] = 0
  <2>1. [j \in 1 .. 1 |-> 0] \in [1 .. 1 -> Int] /\ [j \in 1 .. 1 |-> 0][1] = 0
    OBVIOUS
  <2>2. Len(sent) + 1 = 1
    BY <1>1
  <2> QED BY <2>1, <2>2 DEF Starts
<1>8. /\ start[0 + 1] = 0 /\ Len(sent) + 1 = 1
      /\ \A j \in 1 .. 1 : j = 1
      /\ \A j \in 1 .. Len(sent) : FALSE
      /\ 0 <= 0
  BY <1>1, <1>7
<1>9. OnStream(start)
  <2>1. /\ start[Len(sent) + 1] = 0
        /\ \A j \in 1 .. (Len(sent) + 1) : start[j] <= 0
        /\ Len(stream) <= 0 /\ Len(stream) = 0
    BY <1>1, <1>7, <1>8
  <2> QED BY <1>8, <2>1 DEF OnStream
<1>10. AtLine(0, start)
  <2>1. start[0 + 1] = 0 - Len(buffer)
    <3> DEFINE k == Len(buffer)
    <3>1. k = 0
      BY <1>1
    <3> HIDE DEF k
    <3>2. start[0 + 1] = 0 - k
      BY <1>8, <3>1
    <3> QED BY <3>2 DEF k
  <2>2. ~ (0 < Len(sent))
    BY <1>1
  <2> QED BY <1>1, <2>1, <2>2, Zenon DEF AtLine
<1>11. InStep(0, start)
  <2>1. \A j \in 1 .. 0 : FALSE
    OBVIOUS
  <2>2. ~ (0 < Len(sent))
    BY <1>1
  <2> QED BY <1>6, <1>9, <1>10, <2>1, <2>2, Zenon DEF InStep
<1>12. 0 \in 0 .. Len(sent)
  BY <1>1
<1> QED BY <1>3, <1>5, <1>11, <1>12 DEF Place

\* Every step keeps it.
LEMMA ArriveNext ==
  LineInv /\ ArriveInv /\ [Next]_vars /\ LineInv' => ArriveInv'
PROOF
<1> SUFFICES ASSUME LineInv, SentOK, GarbledLast, Matches, Place,
                    [Next]_vars, LineInv'
             PROVE  SentOK' /\ GarbledLast' /\ Matches' /\ Place'
  BY DEF ArriveInv
<1>s. ASSUME UNCHANGED <<sent, receiver>> PROVE SentOK'
  BY <1>s DEF SentOK, Fits
<1>g. ASSUME UNCHANGED <<lines, connection>> PROVE GarbledLast'
  BY <1>g DEF GarbledLast
<1>1. CASE UNCHANGED lineVars
  <2>1. UNCHANGED <<receiver, connection, stream, buffer, lines, sent>>
    BY <1>1 DEF lineVars
  <2>2. Place'
    BY <2>1, PlaceStays
  <2> QED BY <1>s, <1>g, <2>1, <2>2, MatchesStay
<1>2. CASE Open
  <2>1. /\ connection = "opening" /\ connection' = "up"
        /\ UNCHANGED <<receiver, stream, buffer, lines, sent>>
    BY <1>2 DEF Open
  <2>2. Place'
    BY <2>1, PlaceStays
  <2>3. GarbledLast'
    BY <2>1 DEF GarbledLast
  <2> QED BY <1>s, <2>1, <2>2, <2>3, MatchesStay
<1>3. ASSUME NEW text \in Texts,
             sendln(text) \/ SendPlain(text) \/ printf(text)
      PROVE  SentOK' /\ GarbledLast' /\ Matches' /\ Place'
  <2>1. /\ text \o <<CR, LF>> \in Seq(STRING) /\ text \o <<LF>> \in Seq(STRING)
        /\ Cut(text \o <<CR, LF>>) \in Seq(STRING)
    <3>1. text \in Seq(STRING) /\ <<CR, LF>> \in Seq(STRING)
          /\ <<LF>> \in Seq(STRING)
      BY LineAssumption, CharactersAssumption
    <3>2. /\ text \o <<CR, LF>> \in Seq(STRING)
          /\ text \o <<LF>> \in Seq(STRING)
      BY <3>1, ConcatProperties
    <3> QED BY <3>2, CutOK
  <2>2. CASE sendln(text)
    <3>1. SendBytes(text, text \o <<CR, LF>>)
      BY <2>2 DEF sendln
    <3>2. UNCHANGED <<lines, connection>>
      BY <3>1 DEF SendBytes
    <3> QED BY <1>g, <2>1, <3>1, <3>2, SendArrives
  <2>3. CASE SendPlain(text)
    <3>1. SendBytes(text, text \o <<LF>>) /\ receiver = "server"
      BY <2>3 DEF SendPlain
    <3>2. UNCHANGED <<lines, connection>>
      BY <3>1 DEF SendBytes
    <3> QED BY <1>g, <2>1, <3>1, <3>2, SendArrives
  <2>4. CASE printf(text)
    <3> DEFINE b == Cut(text \o <<CR, LF>>)
    <3>1. b = Cut(text \o <<CR, LF>>) /\ b \in Seq(STRING)
      BY <2>1
    <3>2. SendBytes(text, b)
      BY <2>4 DEF printf
    <3> HIDE DEF b
    <3>3. UNCHANGED <<lines, connection>>
      BY <3>2 DEF SendBytes
    <3>4. b[Len(b)] = LF => b = text \o <<CR, LF>>
      BY <3>1, CutLine
    <3> QED BY <1>g, <3>1, <3>2, <3>3, <3>4, SendArrives
  <2> QED BY <1>3, <2>2, <2>3, <2>4
<1>4. CASE End
  <2>1. /\ connection = "up" /\ connection' \in {"ended", "failed"}
        /\ UNCHANGED <<receiver, buffer, lines, sent>>
        /\ \/ UNCHANGED stream
           \/ \E n \in 0 .. Len(stream) : stream' = SubSeq(stream, 1, n)
    BY <1>4 DEF End
  <2>2. Place'
    <3>1. CASE UNCHANGED stream
      BY <2>1, <3>1, PlaceStays
    <3>2. ASSUME NEW n \in 0 .. Len(stream), stream' = SubSeq(stream, 1, n)
          PROVE  Place'
      <4>1. CASE Past
        BY <2>1, <4>1, PastStays DEF Place
      <4>2. ASSUME NEW m \in 0 .. Len(sent), NEW start \in Starts,
                   InStep(m, start)
            PROVE  Place'
        BY <2>1, <3>2, <4>2, StreamCut
      <4> QED BY <2>1, <4>1, <4>2 DEF Place
    <3> QED BY <2>1, <3>1, <3>2
  <2>3. GarbledLast'
    BY <2>1 DEF GarbledLast
  <2> QED BY <1>s, <2>1, <2>2, <2>3, MatchesStay
<1>5. CASE ReadInLine \/ ListenInLine
  <2>1. /\ stream # <<>> /\ stream' = Tail(stream)
        /\ connection \in {"up", "ended", "failed"} /\ connection # "closed"
        /\ UNCHANGED <<receiver, connection, lines, sent>>
        /\ Byte # LF /\ (receiver = "client" => Byte # CR)
        /\ buffer' = Append(buffer, Stored(Byte))
    BY <1>5 DEF ReadInLine, ListenInLine, Read, Stored
  <2>2. CASE Past
    <3>1. Place'
      BY <2>1, <2>2, PastStays DEF Place
    <3> QED BY <1>s, <1>g, <2>1, <3>1, MatchesStay
  <2>3. ASSUME NEW m \in 0 .. Len(sent), NEW start \in Starts,
               InStep(m, start)
        PROVE  Place'
    BY <2>1, <2>3, InsideLine
  <2> QED BY <1>s, <1>g, <2>1, <2>2, <2>3, MatchesStay DEF Place
<1>6. CASE ReadLineEnd
  <2>1. /\ connection # "closed" /\ UNCHANGED <<receiver, connection, sent>>
        /\ Handle(CString(buffer), FALSE)
    BY <1>6 DEF ReadLineEnd, Read
  <2> DEFINE s == CString(buffer)
  <2>2. s \in Seq(STRING)
    BY CStringOK DEF LineInv
  <2>3. Handed(s, FALSE)
    BY <2>1, <2>2, HandleIs DEF LineInv
  <2>4. /\ Place'
        /\ \A n \in Expected : Rank(n) = Len(lines) + 1 => sent[n].text = s
    <3>1. CASE Past
      BY <2>1, <2>3, <3>1, PastStays DEF Place
    <3>2. ASSUME NEW m \in 0 .. Len(sent), NEW start \in Starts,
                 InStep(m, start)
          PROVE  /\ Place'
                 /\ \A n \in Expected :
                      Rank(n) = Len(lines) + 1 => sent[n].text = s
      <4>1. SentOK'
        BY <1>s, <2>1
      <4> QED BY <1>6, <3>2, <4>1, ServerLineEnd
    <3> QED BY <2>1, <3>1, <3>2 DEF Place
  <2> HIDE DEF s
  <2>5. GarbledLast'
    BY <2>1, <2>3, NotGarbled
  <2>6. Matches'
    BY <2>1, <2>3, <2>4, MatchesMore
  <2> QED BY <1>s, <2>1, <2>4, <2>5, <2>6
<1>7. CASE ReadFull
  <2>1. /\ receiver = "server" /\ connection # "closed"
        /\ UNCHANGED <<receiver, connection, sent>>
        /\ stream # <<>> /\ Byte # LF /\ Len(buffer) + 1 = MAX_LINE_LENGTH
        /\ Handle(CString(buffer), FALSE)
    BY <1>7 DEF ReadFull, Read
  <2> DEFINE s == CString(buffer)
  <2>2. s \in Seq(STRING)
    BY CStringOK DEF LineInv
  <2>3. Handed(s, FALSE)
    BY <2>1, <2>2, HandleIs DEF LineInv
  <2> HIDE DEF s
  <2>4. ASSUME NEW m \in 0 .. Len(sent), NEW start \in Starts,
               InStep(m, start)
        PROVE  FALSE
    <3>1. AtLine(m, start)
      BY <2>1, <2>4 DEF InStep, BehindCR
    <3> DEFINE b == sent[m + 1].bytes
               t == sent[m + 1].text
               k == m + 1
    <3>2. /\ b = sent[k].bytes /\ b = sent[m + 1].bytes /\ t = sent[k].text
      OBVIOUS
    <3> HIDE DEF b, t
    <3>3. /\ k \in 1 .. Len(sent) /\ Fits(sent[k])
          /\ Len(buffer) + 1 \in 1 .. Len(b)
          /\ Byte = b[Len(buffer) + 1]
      BY <2>1, <2>4, <3>1, <3>2, NextBytes
    <3> HIDE DEF k
    <3>4. Len(b) \in Nat /\ b[Len(b)] = LF /\ Len(b) <= MAX_LINE_LENGTH
      BY <2>1, <3>2, <3>3, LineShape
    <3>5. Len(b) = Len(buffer) + 1
      BY <2>1, <3>3, <3>4
    <3> QED BY <2>1, <3>3, <3>4, <3>5
  <2>5. Past
    BY <2>1, <2>4 DEF Place
  <2>6. /\ Place'
        /\ \A n \in Expected : Rank(n) # Len(lines) + 1
    BY <2>1, <2>3, <2>5, PastStays DEF Place
  <2>7. GarbledLast'
    BY <2>1, <2>3, NotGarbled
  <2>8. Matches'
    BY <2>1, <2>3, <2>6, MatchesMore
  <2> QED BY <1>s, <2>1, <2>6, <2>7, <2>8
<1>8. CASE ReadEnd
  <2>1. /\ connection \in {"ended", "failed"} /\ connection # "closed"
        /\ connection' = "closed" /\ UNCHANGED <<receiver, sent>>
        /\ \/ UNCHANGED lines
           \/ \E rest \in Leftovers :
                Handle(CString(Terminated(buffer \o rest)), TRUE)
    BY <1>8 DEF ReadEnd
  <2>2. Place'
    BY <2>1 DEF Place
  <2>3. CASE UNCHANGED lines
    <3>1. GarbledLast'
      BY <2>1, <2>3 DEF GarbledLast
    <3> QED BY <1>s, <2>1, <2>2, <2>3, <3>1, MatchesStay
  <2>4. ASSUME NEW rest \in Leftovers,
               Handle(CString(Terminated(buffer \o rest)), TRUE)
        PROVE  GarbledLast' /\ Matches'
    <3> DEFINE s == CString(Terminated(buffer \o rest))
    <3>1. s \in Seq(STRING)
      <4>1. buffer \o rest \in Seq(STRING)
        BY LineAssumption, ConcatProperties DEF LineInv
      <4> DEFINE t == Terminated(buffer \o rest)
      <4>2. t \in Seq(STRING)
        BY <4>1, TerminatedOK
      <4> HIDE DEF t
      <4>3. CString(t) \in Seq(STRING)
        BY <4>2, CStringOK
      <4> QED BY <4>3 DEF t
    <3>2. Handle(s, TRUE)
      BY <2>4
    <3> HIDE DEF s
    <3>3. Handed(s, TRUE)
      BY <3>1, <3>2, HandleIs DEF LineInv
    <3>4. GarbledLast'
      BY <2>1, <3>3, NotGarbled
    <3>5. Matches'
      BY <2>1, <3>3, MatchesMore
    <3> QED BY <3>4, <3>5
  <2> QED BY <1>s, <2>1, <2>2, <2>3, <2>4
<1>9. CASE ListenLineEnd
  <2>1. /\ connection # "closed" /\ UNCHANGED <<receiver, connection, sent>>
        /\ IF buffer = <<>> THEN UNCHANGED lines ELSE Handle(buffer, FALSE)
    BY <1>9 DEF ListenLineEnd, Read
  <2>2. buffer # <<>> => Handed(buffer, FALSE)
    BY <2>1, HandleIs DEF LineInv
  <2>3. /\ Place'
        /\ buffer # <<>> => \A n \in Expected :
             Rank(n) = Len(lines) + 1 => sent[n].text = buffer
    <3>1. CASE Past
      <4>1. Handed(buffer, FALSE) \/ lines' = lines
        BY <2>1, <2>2
      <4> QED BY <2>1, <3>1, <4>1, PastStays DEF Place
    <3>2. ASSUME NEW m \in 0 .. Len(sent), NEW start \in Starts,
                 InStep(m, start)
          PROVE  /\ Place'
                 /\ buffer # <<>> => \A n \in Expected :
                      Rank(n) = Len(lines) + 1 => sent[n].text = buffer
      <4>1. SentOK'
        BY <1>s, <2>1
      <4> QED BY <1>9, <3>2, <4>1, ClientLineEnd
    <3> QED BY <2>1, <3>1, <3>2 DEF Place
  <2>4. CASE buffer = <<>>
    BY <1>s, <1>g, <2>1, <2>3, <2>4, MatchesStay
  <2>5. CASE buffer # <<>>
    <3>1. GarbledLast'
      BY <2>1, <2>2, <2>5, NotGarbled
    <3>2. Matches'
      BY <2>1, <2>2, <2>3, <2>5, MatchesMore
    <3> QED BY <1>s, <2>1, <2>3, <3>1, <3>2
  <2> QED BY <2>4, <2>5
<1>10. CASE ListenEnd
  <2>1. /\ connection \in {"up", "ended", "failed"} /\ connection' = "closed"
        /\ UNCHANGED <<receiver, lines, sent>>
    BY <1>10 DEF ListenEnd
  <2>2. Place'
    BY <2>1 DEF Place
  <2>3. GarbledLast'
    BY <2>1 DEF GarbledLast
  <2> QED BY <1>s, <2>1, <2>2, <2>3, MatchesStay
<1>11. CASE UNCHANGED vars
  BY <1>1, <1>11 DEF vars, lineVars
<1> QED BY <1>1, <1>2, <1>3, <1>4, <1>5, <1>6, <1>7, <1>8, <1>9, <1>10, <1>11
           DEF Next

\* A line that fits is not empty: it has its line break.
LEMMA LineNotEmpty ==
  ASSUME LineInv, SentOK, NEW n \in 1 .. Len(sent), Fits(sent[n])
  PROVE  Len(sent[n].bytes) \in Nat /\ Len(sent[n].bytes) >= 1
PROOF
<1>1. sent[n] \in [text : Seq(STRING), bytes : Seq(STRING)]
  BY ElementOfSeq DEF LineInv
<1>2. sent[n].text \in Seq(STRING) /\ Len(sent[n].text) \in Nat
      /\ Len(sent[n].bytes) \in Nat
  BY <1>1, LenProperties
<1>3. /\ <<CR, LF>> \in Seq(STRING) /\ Len(<<CR, LF>>) = 2
      /\ <<LF>> \in Seq(STRING) /\ Len(<<LF>>) = 1
  BY CharactersAssumption
<1>4. Len(sent[n].bytes) \in {Len(sent[n].text) + 2, Len(sent[n].text) + 1}
  BY <1>2, <1>3, ConcatProperties DEF SentOK
<1> QED BY <1>2, <1>4

\* When everything is read nothing is missing.
LEMMA NothingMissing ==
  LineInv /\ ArriveInv => ArriveIntact
PROOF
<1> SUFFICES ASSUME LineInv, SentOK, GarbledLast, Matches, Place
             PROVE  ArriveIntact
  BY DEF ArriveInv
<1>0. Len(sent) \in Nat /\ Len(lines) \in Nat
  BY LenProperties DEF LineInv, LinesOK
<1>1. ASSUME NEW i \in 1 .. Len(lines)
      PROVE  IF lines[i].garbled THEN i = Len(lines) /\ connection = "closed"
               ELSE \A n \in Expected :
                      Rank(n) = i => lines[i].text = sent[n].text
  <2>1. i <= Len(lines)
    BY <1>0
  <2> QED BY <2>1 DEF GarbledLast, Matches
<1>2. ASSUME connection = "up", stream = <<>>, buffer = <<>>
      PROVE  Len(lines) >= Cardinality(Expected)
  <2>1. Len(stream) = 0 /\ Len(buffer) = 0
    BY <1>2, EmptySeq
  <2>2. CASE Past
    BY <1>0, <2>2, ExpectedIs DEF Past
  <2>3. ASSUME NEW m \in 0 .. Len(sent), NEW start \in Starts,
               InStep(m, start)
        PROVE  Len(lines) = Cardinality(Expected)
    <3>1. /\ Len(stream) = start[Len(sent) + 1]
          /\ \A j \in 1 .. (Len(sent) + 1) : start[j] <= start[Len(sent) + 1]
          /\ OnStream(start)
      BY <1>2, <2>3 DEF InStep, OnStream
    <3>2. start[Len(sent) + 1] = 0
      BY <2>1, <3>1
    <3>3. AtLine(m, start)
      <4>1. SUFFICES ASSUME BehindCR(m, start) PROVE FALSE
        BY <2>3 DEF InStep
      <4>2. start[m + 1] = 1 /\ m + 1 \in 1 .. (Len(sent) + 1)
        BY <1>0, <4>1 DEF BehindCR
      <4>3. start[m + 1] <= start[Len(sent) + 1]
        BY <3>1, <4>2
      <4> QED BY <3>2, <4>2, <4>3
    <3>4. start[m + 1] = 0
      <4> DEFINE k == Len(buffer)
      <4>1. k = 0 /\ start[m + 1] = 0 - k
        BY <2>1, <3>3 DEF AtLine
      <4> HIDE DEF k
      <4> QED BY <4>1
    <3>5. m = Len(sent)
      <4>1. SUFFICES ASSUME m # Len(sent) PROVE FALSE
        OBVIOUS
      <4>2. /\ m + 1 \in 1 .. Len(sent) /\ Fits(sent[m + 1])
            /\ m + 2 \in 1 .. (Len(sent) + 1)
        BY <1>0, <2>3, <4>1 DEF InStep
      <4>3. start[m + 2] = start[m + 1] + Len(sent[m + 1].bytes)
        BY <3>1, <4>2, NextStart
      <4>4. /\ Len(sent[m + 1].bytes) \in Nat
            /\ Len(sent[m + 1].bytes) >= 1
        BY <4>2, LineNotEmpty
      <4>5. start[m + 2] <= 0
        BY <3>1, <3>2, <4>2
      <4> QED BY <3>4, <4>3, <4>4, <4>5
    <3>6. Rank(m) = Cardinality(Expected)
      BY <3>5, RankSteps
    <3> QED BY <2>3, <3>6 DEF InStep
  <2>4. connection # "closed"
    BY <1>2
  <2> QED BY <1>0, <2>2, <2>3, <2>4 DEF Place
<1> QED BY <1>1, <1>2 DEF ArriveIntact

(***************************************************************************)
(* Every line that fits reaches a handler complete and in its turn, up to  *)
(* the first that does not fit, and nothing is missing once everything is  *)
(* read: for any texts without line breaks and zeros, any number of lines, *)
(* any length of the buffers of more than two bytes, and wherever the      *)
(* connection ends or fails (readln, eleven_session.cpp;                   *)
(* listen_for_messages_thread, eleven_chatclient.cpp).                     *)
(***************************************************************************)
THEOREM LinesArriveIntact ==
  Spec => []ArriveIntact
BY LineInvInit, LineInvNext, ArriveInit, ArriveNext, NothingMissing, PTL
   DEF Spec

-----------------------------------------------------------------------------
(* The settings file                                                       *)

\* The characters that mean something to open are three.
LEMMA Separators ==
  CR # LF /\ "=" # CR /\ "=" # LF
BY DEF CR, LF

\* A string is a part of the file.
IsPart(s, from, to) ==
  /\ s \in Seq(STRING) /\ Len(s) = to - from + 1
  /\ \A i \in 1 .. Len(s) : s[i] = iniText[from + i - 1]

LEMMA PartIs ==
  ASSUME NEW s, NEW t, NEW from \in Int, NEW to \in Int,
         IsPart(s, from, to), IsPart(t, from, to)
  PROVE  s = t
BY SeqEqual DEF IsPart

LEMMA PartOfFile ==
  ASSUME iniText \in Seq(STRING), NEW from \in 1 .. (Len(iniText) + 1),
         NEW to \in 0 .. Len(iniText), to >= from - 1
  PROVE  IsPart(SubSeq(iniText, from, to), from, to)
PROOF
<1>1. /\ SubSeq(iniText, from, to) \in Seq(STRING)
      /\ Len(SubSeq(iniText, from, to)) = to - from + 1
      /\ \A i \in 1 .. (to - from + 1) :
           SubSeq(iniText, from, to)[i] = iniText[from + i - 1]
  BY SubStringOK
<1> QED BY <1>1 DEF IsPart

\* A part of a part.
LEMMA PartOfPart ==
  ASSUME NEW s, NEW from \in Int, NEW to \in Int, IsPart(s, from, to),
         NEW m \in 1 .. (Len(s) + 1), NEW n \in 0 .. Len(s), n >= m - 1
  PROVE  IsPart(SubSeq(s, m, n), from + m - 1, from + n - 1)
PROOF
<1>1. s \in Seq(STRING) /\ Len(s) \in Nat
      /\ \A i \in 1 .. Len(s) : s[i] = iniText[from + i - 1]
  BY LenProperties DEF IsPart
<1>2. /\ SubSeq(s, m, n) \in Seq(STRING)
      /\ Len(SubSeq(s, m, n)) = n - m + 1
      /\ \A i \in 1 .. (n - m + 1) : SubSeq(s, m, n)[i] = s[m + i - 1]
  BY <1>1, SubStringOK
<1>3. Len(SubSeq(s, m, n)) = (from + n - 1) - (from + m - 1) + 1
  BY <1>1, <1>2
<1>4. ASSUME NEW i \in 1 .. (n - m + 1)
      PROVE  s[m + i - 1] = iniText[(from + m - 1) + i - 1]
  <2>1. m + i - 1 \in 1 .. Len(s)
        /\ from + (m + i - 1) - 1 = (from + m - 1) + i - 1
    BY <1>1
  <2> QED BY <1>1, <2>1
<1> QED BY <1>2, <1>3, <1>4 DEF IsPart

LEMMA PartGrows ==
  ASSUME NEW s, NEW from \in Int, NEW to \in Int, from <= to + 1,
         IsPart(s, from, to), NEW c \in STRING, c = iniText[to + 1]
  PROVE  IsPart(Append(s, c), from, to + 1)
PROOF
<1>1. /\ s \in Seq(STRING) /\ Len(s) = to - from + 1 /\ Len(s) \in Nat
      /\ \A i \in 1 .. Len(s) : s[i] = iniText[from + i - 1]
  BY DEF IsPart
<1>2. /\ Append(s, c) \in Seq(STRING) /\ Len(Append(s, c)) = Len(s) + 1
      /\ \A i \in 1 .. Len(s) : Append(s, c)[i] = s[i]
      /\ Append(s, c)[Len(s) + 1] = c
  BY <1>1, AppendProperties
<1>3. ASSUME NEW i \in 1 .. (Len(s) + 1)
      PROVE  Append(s, c)[i] = iniText[from + i - 1]
  <2>1. CASE i = Len(s) + 1
    <3>1. from + i - 1 = to + 1
      BY <1>1, <2>1
    <3> QED BY <1>2, <2>1, <3>1
  <2>2. CASE i # Len(s) + 1
    <3>1. i \in 1 .. Len(s)
      BY <1>1, <2>2
    <3> QED BY <1>1, <1>2, <3>1
  <2> QED BY <2>1, <2>2
<1>4. Len(Append(s, c)) = (to + 1) - from + 1
  BY <1>1, <1>2
<1> QED BY <1>2, <1>3, <1>4 DEF IsPart

-----------------------------------------------------------------------------
(* The lines of the file                                                   *)

\* n is the end of the line that starts at b.
EndsAt(b, n) ==
  /\ n = Len(iniText) + 1 \/ iniText[n] = LF
  /\ \A j \in b .. (n - 1) : iniText[j] # LF

LEMMA LineEndIs ==
  ASSUME iniText \in Seq(STRING), NEW b \in 1 .. (Len(iniText) + 1),
         NEW n \in b .. (Len(iniText) + 1), EndsAt(b, n)
  PROVE  LineEnd(b) = n
PROOF
<1>0. Len(iniText) \in Nat
  BY LenProperties
<1>1. ASSUME NEW m \in b .. (Len(iniText) + 1), EndsAt(b, m)
      PROVE  m = n
  <2>1. ~ (m < n)
    <3>1. SUFFICES ASSUME m < n PROVE FALSE
      OBVIOUS
    <3>2. m \in b .. (n - 1) /\ m # Len(iniText) + 1
      BY <1>0, <3>1
    <3> QED BY <1>1, <3>2 DEF EndsAt
  <2>2. ~ (n < m)
    <3>1. SUFFICES ASSUME n < m PROVE FALSE
      OBVIOUS
    <3>2. n \in b .. (m - 1) /\ n # Len(iniText) + 1
      BY <1>0, <3>1
    <3> QED BY <1>1, <3>2 DEF EndsAt
  <2> QED BY <1>0, <2>1, <2>2
<1>2. LineEnd(b) = CHOOSE m \in b .. (Len(iniText) + 1) : EndsAt(b, m)
  BY DEF LineEnd, EndsAt
<1> QED BY <1>1, <1>2

LEMMA LineIs ==
  ASSUME iniText \in Seq(STRING), NEW b \in 1 .. Len(iniText),
         NEW n \in b .. (Len(iniText) + 1), EndsAt(b, n)
  PROVE  IsPart(LineAt(b), b, n - 1)
PROOF
<1>1. Len(iniText) \in Nat
  BY LenProperties
<1>2. LineEnd(b) = n
  BY <1>1, LineEndIs
<1> DEFINE l == n - 1
<1>3. l \in 0 .. Len(iniText) /\ l >= b - 1 /\ b \in 1 .. (Len(iniText) + 1)
  BY <1>1
<1>4. LineAt(b) = SubSeq(iniText, b, l)
  BY <1>2 DEF LineAt
<1> HIDE DEF l
<1>5. IsPart(LineAt(b), b, l)
  BY <1>3, <1>4, PartOfFile
<1> QED BY <1>5 DEF l

\* Every line of a file of pairs has its equals sign and no carriage return.
AllPairs == \A i \in LineStarts : IsPair(LineAt(i))

LEMMA PairHas ==
  ASSUME iniText \in Seq(STRING), AllPairs, NEW b \in LineStarts,
         NEW n \in b .. (Len(iniText) + 1), EndsAt(b, n)
  PROVE  /\ \E e \in b .. (n - 1) : iniText[e] = "="
         /\ \A j \in b .. (n - 1) : iniText[j] # CR
PROOF
<1>1. Len(iniText) \in Nat /\ b \in 1 .. Len(iniText)
  BY LenProperties DEF LineStarts
<1> DEFINE line == LineAt(b)
<1>2. IsPair(line)
  BY DEF AllPairs
<1>3. IsPart(line, b, n - 1)
  BY <1>1, LineIs
<1> HIDE DEF line
<1>4. /\ Len(line) = (n - 1) - b + 1 /\ Len(line) \in Nat
      /\ \A i \in 1 .. Len(line) : line[i] = iniText[b + i - 1]
  BY <1>1, <1>3 DEF IsPart
<1>5. \E e \in b .. (n - 1) : iniText[e] = "="
  <2>1. PICK i \in 1 .. Len(line) : line[i] = "="
    BY <1>2 DEF IsPair
  <2>2. b + i - 1 \in b .. (n - 1) /\ iniText[b + i - 1] = "="
    BY <1>1, <1>4, <2>1
  <2> QED BY <2>2
<1>6. ASSUME NEW j \in b .. (n - 1) PROVE iniText[j] # CR
  <2>1. j - b + 1 \in 1 .. Len(line) /\ b + (j - b + 1) - 1 = j
    BY <1>1, <1>4
  <2>2. line[j - b + 1] # CR
    BY <1>2, <2>1 DEF IsPair
  <2> QED BY <1>4, <2>1, <2>2
<1> QED BY <1>5, <1>6

\* The key and the value of the line that starts at i.
KeyAt(i) == KeyOf(LineAt(i))

ValueAt(i) == ValueOf(LineAt(i))

LEMMA PairIs ==
  ASSUME iniText \in Seq(STRING), NEW b \in 1 .. Len(iniText),
         NEW n \in b .. (Len(iniText) + 1), EndsAt(b, n),
         NEW e \in b .. (n - 1), iniText[e] = "=",
         \A j \in b .. (e - 1) : iniText[j] # "="
  PROVE  IsPart(KeyAt(b), b, e - 1) /\ IsPart(ValueAt(b), e + 1, n - 1)
PROOF
<1>1. Len(iniText) \in Nat
  BY LenProperties
<1> DEFINE line == LineAt(b)
           k == e - b + 1
<1>2. IsPart(line, b, n - 1)
  BY LineIs
<1>3. KeyAt(b) = SubSeq(line, 1, KeyEnd(line) - 1)
      /\ ValueAt(b) = SubSeq(line, KeyEnd(line) + 1, Len(line))
  BY DEF KeyAt, ValueAt, KeyOf, ValueOf
<1> HIDE DEF line
<1>4. /\ Len(line) = (n - 1) - b + 1 /\ Len(line) \in Nat
      /\ \A i \in 1 .. Len(line) : line[i] = iniText[b + i - 1]
  BY <1>1, <1>2 DEF IsPart
<1>5. k \in 1 .. Len(line) /\ b + k - 1 = e
  BY <1>1, <1>4
<1>6. \A i \in 1 .. (k - 1) : line[i] # "="
  <2>1. \A i \in 1 .. (k - 1) :
          i \in 1 .. Len(line) /\ b + i - 1 \in b .. (e - 1)
    BY <1>1, <1>4, <1>5
  <2> QED BY <1>4, <2>1
<1>7. KeyEnd(line) = k
  <2> DEFINE First(i) == line[i] = "=" /\ \A j \in 1 .. (i - 1) : line[j] # "="
  <2>1. k \in 1 .. Len(line) /\ First(k)
    BY <1>4, <1>5, <1>6
  <2> HIDE DEF k
  <2>2. ASSUME NEW i \in 1 .. Len(line), First(i) PROVE i = k
    <3>1. ~ (i < k)
      <4>1. i < k => i \in 1 .. (k - 1)
        BY <1>4, <2>1
      <4> QED BY <2>1, <2>2, <4>1
    <3>2. ~ (k < i)
      <4>1. k < i => k \in 1 .. (i - 1)
        BY <1>4, <2>1
      <4> QED BY <2>1, <2>2, <4>1
    <3> QED BY <1>4, <2>1, <3>1, <3>2
  <2>3. KeyEnd(line) = CHOOSE i \in 1 .. Len(line) : First(i)
    BY DEF KeyEnd
  <2> HIDE DEF First
  <2> QED BY <2>1, <2>2, <2>3
<1> HIDE DEF k
<1>8. IsPart(KeyAt(b), b, e - 1)
  <2> DEFINE k0 == k - 1
  <2>1. /\ 1 \in 1 .. (Len(line) + 1) /\ k0 \in 0 .. Len(line) /\ k0 >= 1 - 1
        /\ b \in Int /\ n - 1 \in Int
    BY <1>1, <1>4, <1>5
  <2>2. KeyAt(b) = SubSeq(line, 1, k0)
    BY <1>3, <1>7
  <2>3. b + 1 - 1 = b /\ b + k0 - 1 = e - 1
    BY <1>1, <1>4, <1>5
  <2> HIDE DEF k0
  <2>4. IsPart(SubSeq(line, 1, k0), b + 1 - 1, b + k0 - 1)
    BY <1>2, <2>1, PartOfPart
  <2> QED BY <2>2, <2>3, <2>4
<1>9. IsPart(ValueAt(b), e + 1, n - 1)
  <2> DEFINE k1 == k + 1
             l == Len(line)
  <2>1. /\ k1 \in 1 .. (l + 1) /\ l \in 0 .. l /\ l >= k1 - 1
        /\ b \in Int /\ n - 1 \in Int /\ l = Len(line)
    BY <1>1, <1>4, <1>5
  <2>2. ValueAt(b) = SubSeq(line, k1, l)
    BY <1>3, <1>7
  <2>3. b + k1 - 1 = e + 1 /\ b + l - 1 = n - 1
    BY <1>1, <1>4, <1>5
  <2> HIDE DEF k1, l
  <2>4. IsPart(SubSeq(line, k1, l), b + k1 - 1, b + l - 1)
    BY <1>2, <2>1, PartOfPart
  <2> QED BY <2>2, <2>3, <2>4
<1> QED BY <1>8, <1>9

-----------------------------------------------------------------------------
(* The settings                                                            *)

\* How many characters of the file are read.
Pos == Len(iniText) - Len(iniFile)

\* The settings are those of the lines that start before b.
SettingsUpTo(b) ==
  /\ DOMAIN mSettings =
       {KeyAt(i) : i \in {j \in LineStarts : j < b}} \ {<<>>}
  /\ \A i \in LineStarts : i < b =>
       \/ KeyAt(i) = <<>>
       \/ mSettings[KeyAt(i)] = ValueAt(i)
       \/ \E j \in LineStarts : i < j /\ j < b /\ KeyAt(j) = KeyAt(i)

\* The line that starts at b is read up to somewhere in its key, or in its
\* value behind the equals sign at e.
InKey(b) ==
  /\ parsingKey /\ valueStr = <<>>
  /\ IsPart(keyStr, b, Pos)
  /\ \A j \in b .. Pos : iniText[j] # "="

InValue(b, e) ==
  /\ ~ parsingKey
  /\ iniText[e] = "=" /\ \A j \in b .. (e - 1) : iniText[j] # "="
  /\ IsPart(keyStr, b, e - 1) /\ IsPart(valueStr, e + 1, Pos)

Parsing(b) ==
  /\ b = 1 \/ iniText[b - 1] = LF
  /\ \A j \in b .. Pos : iniText[j] # LF
  /\ SettingsUpTo(b)
  /\ InKey(b) \/ \E e \in b .. Pos : InValue(b, e)

IniTypes ==
  /\ iniText \in Seq(STRING) /\ iniFile \in Seq(STRING)
  /\ Len(iniFile) <= Len(iniText)
  /\ \A k \in 1 .. Len(iniFile) : iniFile[k] = iniText[Pos + k]

\* The inductive invariant.
ParseInv ==
  /\ IniTypes
  /\ AllPairs =>
       IF mValid THEN SettingsUpTo(Len(iniText) + 1)
         ELSE \E b \in 1 .. (Pos + 1) : Parsing(b)

\* The file stays what it is.
LEMMA FileStays ==
  ASSUME UNCHANGED iniText
  PROVE  /\ LineStarts' = LineStarts
         /\ AllPairs' <=> AllPairs
         /\ \A i : KeyAt(i)' = KeyAt(i)
         /\ \A i : ValueAt(i)' = ValueAt(i)
         /\ \A s, from, to : IsPart(s, from, to)' <=> IsPart(s, from, to)
PROOF
<1>1. LineStarts' = LineStarts
  BY DEF LineStarts
<1>2. \A i : LineAt(i)' = LineAt(i)
  BY DEF LineAt, LineEnd
<1>3. \A i : KeyAt(i)' = KeyAt(i) /\ ValueAt(i)' = ValueAt(i)
  BY DEF KeyAt, ValueAt, LineAt, LineEnd
<1>4. AllPairs' <=> AllPairs
  BY DEF AllPairs, LineStarts, LineAt, LineEnd
<1>5. \A s, from, to : IsPart(s, from, to)' <=> IsPart(s, from, to)
  BY DEF IsPart
<1> QED BY <1>1, <1>3, <1>4, <1>5

LEMMA SettingsStay ==
  ASSUME UNCHANGED <<iniText, mSettings>>, NEW b, SettingsUpTo(b)
  PROVE  SettingsUpTo(b)'
BY FileStays DEF SettingsUpTo

\* A character is read.
LEMMA CharRead ==
  ASSUME IniTypes, ReadIniCh
  PROVE  /\ Pos \in Nat /\ Pos + 1 \in 1 .. Len(iniText)
         /\ NextCh = iniText[Pos + 1] /\ NextCh \in STRING
         /\ Pos' = Pos + 1
         /\ IniTypes' /\ UNCHANGED <<iniText, mValid>>
         /\ EndOfValue \/ ValueCh \/ EndOfKey \/ KeyCh
PROOF
<1>1. /\ iniFile # <<>> /\ iniFile' = Tail(iniFile)
      /\ UNCHANGED <<iniText, mValid>>
      /\ EndOfValue \/ ValueCh \/ EndOfKey \/ KeyCh
  BY DEF ReadIniCh
<1>2. /\ iniText \in Seq(STRING) /\ iniFile \in Seq(STRING)
      /\ Len(iniText) \in Nat /\ Len(iniFile) \in Nat
      /\ Len(iniFile) <= Len(iniText)
      /\ \A k \in 1 .. Len(iniFile) : iniFile[k] = iniText[Pos + k]
  BY LenProperties DEF IniTypes
<1>3. /\ Len(iniFile) # 0
      /\ iniFile' \in Seq(STRING) /\ Len(iniFile') = Len(iniFile) - 1
      /\ \A k \in 1 .. Len(iniFile') : iniFile'[k] = iniFile[k + 1]
      /\ NextCh = iniFile[1]
  BY <1>1, <1>2, EmptySeq, HeadTailProperties DEF NextCh
<1>4. /\ Pos \in Nat /\ Pos + 1 \in 1 .. Len(iniText)
      /\ Pos' = Pos + 1
  BY <1>1, <1>2, <1>3 DEF Pos
<1>5. NextCh = iniText[Pos + 1]
  BY <1>2, <1>3
<1>6. NextCh \in STRING
  BY <1>2, <1>4, <1>5, ElementOfSeq
<1>7. \A k \in 1 .. Len(iniFile') : iniFile'[k] = iniText[Pos' + k]
  <2>1. ASSUME NEW k \in 1 .. Len(iniFile')
        PROVE  iniFile'[k] = iniText[Pos' + k]
    <3>1. k + 1 \in 1 .. Len(iniFile) /\ Pos + (k + 1) = Pos' + k
      BY <1>2, <1>3, <1>4
    <3> QED BY <1>2, <1>3, <3>1
  <2> QED BY <2>1
<1>8. IniTypes'
  BY <1>1, <1>2, <1>3, <1>7 DEF IniTypes
<1> QED BY <1>1, <1>4, <1>5, <1>6, <1>8

\* A pair that was stored is the last with its key.
LEMMA StoreOK ==
  ASSUME UNCHANGED iniText, NEW b \in LineStarts, SettingsUpTo(b),
         keyStr = KeyAt(b), valueStr = ValueAt(b), Store,
         NEW n, LineStarts \in SUBSET Int,
         \A i \in LineStarts : i < n <=> i < b \/ i = b
  PROVE  SettingsUpTo(n)'
PROOF
<1>1. /\ LineStarts' = LineStarts
      /\ \A i : KeyAt(i)' = KeyAt(i)
      /\ \A i : ValueAt(i)' = ValueAt(i)
  BY FileStays
<1>2. b \in Int
  OBVIOUS
<1>3. DOMAIN mSettings =
        {KeyAt(i) : i \in {j \in LineStarts : j < b}} \ {<<>>}
  BY DEF SettingsUpTo
<1>4. DOMAIN mSettings' =
        {KeyAt(i) : i \in {j \in LineStarts : j < n}} \ {<<>>}
  <2>1. {KeyAt(i) : i \in {j \in LineStarts : j < n}}
          = {KeyAt(i) : i \in {j \in LineStarts : j < b}} \union {KeyAt(b)}
    OBVIOUS
  <2>2. DOMAIN mSettings' = IF KeyAt(b) = <<>> THEN DOMAIN mSettings
                              ELSE DOMAIN mSettings \union {KeyAt(b)}
    BY DEF Store
  <2> QED BY <1>3, <2>1, <2>2
<1>5. /\ KeyAt(b) # <<>> => mSettings'[KeyAt(b)] = ValueAt(b)
      /\ \A k \in DOMAIN mSettings :
           k = KeyAt(b) \/ mSettings'[k] = mSettings[k]
  BY DEF Store
<1>6. ASSUME NEW i \in LineStarts, i < n
      PROVE  \/ KeyAt(i) = <<>>
             \/ mSettings'[KeyAt(i)] = ValueAt(i)
             \/ \E j \in LineStarts : i < j /\ j < n /\ KeyAt(j) = KeyAt(i)
  <2>1. CASE i = b
    BY <1>5, <2>1
  <2>2. CASE i < b
    <3>1. CASE KeyAt(i) = KeyAt(b)
      BY <2>2, <3>1
    <3>2. CASE KeyAt(i) # KeyAt(b) /\ KeyAt(i) # <<>>
      <4>1. KeyAt(i) \in DOMAIN mSettings
        BY <1>3, <2>2, <3>2
      <4>2. mSettings'[KeyAt(i)] = mSettings[KeyAt(i)]
        BY <1>5, <3>2, <4>1
      <4>3. \/ mSettings[KeyAt(i)] = ValueAt(i)
            \/ \E j \in LineStarts : i < j /\ j < b /\ KeyAt(j) = KeyAt(i)
        BY <2>2, <3>2 DEF SettingsUpTo
      <4> QED BY <4>2, <4>3
    <3> QED BY <3>1, <3>2
  <2> QED BY <1>6, <2>1, <2>2
<1> QED BY <1>1, <1>4, <1>6 DEF SettingsUpTo

\* What starts before the end of a line is that line or one before.
LEMMA StartsBefore ==
  ASSUME iniText \in Seq(STRING), NEW b \in LineStarts,
         NEW n \in b .. (Len(iniText) + 1),
         \A j \in b .. (n - 1) : iniText[j] # LF
  PROVE  /\ LineStarts \in SUBSET Int
         /\ \A i \in LineStarts : i < n + 1 <=> i < b \/ i = b
PROOF
<1>1. Len(iniText) \in Nat /\ b \in 1 .. Len(iniText)
      /\ LineStarts \in SUBSET Int
      /\ \A i \in LineStarts : i \in Int
  BY LenProperties DEF LineStarts
<1>2. ASSUME NEW i \in LineStarts, i < n + 1, b < i PROVE FALSE
  <2>1. i - 1 \in b .. (n - 1) /\ i # 1
    BY <1>1, <1>2
  <2> QED BY <2>1 DEF LineStarts
<1> QED BY <1>1, <1>2

\* Every line has its end.
LEMMA LineEnds ==
  ASSUME iniText \in Seq(STRING), NEW b \in LineStarts
  PROVE  \E n \in b .. (Len(iniText) + 1) : EndsAt(b, n)
PROOF
<1>1. Len(iniText) \in Nat /\ b \in 1 .. Len(iniText)
  BY LenProperties DEF LineStarts
<1> DEFINE S == {n \in b .. (Len(iniText) + 1) :
                   n = Len(iniText) + 1 \/ iniText[n] = LF}
<1>2. S \in SUBSET Nat /\ Len(iniText) + 1 \in S
  BY <1>1
<1>3. PICK n \in S : \A m \in S : n <= m
  BY <1>2, LeastExists
<1>4. \A j \in b .. (n - 1) : iniText[j] # LF
  BY <1>1, <1>3
<1> QED BY <1>3, <1>4 DEF EndsAt

\* Nothing read of a part.
LEMMA EmptyPart ==
  ASSUME NEW from \in Int, NEW to \in Int, from = to + 1
  PROVE  IsPart(<<>>, from, to)
PROOF
<1>1. <<>> \in Seq(STRING) /\ Len(<<>>) = 0
  BY EmptySeq
<1>2. to - from + 1 = 0
  OBVIOUS
<1> QED BY <1>1, <1>2 DEF IsPart

LEMMA ParseInit ==
  Init => ParseInv
PROOF
<1> SUFFICES ASSUME Init PROVE ParseInv
  OBVIOUS
<1>1. /\ iniText \in Seq(STRING) /\ iniFile = iniText
      /\ keyStr = <<>> /\ valueStr = <<>> /\ parsingKey = TRUE
      /\ mSettings = [k \in {} |-> <<>>] /\ mValid = FALSE
  BY IniAssumption DEF Init, IniInit
<1>2. Pos = 0 /\ Len(iniText) \in Nat
  BY <1>1, LenProperties DEF Pos
<1>3. IniTypes
  BY <1>1, <1>2 DEF IniTypes
<1>4. SettingsUpTo(1)
  <2>1. \A i \in LineStarts : ~ (i < 1)
    BY <1>2 DEF LineStarts
  <2>2. DOMAIN mSettings = {}
    BY <1>1
  <2> QED BY <2>1, <2>2 DEF SettingsUpTo
<1>5. InKey(1)
  <2>2. IsPart(keyStr, 1, Pos)
    BY <1>1, <1>2, EmptyPart
  <2>3. \A j \in 1 .. Pos : FALSE
    BY <1>2
  <2> QED BY <1>1, <2>2, <2>3 DEF InKey
<1>6. Parsing(1) /\ 1 \in 1 .. (Pos + 1)
  <2>1. \A j \in 1 .. Pos : FALSE
    BY <1>2
  <2> QED BY <1>2, <1>4, <1>5, <2>1 DEF Parsing
<1> QED BY <1>1, <1>3, <1>6 DEF ParseInv

\* Behind the character read the parser is in its line, or in the next.
LEMMA ParseCh ==
  ASSUME IniTypes, AllPairs, ReadIniCh, NEW b \in 1 .. (Pos + 1), Parsing(b)
  PROVE  \E c \in 1 .. (Pos' + 1) : Parsing(c)'
PROOF
<1>0. PICK p \in Nat : p = Pos
  BY CharRead
<1>1. /\ p + 1 \in 1 .. Len(iniText) /\ Len(iniText) \in Nat
      /\ NextCh = iniText[p + 1] /\ NextCh \in STRING
      /\ Pos' = p + 1
      /\ UNCHANGED <<iniText, mValid>> /\ iniText \in Seq(STRING)
      /\ EndOfValue \/ ValueCh \/ EndOfKey \/ KeyCh
  BY <1>0, CharRead, LenProperties DEF IniTypes
<1>2. /\ b = 1 \/ iniText[b - 1] = LF
      /\ \A j \in b .. p : iniText[j] # LF
      /\ SettingsUpTo(b)
      /\ InKey(b) \/ \E e \in b .. p : InValue(b, e)
  BY <1>0 DEF Parsing
<1>4. b \in 1 .. (p + 1) /\ b \in LineStarts /\ b \in Int
  BY <1>0, <1>1, <1>2 DEF LineStarts
<1>5. ASSUME NextCh # LF
      PROVE  /\ b \in 1 .. (Pos' + 1)
             /\ b = 1 \/ iniText'[b - 1] = LF
             /\ \A j \in b .. Pos' : iniText'[j] # LF
  <2>1. \A j \in b .. Pos' : j \in b .. p \/ j = p + 1
    BY <1>1, <1>4
  <2>2. \A j \in b .. Pos' : iniText[j] # LF
    BY <1>1, <1>2, <1>5, <2>1
  <2>3. b \in 1 .. (Pos' + 1)
    BY <1>1, <1>4
  <2> QED BY <1>1, <1>2, <2>2, <2>3
<1>7. ASSUME NextCh = LF
      PROVE  EndsAt(b, p + 1)
  <2>1. (p + 1) - 1 = p
    OBVIOUS
  <2> QED BY <1>1, <1>2, <1>7, <2>1 DEF EndsAt
<1>8. CASE KeyCh
  <2>1. /\ parsingKey /\ NextCh # "=" /\ keyStr' = Append(keyStr, NextCh)
        /\ UNCHANGED <<parsingKey, valueStr, mSettings>>
    BY <1>8 DEF KeyCh
  <2>2. /\ valueStr = <<>> /\ IsPart(keyStr, b, p)
        /\ \A j \in b .. p : iniText[j] # "="
    BY <1>2, <1>0, <2>1 DEF InKey, InValue
  <2>3. NextCh # LF
    <3>1. SUFFICES ASSUME NextCh = LF PROVE FALSE
      OBVIOUS
    <3>2. p + 1 \in b .. (Len(iniText) + 1) /\ (p + 1) - 1 = p
      BY <1>1, <1>4
    <3>3. \E e \in b .. ((p + 1) - 1) : iniText[e] = "="
      BY <1>1, <1>4, <1>7, <3>1, <3>2, PairHas
    <3> QED BY <2>2, <3>2, <3>3
  <2>4. IsPart(keyStr', b, Pos')
    BY <1>1, <1>4, <2>1, <2>2, PartGrows
  <2>5. \A j \in b .. Pos' : iniText'[j] # "="
    BY <1>1, <1>4, <2>1, <2>2
  <2>6. InKey(b)'
    <3>1. parsingKey' /\ valueStr' = <<>> /\ IsPart(keyStr, b, Pos)'
      BY <1>1, <2>1, <2>2, <2>4 DEF IsPart
    <3> QED BY <2>5, <3>1 DEF InKey
  <2>7. SettingsUpTo(b)'
    BY <1>1, <1>2, <2>1, SettingsStay
  <2> QED BY <1>5, <2>3, <2>6, <2>7 DEF Parsing
<1>9. CASE EndOfKey
  <2>1. /\ parsingKey /\ NextCh = "=" /\ parsingKey' = FALSE
        /\ UNCHANGED <<keyStr, valueStr, mSettings>>
    BY <1>9 DEF EndOfKey
  <2>2. /\ valueStr = <<>> /\ IsPart(keyStr, b, p)
        /\ \A j \in b .. p : iniText[j] # "="
    BY <1>2, <1>0, <2>1 DEF InKey, InValue
  <2>n. PICK e \in Nat : e = p + 1
    OBVIOUS
  <2>3. e \in b .. Pos' /\ e - 1 = p /\ e \in Int /\ Pos' = e
        /\ iniText[e] = "="
    <3>1. Pos' = e /\ iniText[e] = "="
      BY <1>1, <2>1, <2>n
    <3>2. e \in b .. e /\ e - 1 = p /\ e \in Int
      BY <1>4, <2>n
    <3> QED BY <3>1, <3>2
  <2>4. IsPart(valueStr, e + 1, Pos')
    <3>1. e + 1 \in Int /\ Pos' \in Int /\ e + 1 = Pos' + 1
      BY <2>3
    <3> QED BY <2>2, <3>1, EmptyPart
  <2>5. InValue(b, e)'
    <3>1. /\ ~ parsingKey' /\ iniText'[e] = "="
          /\ \A j \in b .. (e - 1) : iniText'[j] # "="
      BY <1>1, <2>1, <2>2, <2>3
    <3>2. IsPart(keyStr, b, e - 1)
      BY <2>2, <2>3
    <3>3. IsPart(keyStr, b, e - 1)'
      BY <1>1, <2>1, <3>2 DEF IsPart
    <3>4. IsPart(valueStr, e + 1, Pos)'
      BY <1>1, <2>1, <2>4 DEF IsPart
    <3> QED BY <3>1, <3>3, <3>4 DEF InValue
  <2>6. SettingsUpTo(b)'
    BY <1>1, <1>2, <2>1, SettingsStay
  <2>7. NextCh # LF
    BY <2>1, Separators
  <2> QED BY <1>5, <2>3, <2>5, <2>6, <2>7 DEF Parsing
<1>10. CASE ValueCh
  <2>1. /\ ~ parsingKey /\ NextCh \notin {CR, LF}
        /\ valueStr' = Append(valueStr, NextCh)
        /\ UNCHANGED <<parsingKey, keyStr, mSettings>>
    BY <1>10 DEF ValueCh
  <2>2. PICK e \in b .. p : InValue(b, e)
    BY <1>2, <2>1 DEF InKey
  <2>3. /\ iniText[e] = "=" /\ \A j \in b .. (e - 1) : iniText[j] # "="
        /\ IsPart(keyStr, b, e - 1) /\ IsPart(valueStr, e + 1, p)
    BY <1>0, <2>2 DEF InValue
  <2>4. e + 1 \in Int /\ e + 1 <= p + 1 /\ e \in b .. Pos'
    BY <1>1, <1>4
  <2>5. IsPart(valueStr', e + 1, Pos')
    <3>1. IsPart(Append(valueStr, NextCh), e + 1, p + 1)
      BY <1>1, <2>3, <2>4, PartGrows
    <3> QED BY <1>1, <2>1, <3>1
  <2>6. InValue(b, e)'
    <3>1. /\ ~ parsingKey' /\ iniText'[e] = "="
          /\ \A j \in b .. (e - 1) : iniText'[j] # "="
      BY <1>1, <2>1, <2>3
    <3>2. IsPart(keyStr, b, e - 1)' /\ IsPart(valueStr, e + 1, Pos)'
      BY <1>1, <2>1, <2>3, <2>5 DEF IsPart
    <3> QED BY <3>1, <3>2 DEF InValue
  <2>7. SettingsUpTo(b)'
    BY <1>1, <1>2, <2>1, SettingsStay
  <2> QED BY <1>5, <2>1, <2>4, <2>6, <2>7 DEF Parsing
<1>11. CASE EndOfValue
  <2>1. /\ ~ parsingKey /\ NextCh \in {CR, LF} /\ Store
        /\ parsingKey' = TRUE /\ keyStr' = <<>> /\ valueStr' = <<>>
    BY <1>11 DEF EndOfValue
  <2>2. PICK e \in b .. p : InValue(b, e)
    BY <1>2, <2>1 DEF InKey
  <2>3. /\ iniText[e] = "=" /\ \A j \in b .. (e - 1) : iniText[j] # "="
        /\ IsPart(keyStr, b, e - 1) /\ IsPart(valueStr, e + 1, p)
    BY <1>0, <2>2 DEF InValue
  <2>4. NextCh # CR
    <3>1. SUFFICES ASSUME NextCh = CR PROVE FALSE
      OBVIOUS
    <3>2. PICK n \in b .. (Len(iniText) + 1) : EndsAt(b, n)
      BY <1>1, <1>4, LineEnds
    <3>3. p + 1 \in b .. (n - 1)
      <4>1. n \in Int /\ n # p + 1
        <5>1. n \in Int /\ p + 1 # Len(iniText) + 1
          BY <1>1
        <5>2. n = Len(iniText) + 1 \/ iniText[n] = LF
          BY <3>2 DEF EndsAt
        <5>3. iniText[p + 1] # LF
          BY <1>1, <3>1, Separators
        <5> QED BY <5>1, <5>2, <5>3
      <4>2. ~ (n <= p)
        <5>1. SUFFICES ASSUME n <= p PROVE FALSE
          OBVIOUS
        <5>2. n \in b .. p /\ n # Len(iniText) + 1
          BY <1>1, <5>1
        <5> QED BY <1>2, <3>2, <5>2 DEF EndsAt
      <4> QED BY <1>1, <1>4, <4>1, <4>2
    <3>4. iniText[p + 1] # CR
      BY <1>1, <1>4, <3>2, <3>3, PairHas
    <3> QED BY <1>1, <3>1, <3>4
  <2>5. NextCh = LF
    BY <2>1, <2>4
  <2>n. PICK n \in Nat : n = p + 1
    OBVIOUS
  <2>6. /\ n \in b .. (Len(iniText) + 1) /\ n - 1 = p /\ n \in Nat
        /\ b \in 1 .. Len(iniText) /\ e \in b .. (n - 1) /\ Pos' = n
        /\ EndsAt(b, n) /\ iniText[n] = LF
    <3>1. Pos' = n /\ EndsAt(b, n) /\ iniText[n] = LF
      BY <1>1, <1>7, <2>5, <2>n
    <3>2. n \in b .. (Len(iniText) + 1) /\ n - 1 = p /\ e \in b .. (n - 1)
      BY <1>1, <1>4, <2>n
    <3>3. b \in 1 .. Len(iniText)
      BY <1>4 DEF LineStarts
    <3> QED BY <3>1, <3>2, <3>3
  <2>7. keyStr = KeyAt(b) /\ valueStr = ValueAt(b)
    <3>1. IsPart(KeyAt(b), b, e - 1) /\ IsPart(ValueAt(b), e + 1, n - 1)
      BY <1>1, <2>3, <2>6, PairIs
    <3>2. e - 1 \in Int /\ e + 1 \in Int /\ b \in Int /\ p \in Int
      BY <1>1, <1>4
    <3> QED BY <2>3, <2>6, <3>1, <3>2, PartIs
  <2>8. SettingsUpTo(n + 1)'
    <3>1. \A j \in b .. (n - 1) : iniText[j] # LF
      BY <2>6 DEF EndsAt
    <3>2. /\ LineStarts \in SUBSET Int
          /\ \A i \in LineStarts : i < n + 1 <=> i < b \/ i = b
      BY <1>1, <1>4, <2>6, <3>1, StartsBefore
    <3> QED BY <1>1, <1>2, <1>4, <2>1, <2>7, <3>2, StoreOK
  <2>9. InKey(n + 1)'
    <3>1. \A j \in (n + 1) .. Pos' : FALSE
      BY <2>6
    <3>2. n + 1 \in Int /\ Pos' \in Int /\ n + 1 = Pos' + 1
      BY <2>6
    <3>3. IsPart(keyStr', n + 1, Pos')
      BY <2>1, <3>2, EmptyPart
    <3>4. IsPart(keyStr, n + 1, Pos)'
      BY <1>1, <3>3 DEF IsPart
    <3> QED BY <2>1, <3>1, <3>4 DEF InKey
  <2>10. /\ n + 1 \in 1 .. (Pos' + 1)
         /\ iniText'[(n + 1) - 1] = LF
         /\ \A j \in (n + 1) .. Pos' : iniText'[j] # LF
    BY <1>1, <2>6
  <2> QED BY <2>8, <2>9, <2>10 DEF Parsing
<1> QED BY <1>1, <1>8, <1>9, <1>10, <1>11

\* At the end of the file the last line is in the settings, too.
LEMMA ParseEnd ==
  ASSUME IniTypes, AllPairs, EndOfIniFile,
         NEW b \in 1 .. (Pos + 1), Parsing(b)
  PROVE  SettingsUpTo(Len(iniText) + 1)'
PROOF
<1>0. PICK n \in Nat : n = Len(iniText) + 1
  BY LenProperties DEF IniTypes
<1>1. /\ iniFile = <<>> /\ UNCHANGED iniText
      /\ IF parsingKey THEN UNCHANGED mSettings ELSE Store
      /\ iniText \in Seq(STRING) /\ Len(iniText) \in Nat
      /\ Pos = Len(iniText)
  BY EmptySeq, LenProperties DEF EndOfIniFile, IniTypes, Pos
<1>2. /\ b = 1 \/ iniText[b - 1] = LF
      /\ \A j \in b .. Pos : iniText[j] # LF
      /\ SettingsUpTo(b)
      /\ InKey(b) \/ \E e \in b .. Pos : InValue(b, e)
  BY DEF Parsing
<1>3. /\ n \in Nat /\ n - 1 = Pos /\ b \in 1 .. n /\ n = Len(iniText) + 1
      /\ Pos \in Nat
  BY <1>0, <1>1
<1>4. SettingsUpTo(n)' => SettingsUpTo(Len(iniText) + 1)'
  BY <1>0, <1>1
<1>5. ASSUME b # n
      PROVE  /\ b \in LineStarts /\ b \in 1 .. Len(iniText)
             /\ n \in b .. (Len(iniText) + 1) /\ EndsAt(b, n)
  BY <1>1, <1>2, <1>3, <1>5 DEF LineStarts, EndsAt
<1>6. CASE parsingKey
  <2>1. b = n
    <3>1. SUFFICES ASSUME b # n PROVE FALSE
      OBVIOUS
    <3>2. \E e \in b .. (n - 1) : iniText[e] = "="
      BY <1>1, <1>5, <3>1, PairHas
    <3>3. \A j \in b .. Pos : iniText[j] # "="
      BY <1>2, <1>6 DEF InKey, InValue
    <3> QED BY <1>3, <3>2, <3>3
  <2>2. SettingsUpTo(n)'
    BY <1>1, <1>2, <1>6, <2>1, SettingsStay
  <2> QED BY <1>4, <2>2
<1>7. CASE ~ parsingKey
  <2>1. PICK e \in b .. Pos : InValue(b, e)
    BY <1>2, <1>7 DEF InKey
  <2>2. /\ iniText[e] = "=" /\ \A j \in b .. (e - 1) : iniText[j] # "="
        /\ IsPart(keyStr, b, e - 1) /\ IsPart(valueStr, e + 1, Pos)
    BY <2>1 DEF InValue
  <2>3. /\ b \in LineStarts /\ b \in 1 .. Len(iniText)
        /\ n \in b .. (Len(iniText) + 1) /\ EndsAt(b, n)
        /\ e \in b .. (n - 1)
    <3>1. b # n
      BY <1>3
    <3> QED BY <1>3, <1>5, <3>1
  <2>4. keyStr = KeyAt(b) /\ valueStr = ValueAt(b)
    <3>1. IsPart(KeyAt(b), b, e - 1) /\ IsPart(ValueAt(b), e + 1, n - 1)
      BY <1>1, <2>2, <2>3, PairIs
    <3>2. e - 1 \in Int /\ e + 1 \in Int /\ b \in Int /\ Pos \in Int
      BY <1>3
    <3> QED BY <1>3, <2>2, <3>1, <3>2, PartIs
  <2>5. /\ LineStarts \in SUBSET Int
        /\ \A i \in LineStarts : i < n + 1 <=> i < b \/ i = b
    <3>1. \A j \in b .. (n - 1) : iniText[j] # LF
      BY <2>3 DEF EndsAt
    <3> QED BY <1>1, <2>3, <3>1, StartsBefore
  <2>6. \A i \in LineStarts : i < n <=> i < b \/ i = b
    <3>1. \A i \in LineStarts : i < n /\ i < n + 1
      BY <1>1, <1>3 DEF LineStarts
    <3> QED BY <2>5, <3>1
  <2>7. SettingsUpTo(n)'
    BY <1>1, <1>2, <1>7, <2>3, <2>4, <2>5, <2>6, StoreOK
  <2> QED BY <1>4, <2>7
<1> QED BY <1>6, <1>7

LEMMA ParseNext ==
  ParseInv /\ [Next]_vars => ParseInv'
PROOF
<1> SUFFICES ASSUME ParseInv, [Next]_vars PROVE ParseInv'
  OBVIOUS
<1>0. IniTypes /\ (AllPairs => IF mValid THEN SettingsUpTo(Len(iniText) + 1)
                                 ELSE \E b \in 1 .. (Pos + 1) : Parsing(b))
  BY DEF ParseInv
<1>1. CASE UNCHANGED iniVars
  <2>1. UNCHANGED <<iniText, iniFile, keyStr, valueStr, parsingKey,
                    mSettings, mValid>>
    BY <1>1 DEF iniVars
  <2>2. Pos' = Pos /\ IniTypes'
    BY <1>0, <2>1 DEF IniTypes, Pos
  <2>3. (AllPairs' <=> AllPairs)
        /\ \A b : SettingsUpTo(b) => SettingsUpTo(b)'
    BY <2>1, FileStays, SettingsStay
  <2>4. ASSUME NEW b \in 1 .. (Pos + 1), Parsing(b)
        PROVE  Parsing(b)'
    <3>1. InKey(b) => InKey(b)'
      BY <2>1, <2>2 DEF InKey, IsPart
    <3>2. \A e \in b .. Pos : InValue(b, e) => InValue(b, e)'
      BY <2>1, <2>2 DEF InValue, IsPart
    <3>3. SettingsUpTo(b)'
      BY <2>3, <2>4 DEF Parsing
    <3> QED BY <2>1, <2>2, <2>4, <3>1, <3>2, <3>3 DEF Parsing
  <2>5. ASSUME AllPairs, mValid PROVE SettingsUpTo(Len(iniText) + 1)'
    BY <1>0, <2>1, <2>3, <2>5
  <2> QED BY <1>0, <2>1, <2>2, <2>3, <2>4, <2>5 DEF ParseInv
<1>2. CASE ReadIniCh
  <2>1. /\ IniTypes' /\ UNCHANGED <<iniText, mValid>> /\ ~ mValid
    BY <1>0, <1>2, CharRead DEF ReadIniCh
  <2>2. AllPairs' <=> AllPairs
    BY <2>1, FileStays
  <2>3. ASSUME AllPairs PROVE \E c \in 1 .. (Pos' + 1) : Parsing(c)'
    BY <1>0, <1>2, <2>1, <2>3, ParseCh
  <2> QED BY <2>1, <2>2, <2>3 DEF ParseInv
<1>3. CASE EndOfIniFile
  <2>1. /\ ~ mValid /\ mValid' = TRUE /\ UNCHANGED <<iniText, iniFile>>
    BY <1>3 DEF EndOfIniFile
  <2>2. AllPairs' <=> AllPairs
    BY <2>1, FileStays
  <2>3. IniTypes'
    BY <1>0, <2>1 DEF IniTypes, Pos
  <2>4. ASSUME AllPairs PROVE SettingsUpTo(Len(iniText) + 1)'
    BY <1>0, <1>3, <2>1, <2>4, ParseEnd
  <2> QED BY <2>1, <2>2, <2>3, <2>4 DEF ParseInv
<1>4. CASE \/ Open \/ End
           \/ \E text \in Texts :
                sendln(text) \/ SendPlain(text) \/ printf(text)
           \/ ReadInLine \/ ReadLineEnd \/ ReadFull \/ ReadEnd
           \/ ListenInLine \/ ListenLineEnd \/ ListenEnd
  <2>1. UNCHANGED iniVars
    BY <1>4 DEF Open, End, sendln, SendPlain, printf, SendBytes, ReadInLine,
       ReadLineEnd, ReadFull, ReadEnd, ListenInLine, ListenLineEnd, ListenEnd,
       Read
  <2> QED BY <1>1, <2>1
<1>5. CASE UNCHANGED vars
  BY <1>1, <1>5 DEF vars
<1> QED BY <1>1, <1>2, <1>3, <1>4, <1>5 DEF Next, IniNext

(***************************************************************************)
(* Any file of pairs becomes the settings that its header promises,        *)
(* however many lines it has and however long they are, with or without a  *)
(* line break at its end (ini_file::open, eleven_ini_file.cpp).            *)
(***************************************************************************)
THEOREM SettingsFromFile ==
  Spec => []SettingsAsWritten
PROOF
<1>1. ParseInv => SettingsAsWritten
  <2> SUFFICES ASSUME ParseInv, mValid, AllPairs
               PROVE
        /\ DOMAIN mSettings = {KeyAt(i) : i \in LineStarts} \ {<<>>}
        /\ \A i \in LineStarts :
             \/ KeyAt(i) = <<>>
             \/ mSettings[KeyAt(i)] = ValueAt(i)
             \/ \E j \in LineStarts : j > i /\ KeyAt(j) = KeyAt(i)
    BY DEF SettingsAsWritten, AllPairs, KeyAt, ValueAt
  <2>1. SettingsUpTo(Len(iniText) + 1)
    BY DEF ParseInv
  <2>2. \A i \in LineStarts : i < Len(iniText) + 1 /\ i \in Int
    BY LenProperties DEF ParseInv, IniTypes, LineStarts
  <2>3. LineStarts = {j \in LineStarts : j < Len(iniText) + 1}
    BY <2>2
  <2> QED BY <2>1, <2>2, <2>3 DEF SettingsUpTo
<1> QED BY <1>1, ParseInit, ParseNext, PTL DEF Spec
=============================================================================
