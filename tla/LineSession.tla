---------------------------- MODULE LineSession -----------------------------
(***************************************************************************)
(* One direction of a connection: lines that one side sends as bytes, and  *)
(* the lines that the other side makes of these bytes and hands to the     *)
(* handler of their first word.  The receiver is the server (readln of     *)
(* eleven_session.cpp, in session_thread of eleven_chatserver.cpp) or the  *)
(* client (listen_for_messages_thread of eleven_chatclient.cpp), each with *)
(* a buffer of MAX_LINE_LENGTH bytes.  Both read bytes one by one, so it   *)
(* does not matter how they were grouped.                                  *)
(*                                                                         *)
(* A session is made once its settings file has been read; certificates    *)
(* and the TLS handshake are left out.                                     *)
(***************************************************************************)
EXTENDS IniFile, FiniteSets

CONSTANTS MAX_LINE_LENGTH,
          Texts,    \* what is sent: sequences of characters, no line breaks
          MaxLines, \* how many lines are sent
          Handlers, \* the words that handlers are registered for
          Leftovers \* what may be left in a buffer that is not initialized

VARIABLES receiver,   \* "server" or "client"
          connection, \* "opening"; "up"; "ended" and "failed", with bytes to
                      \* read; "closed"
          stream,     \* the bytes on their way
          buffer,     \* requestString or data: the bytes read so far
          lines,      \* the lines that were handed to handlers
          sent        \* history: the lines sent

lineVars == <<receiver, connection, stream, buffer, lines, sent>>
vars == <<iniVars, lineVars>>

ASSUME LineAssumption ==
  /\ MAX_LINE_LENGTH \in Nat /\ MAX_LINE_LENGTH > 2
  /\ MaxLines \in Nat
  /\ Texts \subseteq Seq(STRING) /\ Leftovers \subseteq Seq(STRING)

NUL == "\\0"

\* The provers do not know by themselves what a string is.
ASSUME CharactersAssumption == {CR, LF, NUL} \subseteq STRING

Delimiters == {" ", "\t", CR, LF}

Star == <<"*">>

\* What is sent are lines: nobody gets hold of a text with a line break or a
\* zero in it, since everything was a line or a C string before.
ASSUME TextsAssumption ==
  \A text \in Texts : \A i \in 1 .. Len(text) : text[i] \notin {CR, LF, NUL}

\* Both programs register words and *.
ASSUME HandlersAssumption ==
  /\ Handlers \subseteq Seq(STRING) /\ Star \in Handlers
  /\ \A w \in Handlers : \A i \in 1 .. Len(w) : w[i] \notin Delimiters

NoHandler == <<>>

Init ==
  /\ IniInit
  /\ receiver \in {"server", "client"}
  /\ connection = "opening"
  /\ stream = <<>> /\ buffer = <<>> /\ lines = <<>> /\ sent = <<>>

-----------------------------------------------------------------------------
\* next_word from the beginning of a line: the first word, and where the
\* next one starts, which is behind the line if there is none.
WordEnd(s) ==
  IF \E i \in 1 .. Len(s) : s[i] \in Delimiters
    THEN CHOOSE i \in 1 .. Len(s) :
           s[i] \in Delimiters /\ \A j \in 1 .. (i - 1) : s[j] \notin Delimiters
    ELSE Len(s) + 1

next_word(s) == SubSeq(s, 1, WordEnd(s) - 1)

NextWordStart(s) ==
  IF \E i \in WordEnd(s) .. Len(s) : s[i] \notin Delimiters
    THEN CHOOSE i \in WordEnd(s) .. Len(s) :
           /\ s[i] \notin Delimiters
           /\ \A j \in WordEnd(s) .. (i - 1) : s[j] \in Delimiters
    ELSE Len(s) + 1

remainder_of_string(s, currOffset) == SubSeq(s, currOffset, Len(s))

\* A plausible slip: the command is looked up with its arguments.
M_CommandName(s) == s

CommandName(s) == next_word(s)

\* A plausible slip: a command without a handler is not looked up again.
M_handler_for_command(name) == name

handler_for_command(name) ==
  IF name \in Handlers THEN name
    ELSE IF Star \in Handlers THEN Star ELSE NoHandler

\* A line reaches its handler.
Handle(s, garbled) ==
  lines' = Append(lines,
    [text |-> s, handler |-> handler_for_command(CommandName(s)),
     rest |-> remainder_of_string(s, NextWordStart(s)), garbled |-> garbled])

-----------------------------------------------------------------------------
Open ==
  /\ connection = "opening" /\ mValid
  /\ connection' = "up"
  /\ UNCHANGED <<iniVars, receiver, stream, buffer, lines, sent>>

SendBytes(text, bytes) ==
  /\ connection = "up" /\ Len(sent) < MaxLines
  /\ stream' = stream \o bytes
  /\ sent' = Append(sent, [text |-> text, bytes |-> bytes])
  /\ UNCHANGED <<iniVars, receiver, connection, buffer, lines>>

sendln(text) == SendBytes(text, text \o <<CR, LF>>)

\* Other clients may end their lines with LF alone.
SendPlain(text) ==
  receiver = "server" /\ SendBytes(text, text \o <<LF>>)

\* session::printf with a format that ends in "\r\n": what does not fit into
\* its buffer is cut off, line break and all.
Cut(s) == SubSeq(s, 1, IF Len(s) <= MAX_LINE_LENGTH - 2 THEN Len(s)
                         ELSE MAX_LINE_LENGTH - 2)

printf(text) == SendBytes(text, Cut(text \o <<CR, LF>>))

\* The connection ends in order, or it fails and some bytes are lost.
End ==
  /\ connection = "up"
  /\ \/ connection' = "ended" /\ UNCHANGED stream
     \/ /\ connection' = "failed"
        /\ \E n \in 0 .. Len(stream) : stream' = SubSeq(stream, 1, n)
  /\ UNCHANGED <<iniVars, receiver, buffer, lines, sent>>

-----------------------------------------------------------------------------
\* The next byte for a receiver.
Read(by) ==
  /\ receiver = by
  /\ connection \in {"up", "ended", "failed"}
  /\ stream # <<>>
  /\ stream' = Tail(stream)
  /\ UNCHANGED <<iniVars, receiver, connection, sent>>

Byte == Head(stream)

\* Up to the terminating zero.
CString(s) ==
  IF \E i \in 1 .. Len(s) : s[i] = NUL
    THEN SubSeq(s, 1, (CHOOSE i \in 1 .. Len(s) :
           s[i] = NUL /\ \A j \in 1 .. (i - 1) : s[j] # NUL) - 1)
    ELSE s

\* The last byte of the buffer always becomes a terminating zero.
Terminated(s) ==
  SubSeq(s, 1, IF Len(s) < MAX_LINE_LENGTH THEN Len(s) ELSE MAX_LINE_LENGTH - 1)

\* A plausible slip: a carriage return is kept.
M_Stored(c) == c

\* What readln stores for a byte.
Stored(c) == IF c = CR THEN NUL ELSE c

\* readln, inside a line.
ReadInLine ==
  /\ Read("server") /\ Byte # LF /\ Len(buffer) + 1 < MAX_LINE_LENGTH
  /\ buffer' = Append(buffer, Stored(Byte))
  /\ UNCHANGED lines

\* readln, at the end of a line.
ReadLineEnd ==
  /\ Read("server") /\ Byte = LF
  /\ Handle(CString(buffer), FALSE)
  /\ buffer' = <<>>

\* readln, with the buffer full: its last byte becomes the terminator, and
\* what follows is read as another line.
ReadFull ==
  /\ Read("server") /\ Byte # LF /\ Len(buffer) + 1 = MAX_LINE_LENGTH
  /\ Handle(CString(buffer), FALSE)
  /\ buffer' = <<>>

\* The read of an ended connection drops what has been read of a line.  The
\* read of one that failed hands it over, with what the buffer has had
\* behind it.  (Unless the failure is one of TLS, the thread goes on reading
\* from the failed connection for ever, which is left out.)
ReadEnd ==
  /\ receiver = "server" /\ stream = <<>>
  /\ \/ connection = "ended" /\ UNCHANGED lines
     \/ /\ connection = "failed"
        /\ \E rest \in Leftovers :
             Handle(CString(Terminated(buffer \o rest)), TRUE)
  /\ connection' = "closed" /\ buffer' = <<>>
  /\ UNCHANGED <<iniVars, receiver, stream, sent>>

-----------------------------------------------------------------------------
\* The client's loop, inside a line.
ListenInLine ==
  /\ Read("client") /\ Len(buffer) < MAX_LINE_LENGTH
  /\ Byte \notin {CR, LF}
  /\ buffer' = Append(buffer, Byte)
  /\ UNCHANGED lines

\* Either character of a line break ends a line, and empty lines are
\* dropped.
ListenLineEnd ==
  /\ Read("client") /\ Len(buffer) < MAX_LINE_LENGTH
  /\ Byte \in {CR, LF}
  /\ IF buffer = <<>> THEN UNCHANGED lines ELSE Handle(buffer, FALSE)
  /\ buffer' = <<>>

\* It disconnects when its buffer is full, and at the end of the connection.
\* (After a failure outside of TLS it reads for ever, too.)
ListenEnd ==
  /\ receiver = "client"
  /\ \/ connection = "up" /\ Len(buffer) = MAX_LINE_LENGTH
     \/ connection \in {"ended", "failed"}
        /\ (stream = <<>> \/ Len(buffer) = MAX_LINE_LENGTH)
  /\ connection' = "closed"
  /\ stream' = <<>> /\ buffer' = <<>>
  /\ UNCHANGED <<iniVars, receiver, lines, sent>>

-----------------------------------------------------------------------------
Next ==
  \/ IniNext /\ UNCHANGED lineVars
  \/ Open
  \/ \E text \in Texts : sendln(text) \/ SendPlain(text) \/ printf(text)
  \/ End
  \/ ReadInLine \/ ReadLineEnd \/ ReadFull \/ ReadEnd
  \/ ListenInLine \/ ListenLineEnd \/ ListenEnd

Spec == Init /\ [][Next]_vars

-----------------------------------------------------------------------------
LineTypeOK ==
  /\ receiver \in {"server", "client"}
  /\ connection \in {"opening", "up", "ended", "failed", "closed"}
  /\ stream \in Seq(STRING)
  /\ buffer \in Seq(STRING) /\ Len(buffer) <= MAX_LINE_LENGTH
  /\ lines \in Seq([text : Seq(STRING), handler : Handlers \union {NoHandler},
                     rest : Seq(STRING), garbled : BOOLEAN])
  /\ \A i \in 1 .. Len(lines) : Len(lines[i].text) < MAX_LINE_LENGTH
  /\ sent \in Seq([text : Seq(STRING), bytes : Seq(STRING)])
  /\ Len(sent) <= MaxLines

\* A line that went out with its line break and that fits into the buffer of
\* the receiver, where readln also keeps one byte of the line break.
Fits(r) ==
  /\ r.bytes[Len(r.bytes)] = LF
  /\ receiver = "server" => Len(r.bytes) <= MAX_LINE_LENGTH
  /\ receiver = "client" => Len(r.bytes) <= MAX_LINE_LENGTH + 1

\* The lines sent before the first that does not fit, by their numbers; the
\* client does not get the empty ones.
Expected ==
  {n \in 1 .. Len(sent) :
     /\ \A i \in 1 .. n : Fits(sent[i])
     /\ receiver = "server" \/ sent[n].text # <<>>}

\* How many lines are expected up to the n-th.
Rank(n) == Cardinality({i \in Expected : i <= n})

(***************************************************************************)
(* Lines arrive one by one, complete and in the order in which they were   *)
(* sent, up to the first that is too long for the receiver: whatever their *)
(* line breaks and however close to the length of the buffer they are.     *)
(* Only a connection that fails hands over a line that was not sent, and   *)
(* then as the last one.  Once everything is read nothing is missing.      *)
(***************************************************************************)
ArriveIntact ==
  /\ \A i \in 1 .. Len(lines) :
       IF lines[i].garbled THEN i = Len(lines) /\ connection = "closed"
         ELSE \A n \in Expected : Rank(n) = i => lines[i].text = sent[n].text
  /\ connection = "up" /\ stream = <<>> /\ buffer = <<>> =>
       Len(lines) >= Cardinality(Expected)

(***************************************************************************)
(* "Each line received has its first word extracted (everything up to the  *)
(* first space, tab or line break), and matched against the strings for    *)
(* which handlers have been registered.  If none of these matches, it      *)
(* looks for a handler registered for *" (Readme.md).  The arguments are   *)
(* what comes after the separators behind the first word.                  *)
(***************************************************************************)
FirstWordDispatches ==
  \A i \in 1 .. Len(lines) :
    LET s == lines[i].text
        BeginsWith(w) == /\ Len(w) <= Len(s) /\ SubSeq(s, 1, Len(w)) = w
                         /\ Len(w) < Len(s) => s[Len(w) + 1] \in Delimiters
        named == {w \in Handlers : BeginsWith(w)}
    IN  /\ IF named # {} THEN lines[i].handler \in named
             ELSE lines[i].handler = Star
        /\ \E j, k \in 0 .. Len(s) :
             /\ j <= k
             /\ \A c \in 1 .. j : s[c] \notin Delimiters
             /\ \A c \in (j + 1) .. k : s[c] \in Delimiters
             /\ k < Len(s) => k > j /\ s[k + 1] \notin Delimiters
             /\ lines[i].rest = SubSeq(s, k + 1, Len(s))
=============================================================================
