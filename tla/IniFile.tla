------------------------------ MODULE IniFile -------------------------------
(***************************************************************************)
(* ini_file (eleven_ini_file.cpp): the settings file is read character by  *)
(* character into a map of settings.                                       *)
(***************************************************************************)
EXTENDS Integers, Sequences

CONSTANTS IniFiles \* the settings files: sequences of characters

VARIABLES iniText,   \* history: the file
          iniFile,   \* the characters that are not read yet
          keyStr, valueStr, parsingKey,
          mSettings, \* a function from keys to values
          mValid

iniVars == <<iniText, iniFile, keyStr, valueStr, parsingKey, mSettings,
             mValid>>

ASSUME IniAssumption == IniFiles \subseteq Seq(STRING)

CR == "\r"

LF == "\n"

IniInit ==
  /\ iniText \in IniFiles /\ iniFile = iniText
  /\ keyStr = <<>> /\ valueStr = <<>> /\ parsingKey = TRUE
  /\ mSettings = [k \in {} |-> <<>>]
  /\ mValid = FALSE

-----------------------------------------------------------------------------
\* mSettings[keyStr] = valueStr, unless the key is empty.
Store ==
  mSettings' =
    IF keyStr = <<>> THEN mSettings
      ELSE [k \in DOMAIN mSettings \union {keyStr} |->
              IF k = keyStr THEN valueStr ELSE mSettings[k]]

NextCh == Head(iniFile)

\* The line break after a value ends the pair.
EndOfValue ==
  /\ ~ parsingKey /\ NextCh \in {CR, LF}
  /\ Store
  /\ parsingKey' = TRUE /\ keyStr' = <<>> /\ valueStr' = <<>>

\* A plausible slip: every equals sign ends a key.
M_ValueCh ==
  /\ ~ parsingKey /\ NextCh \notin {CR, LF}
  /\ valueStr' = IF NextCh = "=" THEN <<>> ELSE Append(valueStr, NextCh)
  /\ UNCHANGED <<parsingKey, keyStr, mSettings>>

ValueCh ==
  /\ ~ parsingKey /\ NextCh \notin {CR, LF}
  /\ valueStr' = Append(valueStr, NextCh)
  /\ UNCHANGED <<parsingKey, keyStr, mSettings>>

EndOfKey ==
  /\ parsingKey /\ NextCh = "="
  /\ parsingKey' = FALSE
  /\ UNCHANGED <<keyStr, valueStr, mSettings>>

\* Everything else is part of the key, line breaks too.
KeyCh ==
  /\ parsingKey /\ NextCh # "="
  /\ keyStr' = Append(keyStr, NextCh)
  /\ UNCHANGED <<parsingKey, valueStr, mSettings>>

\* One turn of the loop of open.
ReadIniCh ==
  /\ ~ mValid /\ iniFile # <<>>
  /\ iniFile' = Tail(iniFile)
  /\ EndOfValue \/ ValueCh \/ EndOfKey \/ KeyCh
  /\ UNCHANGED <<iniText, mValid>>

\* The end of the file also ends a value.
EndOfIniFile ==
  /\ ~ mValid /\ iniFile = <<>>
  /\ IF parsingKey THEN UNCHANGED mSettings ELSE Store
  /\ mValid' = TRUE
  /\ UNCHANGED <<iniText, iniFile, keyStr, valueStr, parsingKey>>

IniNext == ReadIniCh \/ EndOfIniFile

-----------------------------------------------------------------------------
\* Where the lines of the file start, where the line that starts at i ends
\* (at its line break, or behind the file if it has none), and the line.
LineStarts ==
  {i \in 1 .. Len(iniText) : i = 1 \/ iniText[i - 1] = LF}

LineEnd(i) ==
  CHOOSE n \in i .. (Len(iniText) + 1) :
    /\ n = Len(iniText) + 1 \/ iniText[n] = LF
    /\ \A j \in i .. (n - 1) : iniText[j] # LF

LineAt(i) == SubSeq(iniText, i, LineEnd(i) - 1)

IsPair(line) ==
  /\ \E i \in 1 .. Len(line) : line[i] = "="
  /\ \A i \in 1 .. Len(line) : line[i] # CR

\* Up to the first equals sign, and after it.
KeyEnd(line) ==
  CHOOSE i \in 1 .. Len(line) :
    line[i] = "=" /\ \A j \in 1 .. (i - 1) : line[j] # "="

KeyOf(line) == SubSeq(line, 1, KeyEnd(line) - 1)

ValueOf(line) == SubSeq(line, KeyEnd(line) + 1, Len(line))

(***************************************************************************)
(* A file of key-value pairs on lines of their own is read as its header   *)
(* says: "single-line key-value pairs, separated by an equals sign, [...]  *)
(* Only the equals sign itself and the line break at the end are currently *)
(* stripped", and a key that is there again has its last value.  (A line   *)
(* that is no pair, such as an empty one or the second half of a CR LF,    *)
(* becomes the beginning of the next key.)                                 *)
(***************************************************************************)
SettingsAsWritten ==
  mValid /\ (\A i \in LineStarts : IsPair(LineAt(i))) =>
    /\ DOMAIN mSettings = {KeyOf(LineAt(i)) : i \in LineStarts} \ {<<>>}
    /\ \A i \in LineStarts :
         \/ KeyOf(LineAt(i)) = <<>>
         \/ mSettings[KeyOf(LineAt(i))] = ValueOf(LineAt(i))
         \/ \E j \in LineStarts : j > i /\ KeyOf(LineAt(j)) = KeyOf(LineAt(i))
=============================================================================
