------------------------------ MODULE PathNames ------------------------------
(***************************************************************************)
(* How the names and paths of a host are held: HostPath of the shipping      *)
(* crate and PathString of its successor, which are one escape, and how each *)
(* of the two crates reads a path that a person typed.                       *)
(*                                                                         *)
(* A name is a sequence of bytes.  The bytes told apart are the marker "%",  *)
(* "/", ".", "~", "$", the hexadecimal digits, and two bytes that belong to  *)
(* no UTF-8 sequence; every other character is like any other.  Whether a    *)
(* byte decodes is taken to be its own affair, not its neighbours'.          *)
(***************************************************************************)
EXTENDS Naturals, Sequences, SequencesExt

(* The element of a singleton: a value bound by a quantifier is evaluated     *)
(* once, an argument or a LET inside ENABLED as often as it is named.         *)
Only(S) == CHOOSE x \in S : TRUE

(* FoldLeft, with each prefix and the sequence itself evaluated once. *)
Scan(Step(_, _), start, items) ==
  LET From(seq) ==
        LET after[i \in 0..Len(seq)] ==
              IF i = 0 THEN start
              ELSE Only({Step(state, seq[i]) : state \in {after[i - 1]}})
        IN  after[Len(seq)]
  IN  Only({From(seq) : seq \in {items}})

Marker == "%"
HexDigit == {"0", "8"}
(* The bytes outside UTF-8, each with its two uppercase digits. *)
HexOf == [x80 |-> <<"8", "0">>, x88 |-> <<"8", "8">>]
RawByte == DOMAIN HexOf

(* Mutant of EscapeByte: the marker stays itself, so "%80" spells two names. *)
EscapeRawOnly(b) == IF b \in RawByte THEN <<Marker>> \o HexOf[b] ELSE <<b>>

EscapeByte(b) ==
  IF b \in RawByte THEN <<Marker>> \o HexOf[b]
  ELSE IF b = Marker THEN <<Marker, Marker>> ELSE <<b>>

Escape(bytes) == Scan(LAMBDA text, b : text \o EscapeByte(b), <<>>, bytes)

(* unescape(): the bytes, or why the text is not an escaped one.  `seen` is   *)
(* the part of an escape read so far.                                        *)
Malformed(why) == [ok |-> FALSE, bytes |-> <<>>, why |-> why]

Unescape(text) ==
  LET Emit(state, byte) ==
        [state EXCEPT !.bytes = Append(@, byte), !.seen = <<>>]
      Pair(state, digits) ==
        IF ~(ToSet(digits) \subseteq HexDigit) THEN Malformed("NotUppercaseHex")
        ELSE IF Head(digits) = "0" THEN Malformed("NotEscapable")
        ELSE Emit(state, CHOOSE b \in RawByte : HexOf[b] = digits)
      Step(state, char) ==
        IF ~state.ok THEN state
        ELSE IF state.seen = <<>>
        THEN IF char = Marker THEN [state EXCEPT !.seen = <<char>>]
             ELSE Emit(state, char)
        ELSE IF Len(state.seen) = 1
        THEN IF char = Marker THEN Emit(state, Marker)
             ELSE [state EXCEPT !.seen = Append(@, char)]
        ELSE Pair(state, <<Last(state.seen), char>>)
      end == Scan(Step, [ok |-> TRUE, bytes |-> <<>>, why |-> "none",
                             seen |-> <<>>], text)
  IN  IF end.ok /\ end.seen # <<>> THEN Malformed("Truncated") ELSE end

(* HostPath::from_literal: text a person typed is escaped like any other. *)
FromLiteral(text) == Escape(text)

(* PathString::join and HostPath::join: concatenation of escaped halves. *)
Join(directory, name) ==
  IF directory = <<>> THEN name
  ELSE directory \o (IF Last(directory) = "/" THEN <<>> ELSE <<"/">>) \o name

(***************************************************************************)
(* std::path: the components of a path.                                     *)
(***************************************************************************)
IsAbsolute(path) == path # <<>> /\ Head(path) = "/"

Components(path) ==
  LET Step(runs, b) == IF b = "/" THEN Append(runs, <<>>)
                       ELSE Front(runs) \o <<Append(Last(runs), b)>>
      runs == Scan(Step, << <<>> >>, path)
      leading == IF Head(runs) = <<".">> THEN << <<".">> >> ELSE <<>>
  IN  leading \o SelectSeq(runs, LAMBDA run : run \notin {<<>>, <<".">>})

IsNormal(component) == component \notin {<<".">>, <<".", ".">>}

(* HostPath::is_one_component: what a child's name has to be. *)
IsOneComponent(text) ==
  /\ Unescape(text).ok
  /\ LET real == Unescape(text).bytes
     IN  /\ ~IsAbsolute(real)
         /\ Len(Components(real)) = 1 /\ IsNormal(Components(real)[1])

(* validate_relative_path(), on the escaped form. *)
IsRelativePath(text) ==
  /\ text # <<>> /\ ~IsAbsolute(text)
  /\ \A i \in DOMAIN Components(text) : IsNormal(Components(text)[i])

(***************************************************************************)
(* Reading what was typed.  Both give the components of the path that is     *)
(* opened.                                                                  *)
(***************************************************************************)
Refused == [ok |-> FALSE, at |-> <<>>]

NormalizeAbsolute(path) ==
  LET Push(at, component) ==
        IF component = <<".">> THEN at
        ELSE IF component = <<".", ".">>
             THEN IF at = <<>> THEN at ELSE Front(at)
        ELSE Append(at, component)
  IN  Scan(Push, <<>>, Components(path))

(* shellexpand::path::full: a leading "~" is the home directory, and a "$"   *)
(* names a variable, here always an unset one.                               *)
ShellExpand(path, home) ==
  IF \E i \in DOMAIN path : path[i] = "$" THEN Malformed("variable")
  ELSE IF path # <<>> /\ Head(path) = "~" /\ (Len(path) = 1 \/ path[2] = "/")
       THEN [ok |-> TRUE, bytes |-> home \o Tail(path), why |-> "none"]
  ELSE [ok |-> TRUE, bytes |-> path, why |-> "none"]

(* resolve_path(): decoded, expanded, made absolute, and folded as text. *)
ResolvePath(text, home, current) ==
  LET real == Unescape(text)
      expanded == ShellExpand(real.bytes, home)
  IN  IF ~real.ok \/ ~expanded.ok THEN Refused
      ELSE [ok |-> TRUE,
            at |-> NormalizeAbsolute(
                     IF IsAbsolute(expanded.bytes) THEN expanded.bytes
                     ELSE current \o <<"/">> \o expanded.bytes)]

(* absolute() of the successor: decoded, and nothing interpreted but by the  *)
(* kernel, which meets no link above the directories of the model.           *)
Absolute(text) ==
  LET real == Unescape(text)
  IN  IF real.ok /\ IsAbsolute(real.bytes)
      THEN [ok |-> TRUE, at |-> NormalizeAbsolute(real.bytes)]
      ELSE Refused
==============================================================================
