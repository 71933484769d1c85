----------------------------- MODULE ChatAnswer -----------------------------
(***************************************************************************)
(* The text of one answer, from the bytes of the provider to the page of   *)
(* the chat history (src/gmrag_api/src/chat/deepseek.rs, chat/mod.rs and   *)
(* routes/chat.rs).                                                        *)
(*                                                                         *)
(* The bytes arrive in pieces the network chooses.  A parser joins them    *)
(* into characters, lines and tokens; the tokens are shown to the client   *)
(* and kept in a buffer.  At the end the client receives the numbered      *)
(* citations, and the buffer is stored with its markers turned from        *)
(* numbers into chunk identifiers and without the chunks the user may not  *)
(* see.  A later read of the history checks and removes again, for the     *)
(* permissions and the documents of that moment.                           *)
(*                                                                         *)
(* A byte is a symbol: a letter, the two halves of a two-byte character, a *)
(* newline, the text [DONE], or a whole citation marker, which is ASCII    *)
(* and for the parser like any letter.  The JSON around the content of a   *)
(* line is left out.  The excerpts of CitationSnippet belong to the page.  *)
(***************************************************************************)
EXTENDS CitationSnippet

CONSTANTS
  Chunk,      \* chunk identifiers; each is also its marker [chunk:<uuid>]
  Outside,    \* chunks of documents the user may not see at first
  chunk_ids,  \* the chunks of the prompt, in their order
  Scenario,   \* a stream of bytes and the text of the chunks
  Question,   \* the question asked
  MaxChanges  \* bound: changes of permissions and deletions of documents

ASSUME ChunkAssumption ==
  /\ chunk_ids \in Seq(Chunk \ Outside)
  /\ IsInjective(chunk_ids)
  /\ Outside \subseteq Chunk
ASSUME ChangesAssumption == MaxChanges \in Nat

Lead == "L"          \* the two bytes of one character ..
Continuation == "c"
TwoByte == "LC"      \* .. and the character
Newline == "n"
DoneText == "D"
Replacement == "?"   \* U+FFFD
Upper == [A |-> "a"] \* a marker whose identifier is spelled in capitals
Index == <<"1", "2", "3">>  \* the markers [chunk:1], [chunk:2], ..

VARIABLES
  case,     \* the scenario
  input,    \* bytes the provider has not delivered
  parser,   \* DeepseekTokenParser
  buffer,   \* assistant_buffer
  phase,    \* how far the answer is
  exist,    \* chunks whose document exists
  allowed,  \* chunks of documents the user may see
  sse,      \* the citations event
  stored,   \* the assistant message
  page,     \* a read of the history that has checked its citations
  view,     \* the message as such a read returned it
  changes

streamVars == <<input, parser, buffer>>
accessVars == <<exist, allowed, changes>>
vars == <<case, streamVars, phase, accessVars, sse, stored, page, view>>

None == [content |-> <<>>, citations |-> <<>>]
Unread == [ids |-> {}, checked |-> FALSE]

Init ==
  /\ case \in Scenario
  /\ input = case.stream
  /\ parser = [pending |-> <<>>, line |-> <<>>, tokens |-> <<>>, done |-> FALSE]
  /\ buffer = <<>>
  /\ phase = "open"
  /\ exist = Chunk
  /\ allowed = Chunk \ Outside
  /\ sse = <<>>
  /\ stored = None
  /\ page = Unread
  /\ view = None
  /\ changes = 0

-----------------------------------------------------------------------------
(* The parser.                                                             *)

\* Bytes that begin no character become U+FFFD one at a time; a character whose
\* end is missing waits in pending.
take_valid[bytes \in Seq(STRING)] ==
  IF bytes = <<>> \/ bytes = <<Lead>> THEN [out |-> <<>>, pending |-> bytes]
  ELSE LET whole == bytes[1] = Lead /\ bytes[2] = Continuation
           char == IF whole THEN TwoByte
                   ELSE IF bytes[1] \in {Lead, Continuation} THEN Replacement
                   ELSE bytes[1]
           rest == take_valid[SubSeq(bytes, IF whole THEN 3 ELSE 2, Len(bytes))]
       IN [out |-> <<char>> \o rest.out, pending |-> rest.pending]

\* A line: a token if it has content, the end if it is [DONE], and nothing if
\* it is empty or no JSON.
parse_line(p, line) ==
  IF line = <<DoneText>> THEN [p EXCEPT !.done = TRUE]
  ELSE IF line = <<>> \/ DoneText \in ToSet(line) THEN p
  ELSE [p EXCEPT !.tokens = Append(@, line)]

push_chunk(p, chars) ==
  FoldLeft(LAMBDA q, c :
             IF c = Newline THEN parse_line([q EXCEPT !.line = <<>>], q.line)
             ELSE [q EXCEPT !.line = Append(@, c)],
           p, chars)

Flushed(r) == r.out \o (IF r.pending = <<>> THEN <<>> ELSE <<Replacement>>)

\* mutant: every piece is decoded for itself (from_utf8_lossy)
PushLossy(p, bytes) == push_chunk(p, Flushed(take_valid[bytes]))

push_bytes(p, bytes) ==
  LET r == take_valid[p.pending \o bytes]
  IN push_chunk([p EXCEPT !.pending = r.pending], r.out)

flush_utf8(p) == push_chunk([p EXCEPT !.pending = <<>>], Flushed(take_valid[p.pending]))

-----------------------------------------------------------------------------
(* The stream: next_stream_token and the loop of workspace_chat.           *)

Waits == phase = "open" /\ parser.tokens = <<>>

\* A piece of any length arrives.
Arrive ==
  /\ Waits /\ ~parser.done
  /\ \E k \in 1..Len(input) :
       /\ parser' = push_bytes(parser, SubSeq(input, 1, k))
       /\ input' = SubSeq(input, k + 1, Len(input))
  /\ UNCHANGED <<case, buffer, phase, accessVars, sse, stored, page, view>>

Token ==
  /\ phase = "open" /\ parser.tokens # <<>>
  /\ buffer' = buffer \o Head(parser.tokens)
  /\ parser' = [parser EXCEPT !.tokens = Tail(@)]
  /\ UNCHANGED <<case, input, phase, accessVars, sse, stored, page, view>>

\* [DONE] or the end of the bytes; what stands in an unfinished line is lost.
StreamEnds ==
  /\ Waits
  /\ \/ parser.done /\ UNCHANGED parser
     \/ ~parser.done /\ input = <<>> /\ parser' = flush_utf8(parser)
  /\ phase' = "closing"
  /\ UNCHANGED <<case, input, buffer, accessVars, sse, stored, page, view>>

\* A transport error or the idle timeout.
StreamBreaks ==
  /\ Waits /\ ~parser.done
  /\ phase' = "broken"
  /\ UNCHANGED <<case, streamVars, accessVars, sse, stored, page, view>>

Dropped == phase' = IF buffer = <<>> THEN "empty" ELSE "filter"

build_stream_citations(ids, hydrated) ==
  SelectSeq([i \in DOMAIN ids |-> [index |-> i, chunk |-> ids[i]]],
            LAMBDA c : c.chunk \in hydrated)

\* The citations of the prompt whose documents still exist; or none at all if
\* they cannot be read.  Then the generator ends and is dropped.
SendCitations ==
  /\ phase \in {"closing", "broken"}
  /\ \E hydrated \in {exist, {}} : sse' = build_stream_citations(chunk_ids, hydrated)
  /\ Dropped
  /\ UNCHANGED <<case, streamVars, accessVars, stored, page, view>>

Disconnect ==
  /\ phase \in {"open", "closing", "broken"}
  /\ Dropped
  /\ UNCHANGED <<case, streamVars, accessVars, sse, stored, page, view>>

-----------------------------------------------------------------------------
(* The stored message.                                                     *)

WithoutRepeats(s) ==
  FoldLeft(LAMBDA kept, c : IF c \in ToSet(kept) THEN kept ELSE Append(kept, c), <<>>, s)

IndexOf(c) == IF c \in ToSet(Index) THEN CHOOSE i \in DOMAIN Index : Index[i] = c ELSE 0
Resolved(c) == IF IndexOf(c) \in DOMAIN chunk_ids THEN chunk_ids[IndexOf(c)] ELSE c
\* The chunk a marker names, in whatever spelling.
Names(c) == IF \E k \in DOMAIN Upper : Upper[k] = c
            THEN CHOOSE k \in DOMAIN Upper : Upper[k] = c ELSE c

extract_chunk_citations(text) ==
  SelectSeq([i \in DOMAIN text |-> Names(text[i])], LAMBDA c : c \in Chunk)

\* First the numbered citations, then the ones the model spelled out.
resolve_chunk_index_citations(text) ==
  LET resolved == [i \in DOMAIN text |-> Resolved(text[i])]
      numbered == SelectSeq(text, LAMBDA c : IndexOf(c) \in DOMAIN chunk_ids)
      byIndex == [i \in DOMAIN numbered |-> Resolved(numbered[i])]
  IN [content |-> resolved,
      citations |-> WithoutRepeats(byIndex \o extract_chunk_citations(resolved))]

\* mutant: the hidden citations leave the list, their markers stay in the text
FilterListOnly(m, visible) ==
  [content |-> m.content,
   citations |-> WithoutRepeats(SelectSeq(m.citations, LAMBDA c : c \in visible))]

\* A marker is removed as it is spelled by Uuid's Display, in small letters.
filter_citations_for_allowed_ids(m, visible) ==
  LET hidden == ToSet(m.citations) \ visible
  IN [content |-> SelectSeq(m.content, LAMBDA c : c \notin hidden),
      citations |-> WithoutRepeats(SelectSeq(m.citations, LAMBDA c : c \in visible))]

\* filter_citation_ids_for_user: the row of the chunk is there, and the user may
\* see its document.
Visible(ids) == ids \cap exist \cap allowed

StoreAnswer ==
  LET resolved == resolve_chunk_index_citations(buffer) IN
  /\ phase = "filter"
  /\ stored' = filter_citations_for_allowed_ids(resolved, Visible(ToSet(resolved.citations)))
  /\ phase' = "stored"
  /\ UNCHANGED <<case, streamVars, accessVars, sse, page, view>>

\* Documents are deleted, shared and withdrawn while the answer streams, is
\* stored and is read.
AccessChanges ==
  /\ phase # "open"
  /\ changes < MaxChanges
  /\ changes' = changes + 1
  /\ \E c \in Chunk :
       \/ exist' = exist \ {c} /\ UNCHANGED allowed
       \/ allowed' = SymDiff(allowed, {c}) /\ UNCHANGED exist
  /\ UNCHANGED <<case, streamVars, phase, sse, stored, page, view>>

\* build_history_page_with_acl checks the citations of the page first ..
CheckPage ==
  /\ phase = "stored" /\ ~page.checked
  /\ page' = [ids |-> Visible(ToSet(stored.citations)), checked |-> TRUE]
  /\ UNCHANGED <<case, streamVars, phase, accessVars, sse, stored, view>>

\* .. and then reads their documents; one that was deleted in between is treated
\* like a hidden one.
ReadPage ==
  /\ phase = "stored" /\ page.checked /\ view = None
  /\ view' = filter_citations_for_allowed_ids(stored, page.ids \cap exist)
  /\ phase' = "read"
  /\ UNCHANGED <<case, streamVars, accessVars, sse, stored, page>>

Next ==
  \/ Arrive \/ Token \/ StreamEnds \/ StreamBreaks \/ SendCitations \/ Disconnect
  \/ StoreAnswer \/ AccessChanges \/ CheckPage \/ ReadPage

Spec == Init /\ [][Next]_vars

-----------------------------------------------------------------------------
(* Properties.                                                             *)

\* What a stream says, read as one piece: the contents of its finished lines,
\* all of them or those in front of the first [DONE].
LinesOf(stream, beyondDone) ==
  LET chars == take_valid[stream].out
      ends == {i \in DOMAIN chars : chars[i] = Newline}
      LineTo(e) == SubSeq(chars, 1 + Max({0} \cup {i \in ends : i < e}), e - 1)
      done == {e \in ends : LineTo(e) = <<DoneText>>}
      said == {e \in ends : /\ DoneText \notin ToSet(LineTo(e))
                            /\ beyondDone \/ \A d \in done : e < d}
      order == SetToSortSeq(said, <)
  IN FlattenSeq([k \in DOMAIN order |-> LineTo(order[k])])

(* How the network cuts the bytes makes no difference: at every moment the  *)
(* buffer is a beginning of what the stream says, and at the regular end it *)
(* is all of it; a character cut in two is not lost or replaced.  Only      *)
(* lines behind [DONE] are kept or not as they arrive together with it.     *)
ChunkingIrrelevant ==
  /\ IsPrefix(buffer, LinesOf(case.stream, TRUE))
  /\ phase = "closing" => IsPrefix(LinesOf(case.stream, FALSE), buffer)

\* The markers of a text that the interface turns into links.
Marked(m) == {m.content[i] : i \in DOMAIN m.content} \cap Chunk

(* A message and its list of citations agree, in the table and on the page: *)
(* every marker in the small letters the server writes itself has its       *)
(* entry, an entry stands once and has a marker, no number of the prompt is *)
(* left, and a page shows no chunk beyond those its check allowed.          *)
MarkersMatchCitations ==
  /\ \A m \in {stored, view} :
       /\ Marked(m) \subseteq ToSet(m.citations)
       /\ ToSet(m.citations) \subseteq {Names(c) : c \in ToSet(m.content)}
       /\ IsInjective(m.citations)
       /\ \A c \in ToSet(m.content) : IndexOf(c) \notin DOMAIN chunk_ids
  /\ ToSet(view.citations) \subseteq page.ids

(* The excerpt of a citation keeps what SnippetShowsBest promises, for the  *)
(* question of the page and for every text.                                 *)
ExcerptShowsBest == SnippetShowsBest(case.text, Question)
=============================================================================
