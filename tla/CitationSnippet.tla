-------------------------- MODULE CitationSnippet --------------------------
(***************************************************************************)
(* The excerpt of a chunk that a citation shows                            *)
(* (src/gmrag_api/src/routes/chat.rs, select_citation_snippet): the        *)
(* segment of the text that shares most words with the question, widened   *)
(* to its neighbours while they fit, or the beginning of the text when no  *)
(* segment is clearly best.                                                *)
(*                                                                         *)
(* A text is a sequence of characters.  A letter stands for a class of     *)
(* letters that are equal after lower-casing and folding of Vietnamese     *)
(* marks.  Positions count from 1 and ranges include their end.            *)
(***************************************************************************)
EXTENDS Integers, Sequences, FiniteSets, SequencesExt, FiniteSetsExt

CONSTANT SnippetChars  \* CITATION_SNIPPET_CHARS
ASSUME SnippetAssumption == SnippetChars \in Nat \ {0}

White == {" ", "\n"}
Stop == {".", "\n"}
Ellipsis == "~"

IsLetter(c) == c \notin White \cup Stop
Blank(t) == ToSet(t) \subseteq White

\* The words of a text, each a sequence of letters.
snippet_keywords(t) ==
  {SubSeq(t, i, j) : <<i, j>> \in
     {p \in (1..Len(t)) \X (1..Len(t)) :
        /\ p[1] <= p[2]
        /\ \A k \in p[1]..p[2] : IsLetter(t[k])
        /\ p[1] = 1 \/ ~IsLetter(t[p[1] - 1])
        /\ p[2] = Len(t) \/ ~IsLetter(t[p[2] + 1])}}

\* The ranges between two stops, each with the stop that ends it, without the
\* blank ones.
split_snippet_segments(t) ==
  LET ends == {i \in 1..Len(t) : t[i] \in Stop \/ i = Len(t)}
      From(e) == 1 + Max({0} \cup {i \in ends : i < e})
      kept == {e \in ends : ~Blank(SubSeq(t, From(e), e))}
      order == SetToSortSeq(kept, <)
  IN [k \in 1..Len(order) |-> [start |-> From(order[k]), end |-> order[k]]]

trim_snippet_range(t, range) ==
  LET inked == {i \in range.start..range.end : t[i] \notin White}
  IN IF inked = {} THEN [start |-> range.end + 1, end |-> range.end]
     ELSE [start |-> Min(inked), end |-> Max(inked)]

TextBefore(t, i) == ~Blank(SubSeq(t, 1, i - 1))
TextAfter(t, i) == ~Blank(SubSeq(t, i + 1, Len(t)))
Ellipses(t, range) == (IF TextBefore(t, range.start) THEN 1 ELSE 0)
                      + (IF TextAfter(t, range.end) THEN 1 ELSE 0)

\* mutant: the two ellipses are not counted
WindowRoomWithoutEllipses(t, range) == SnippetChars

WindowRoom(t, range) == Max({0, SnippetChars - Ellipses(t, range)})

\* The window grows by one neighbour at a time, alternating between the two
\* sides, while the longer window fits.
expand_snippet_window(t, segments, best) ==
  LET n == Len(segments)
      Span(l, r) == [start |-> segments[l].start, end |-> segments[r].end]
      Fits(l, r, range) == range.end - range.start + 1 <= WindowRoom(t, Span(l, r))
      LeftFits(l, r) == /\ l > 1
                        /\ Fits(l, r, Span(l - 1, r))
                        /\ ~(segments[l - 1].start = 1 /\ best > 1)
      RightFits(l, r) == r < n /\ Fits(l, r, Span(l, r + 1))
      grow[l \in 1..n, r \in 1..n, right \in BOOLEAN] ==
        IF RightFits(l, r) /\ (right \/ ~LeftFits(l, r)) THEN grow[l, r + 1, FALSE]
        ELSE IF LeftFits(l, r) THEN grow[l - 1, r, TRUE]
        ELSE Span(l, r)
  IN grow[best, best, best > 1 /\ best < n]

\* The cut of a content that is longer than the limit: at the last blank in
\* front of it or, when the first word is longer, behind that word.
CutAt(content, limit) ==
  LET blanks == {i \in 1..Len(content) : content[i] \in White}
      early == {i \in blanks : i <= limit}
      late == {i \in blanks : i > limit}
      cut == IF early # {} THEN Max(early)
             ELSE IF late # {} THEN Min(late) - 1 ELSE limit
  IN Max({0} \cup {i \in 1..cut : content[i] \notin White})

render_snippet_window(t, window) ==
  LET range == trim_snippet_range(t, window)
      limit == Max({0, SnippetChars - Ellipses(t, range)})
      content == SubSeq(t, range.start, range.end)
      shown == IF Len(content) <= limit THEN content
               ELSE SubSeq(content, 1, CutAt(content, limit))
  IN (IF TextBefore(t, range.start) THEN <<Ellipsis>> ELSE <<>>) \o shown
     \o (IF TextAfter(t, range.end) THEN <<Ellipsis>> ELSE <<>>)

\* The beginning of the text, cut at a blank of its second half if there is one.
truncate_citation_snippet(t) ==
  LET Trimmed(n) == Max({0} \cup {i \in 1..n : t[i] \notin White})
      whole == Trimmed(SnippetChars)
      blanks == {i \in 1..whole : t[i] \in White /\ i - 1 >= SnippetChars \div 2}
      cut == IF blanks = {} THEN whole ELSE Trimmed(Max(blanks) - 1)
  IN IF Len(t) <= SnippetChars THEN t ELSE SubSeq(t, 1, cut) \o <<Ellipsis>>

Score(t, segment, terms) ==
  Cardinality(snippet_keywords(SubSeq(t, segment.start, segment.end)) \cap terms)

\* The segment with the highest score if it is the only one and not zero; 0 if
\* there is none.  A question of fewer than two words selects nothing.
BestSegment(t, question) ==
  LET segments == split_snippet_segments(t)
      terms == snippet_keywords(question)
      best == {k \in DOMAIN segments :
                 /\ Score(t, segments[k], terms) > 0
                 /\ \A j \in DOMAIN segments \ {k} :
                      Score(t, segments[j], terms) < Score(t, segments[k], terms)}
  IN IF Cardinality(terms) < 2 \/ best = {} THEN 0 ELSE CHOOSE k \in best : TRUE

select_citation_snippet(t, question) ==
  IF Blank(t) THEN <<>>
  ELSE IF Len(t) <= SnippetChars THEN t
  ELSE LET best == BestSegment(t, question) IN
       IF best = 0 THEN truncate_citation_snippet(t)
       ELSE render_snippet_window(
              t, expand_snippet_window(t, split_snippet_segments(t), best))

\* Where a snippet stands in its text, without its ellipses.
Shown(snippet) == SelectSeq(snippet, LAMBDA c : c # Ellipsis)

(* What a reader is promised of a snippet: it is a piece of the text; it    *)
(* has at most SnippetChars characters (one more for the ellipsis behind a  *)
(* cut beginning) unless a single word is longer; and the best segment is   *)
(* shown from its beginning, and whole when it fits beside two ellipses.    *)
(* The window that grows around it never pushes it out.                     *)
SnippetShowsBest(t, question) ==
  LET snippet == select_citation_snippet(t, question)
      best == BestSegment(t, question)
      range == trim_snippet_range(t, split_snippet_segments(t)[best])
      segment == SubSeq(t, range.start, range.end)
      Within(part) == \E i \in 0..(Len(Shown(snippet)) - Len(part)) :
                        SubSeq(Shown(snippet), i + 1, i + Len(part)) = part
  IN Len(t) > SnippetChars =>
       /\ \/ Blank(t)
          \/ \E i \in 0..Len(t) : Shown(snippet) = SubSeq(t, i + 1, i + Len(Shown(snippet)))
       /\ \/ Len(snippet) <= SnippetChars + 1
          \/ \E w \in snippet_keywords(t) : Len(w) >= SnippetChars - 2
       /\ ~Blank(t) /\ best # 0 =>
            /\ Within(SubSeq(segment, 1, 1))
            /\ Len(segment) <= SnippetChars - 2 => Within(segment)
=============================================================================
