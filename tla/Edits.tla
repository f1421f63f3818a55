-------------------------------- MODULE Edits --------------------------------
(* The text algorithms behind the file-editing tools, as operators over a      *)
(* file's lines: the hunk applier of apply_patch (contrib/shell/patch.py), the *)
(* V4A applier of OpenAI's native patches (client/native/v4a.py), the          *)
(* candidate chain of the edit tool (contrib/shell/replace.py) and the         *)
(* str_replace of Anthropic's editor (client/native/text_editor.py).           *)
(*                                                                             *)
(* A line is its text with the whitespace on either side of it; what else the  *)
(* algorithms normalise is given by functions on texts.  The editors that      *)
(* search for a string see the whole file as one sequence of pieces, in which  *)
(* a text may occur inside another.  Positions count from 1 and 0 says "not    *)
(* found".                                                                     *)
EXTENDS Integers, SequencesExt, FiniteSetsExt

CONSTANTS
  Pieces,     \* a text as the sequence of what it is made of
  Glyphs,     \* _PUNCT_MAP: a text with its typographic punctuation replaced
  Spaces,     \* _normalize_whitespace: a text with its inner runs of blanks collapsed
  Escapes,    \* _unescape: a text with its escape sequences resolved
  Similar,    \* pairs of texts SequenceMatcher finds at least 65% alike
  Bulky,      \* texts that make a candidate disproportionate
  New,        \* the lines an edit puts in
  EditCases   \* the inputs explored

VARIABLES
  input,      \* one call: the tool, the file's lines and the arguments
  returned    \* what it returned

editVars == <<input, returned>>

Blank == [body |-> "", lead |-> 0, trail |-> 0]
Trim(l) == [l EXCEPT !.lead = 0, !.trail = 0]

LeastOrNone(S) == IF S = {} THEN 0 ELSE Min(S)

(* ------------------------- apply_patch: patch.py --------------------------- *)

\* _PASSES: exact, right-stripped, stripped, stripped with plain punctuation.
Passes == <<"exact", "rstrip", "strip", "canonical">>

Normal(pass, l) ==
  CASE pass = "exact"     -> l
    [] pass = "rstrip"    -> [l EXCEPT !.trail = 0]
    [] pass = "strip"     -> Trim(l)
    [] pass = "canonical" -> [Trim(l) EXCEPT !.body = Glyphs[l.body]]

MatchesAt(pass, hay, needle, p) ==
  /\ p + Len(needle) - 1 <= Len(hay)
  /\ \A j \in DOMAIN needle : Normal(pass, hay[p + j - 1]) = Normal(pass, needle[j])

\* A pass that finds something ends the search; within it the least position.
FirstPass(passes, At(_)) ==
  FoldLeft(LAMBDA found, pass : IF found # 0 THEN found ELSE At(pass), 0, passes)

FindLine(hay, needle, start) ==
  FirstPass(Passes, LAMBDA pass :
    LeastOrNone({p \in start..Len(hay) : MatchesAt(pass, hay, <<needle>>, p)}))

FindSequence(hay, needle, start, eof) ==
  IF needle = <<>> THEN start
  ELSE FirstPass(Passes, LAMBDA pass :
         LET tail == Len(hay) - Len(needle) + 1
         IN IF eof /\ tail >= start /\ MatchesAt(pass, hay, needle, tail) THEN tail
            ELSE LeastOrNone({p \in start..tail : MatchesAt(pass, hay, needle, p)}))

Expected(hunk) ==
  LET kept == SelectSeq(hunk.lines, LAMBDA e : e.op # "+")
  IN [j \in DOMAIN kept |-> kept[j].line]

\* Mutant: the lines a hunk keeps are the patch's and not the file's.
HunkRewritesContext(hay, hunk, p) ==
  FoldLeft(LAMBDA acc, e :
      CASE e.op = " " -> [out |-> Append(acc.out, e.line), at |-> acc.at + 1]
        [] e.op = "-" -> [acc EXCEPT !.at = @ + 1]
        [] e.op = "+" -> [acc EXCEPT !.out = Append(@, e.line)],
    [out |-> <<>>, at |-> p], hunk.lines)

\* The lines a hunk leaves when its expected lines start at p of the file: a
\* kept line is the file's own, so a fuzzy match rewrites nothing it keeps.
HunkOutput(hay, hunk, p) ==
  FoldLeft(LAMBDA acc, e :
      CASE e.op = " " -> [out |-> Append(acc.out, hay[acc.at]), at |-> acc.at + 1]
        [] e.op = "-" -> [acc EXCEPT !.at = @ + 1]
        [] e.op = "+" -> [acc EXCEPT !.out = Append(@, e.line)],
    [out |-> <<>>, at |-> p], hunk.lines)

ApplyHunk(hay, acc, hunk) ==
  LET anchor == IF hunk.context = <<>> THEN acc.at - 1
                ELSE FindLine(hay, hunk.context[1], acc.at)
      start  == anchor + 1
      found  == FindSequence(hay, Expected(hunk), start, hunk.eof)
      done   == HunkOutput(hay, hunk, found)
  IN IF ~acc.ok THEN acc
     ELSE IF (hunk.context # <<>> /\ anchor = 0) \/ found = 0
       THEN [acc EXCEPT !.ok = FALSE]
       ELSE [ok  |-> TRUE,
             out |-> acc.out \o SubSeq(hay, acc.at, found - 1) \o done.out,
             at  |-> done.at]

ApplyUpdate(lines, hunks) ==
  LET end == FoldLeft(LAMBDA acc, hunk : ApplyHunk(lines, acc, hunk),
                      [ok |-> TRUE, out |-> <<>>, at |-> 1], hunks)
  IN [ok  |-> end.ok,
      out |-> IF end.ok THEN end.out \o SubSeq(lines, end.at, Len(lines)) ELSE lines]

(* ---------------------- OpenAI's apply_patch: v4a.py ----------------------- *)

\* text.split("\n") of a file that ends in a newline: a blank last element.
SplitLines(lines) == Append(lines, Blank)

FindContextCore(lines, context, start) ==
  IF context = <<>> THEN start
  ELSE FirstPass(<<"exact", "rstrip", "strip">>, LAMBDA pass :
         LeastOrNone({p \in start..Len(lines) : MatchesAt(pass, lines, context, p)}))

FindContext(lines, context, start, eof) ==
  LET atEnd == FindContextCore(lines, context, Max({0, Len(lines) - Len(context)}) + 1)
  IN IF eof /\ atEnd # 0 THEN atEnd ELSE FindContextCore(lines, context, start)

\* A section's chunks: every run of "+" and "-" lines between two kept ones,
\* at its offset in the section's context.
ReadSection(hunk) ==
  LET Flush(acc) ==
        IF acc.del = <<>> /\ acc.ins = <<>> THEN acc
        ELSE [acc EXCEPT !.chunks = Append(@, [at  |-> Len(acc.context) - Len(acc.del),
                                               del |-> acc.del, ins |-> acc.ins]),
                         !.del = <<>>, !.ins = <<>>]
      Read(acc, e) ==
        CASE e.op = " " -> LET flushed == Flush(acc)
                           IN [flushed EXCEPT !.context = Append(@, e.line)]
          [] e.op = "-" -> [acc EXCEPT !.del = Append(@, e.line),
                                       !.context = Append(@, e.line)]
          [] e.op = "+" -> [acc EXCEPT !.ins = Append(@, e.line)]
  IN Flush(FoldLeft(Read, [context |-> <<>>, del |-> <<>>, ins |-> <<>>, chunks |-> <<>>],
                    hunk.lines))

\* An anchor that an earlier line already carries, or that no line carries,
\* moves nothing: unlike apply_patch it never fails.
AdvanceCursorToAnchor(anchor, lines, cursor) ==
  LET At(pass) ==
        IF \E p \in 1..(cursor - 1) : MatchesAt(pass, lines, <<anchor>>, p) THEN 0
        ELSE LeastOrNone({p \in cursor..Len(lines) : MatchesAt(pass, lines, <<anchor>>, p)})
      found == FirstPass(<<"exact", "strip">>, At)
  IN IF found = 0 THEN cursor ELSE found + 1

ParseSection(lines, acc, hunk) ==
  LET cursor  == IF hunk.context = <<>> THEN acc.at
                 ELSE AdvanceCursorToAnchor(hunk.context[1], lines, acc.at)
      section == ReadSection(hunk)
      found   == FindContext(lines, section.context, cursor, hunk.eof)
  IN IF ~acc.ok \/ found = 0 THEN [acc EXCEPT !.ok = FALSE]
     ELSE [ok     |-> TRUE,
           at     |-> found + Len(section.context),
           chunks |-> acc.chunks \o [j \in DOMAIN section.chunks |->
                        [section.chunks[j] EXCEPT !.at = @ + found]]]

ApplyChunk(lines, acc, chunk) ==
  IF ~acc.ok \/ acc.at > chunk.at THEN [acc EXCEPT !.ok = FALSE]
  ELSE [ok  |-> TRUE,
        out |-> acc.out \o SubSeq(lines, acc.at, chunk.at - 1) \o chunk.ins,
        at  |-> chunk.at + Len(chunk.del)]

ApplyDiff(file, hunks) ==
  LET lines  == SplitLines(file)
      parsed == FoldLeft(LAMBDA acc, hunk : ParseSection(lines, acc, hunk),
                         [ok |-> TRUE, at |-> 1, chunks |-> <<>>], hunks)
      end    == FoldLeft(LAMBDA acc, chunk : ApplyChunk(lines, acc, chunk),
                         [ok |-> parsed.ok, out |-> <<>>, at |-> 1], parsed.chunks)
  IN [ok  |-> end.ok,
      out |-> IF end.ok THEN end.out \o SubSeq(lines, end.at, Len(lines)) ELSE lines]

(* ------------------------- the edit tool: replace.py ----------------------- *)

\* A file as split("\n") gives it: one that ends in a newline has a blank last
\* line.  IsBlank: not line.strip().
IsBlank(l) == l.body = ""
Chars(l) == [j \in 1..l.lead |-> " "] \o Pieces[l.body] \o [j \in 1..l.trail |-> " "]
Joined(ls) == FlattenSeq([j \in DOMAIN ls |-> (IF j = 1 THEN <<>> ELSE <<"\n">>) \o Chars(ls[j])])

FindLines(old) == IF Last(old) = Blank THEN Front(old) ELSE old
WindowAt(lines, p, n) == SubSeq(lines, p, p + n - 1)
Windows(lines, n) == [p \in 1..(Len(lines) - n + 1) |-> WindowAt(lines, p, n)]
TrimAll(ls) == [j \in DOMAIN ls |-> Trim(ls[j])]
Collapse(ls) == [j \in DOMAIN ls |-> [Trim(ls[j]) EXCEPT !.body = Spaces[ls[j].body]]]
Dedent(ls) ==
  LET cut == Min({ls[j].lead : j \in {k \in DOMAIN ls : ~IsBlank(ls[k])}})
  IN [j \in DOMAIN ls |-> IF IsBlank(ls[j]) THEN Blank ELSE [ls[j] EXCEPT !.lead = @ - cut]]
Unescape(ls) == [j \in DOMAIN ls |-> [ls[j] EXCEPT !.body = Escapes[ls[j].body]]]

\* find.strip(): blank lines go at both ends.
Strip(ls) ==
  LET full == {j \in DOMAIN ls : ~IsBlank(ls[j])}
      core == SubSeq(ls, Min(full), Max(full))
  IN IF full = {} THEN <<>>
     ELSE [j \in DOMAIN core |->
            [core[j] EXCEPT !.lead  = IF j = 1 THEN 0 ELSE @,
                            !.trail = IF j = Len(core) THEN 0 ELSE @]]

SameEnds(w, find) ==
  Len(find) >= 3 /\ Trim(w[1]) = Trim(find[1]) /\ Trim(Last(w)) = Trim(Last(find))
Middle(ls) == 2..(Len(ls) - 1)
AlikeMiddle(w, find) == \A j \in Middle(find) :
  w[j].body = find[j].body \/ <<w[j].body, find[j].body>> \in Similar
HalfMiddle(w, find) ==
  LET checked == {j \in Middle(find) : ~IsBlank(find[j])}
  IN 2 * Cardinality({j \in checked : Trim(w[j]) = Trim(find[j])}) >= Cardinality(checked)

\* REPLACERS after the literal one, in order: what each offers for `old`.
FuzzyCandidates(lines, old) ==
  LET find == FindLines(old)
      Pick(Test(_)) == SelectSeq(Windows(lines, Len(find)), Test)
      Unless(same, cand) == IF same THEN <<>> ELSE <<cand>>
  IN Pick(LAMBDA w : TrimAll(w) = TrimAll(find))
     \o Pick(LAMBDA w : SameEnds(w, find) /\ AlikeMiddle(w, find))
     \o Pick(LAMBDA w : Collapse(w) = Collapse(find))
     \o Pick(LAMBDA w : Dedent(w) = Dedent(find))
     \o Unless(Unescape(old) = old, Unescape(old))
     \o Unless(Strip(old) = old, Strip(old))
     \o Pick(LAMBDA w : SameEnds(w, find) /\ HalfMiddle(w, find))

Candidates(lines, old) == <<old>> \o FuzzyCandidates(lines, old)

OccursAt(text, cand, p) ==
  p + Len(cand) - 1 <= Len(text) /\ SubSeq(text, p, p + Len(cand) - 1) = cand

\* str.count and str.replace: from the left, without overlaps.
Occurrences(text, cand) ==
  FoldLeft(LAMBDA found, p :
      IF OccursAt(text, cand, p) /\ (found = <<>> \/ p >= Last(found) + Len(cand))
      THEN Append(found, p) ELSE found,
    <<>>, [p \in DOMAIN text |-> p])

Substitute(text, cand, p, new) ==
  SubSeq(text, 1, p - 1) \o new \o SubSeq(text, p + Len(cand), Len(text))

SubstituteAll(text, cand, new) ==
  FoldRight(LAMBDA p, rest : Substitute(rest, cand, p, new), Occurrences(text, cand), text)

Disproportionate(cand, old) ==
  /\ \E j \in DOMAIN cand : cand[j].body \in Bulky
  /\ ~ \E j \in DOMAIN old : old[j].body \in Bulky

\* A candidate counts when it occurs in the text; an empty one is skipped.
Usable(text, old, cand) ==
  /\ Joined(cand) # <<>> /\ ~Disproportionate(cand, old)
  /\ Occurrences(text, Joined(cand)) # <<>>

Replace(lines, old, new, all) ==
  LET text   == Joined(lines)
      usable == SelectSeq(Candidates(lines, old), LAMBDA c : Usable(text, old, c))
      unique == SelectSeq(usable, LAMBDA c : Len(Occurrences(text, Joined(c))) = 1)
      chosen == IF all THEN usable ELSE unique
  IN [ok  |-> chosen # <<>>,
      out |-> IF chosen = <<>> THEN text
              ELSE SubstituteAll(text, Joined(chosen[1]), Joined(new))]

(* --------------------- Anthropic's editor: text_editor.py ------------------ *)

StrReplace(lines, old, new) ==
  LET text == Joined(lines)
      once == Len(Occurrences(text, Joined(old))) = 1
  IN [ok  |-> once,
      out |-> IF once THEN SubstituteAll(text, Joined(old), Joined(new)) ELSE text]

(* ----------------------------- one call of a tool -------------------------- *)

Pending == [ok |-> FALSE, out |-> <<>>]
EditsInit == input \in EditCases /\ returned = Pending

Patch == /\ input.tool = "apply_patch" /\ returned = Pending
         /\ returned' = ApplyUpdate(input.lines, input.hunks)
         /\ UNCHANGED input

Edit == /\ input.tool = "edit" /\ returned = Pending
        /\ returned' = Replace(input.lines, input.old, New, input.all)
        /\ UNCHANGED input

EditsNext == Patch \/ Edit

Done(tool) == input.tool = tool /\ returned # Pending

(* ------------------------------- properties -------------------------------- *)

\* The places a patch could be meant for: an increasing choice of positions, one
\* per hunk, where the hunk's anchor and expected lines match under `pass`.
Placements(lines, hunks, pass) ==
  LET Fits(hunk, from, p) ==
        /\ MatchesAt(pass, lines, Expected(hunk), p)
        /\ hunk.context # <<>> =>
             \E a \in from..(p - 1) : MatchesAt(pass, lines, hunk.context, a)
      EndOf(at, j) == IF j = 0 THEN 1 ELSE at[j] + Len(Expected(hunks[j]))
  IN {at \in [DOMAIN hunks -> 1..(Len(lines) + 1)] :
        \A j \in DOMAIN hunks :
          EndOf(at, j - 1) <= at[j] /\ Fits(hunks[j], EndOf(at, j - 1), at[j])}

\* What a hunk placed at p should leave, entry by entry.
PlacedText(lines, hunk, p) ==
  LET before(k) == Cardinality({j \in 1..(k - 1) : hunk.lines[j].op # "+"})
      Text(k) == CASE hunk.lines[k].op = "+" -> <<hunk.lines[k].line>>
                   [] hunk.lines[k].op = "-" -> <<>>
                   [] hunk.lines[k].op = " " -> <<lines[p + before(k)]>>
  IN FlattenSeq([k \in DOMAIN hunk.lines |-> Text(k)])

Spliced(lines, hunks, at) ==
  LET EndOf(j) == IF j = 0 THEN 1 ELSE at[j] + Len(Expected(hunks[j]))
      Part(j) == SubSeq(lines, EndOf(j - 1), at[j] - 1) \o PlacedText(lines, hunks[j], at[j])
  IN FlattenSeq([j \in DOMAIN hunks |-> Part(j)])
     \o SubSeq(lines, EndOf(Len(hunks)), Len(lines))

\* apply_patch: a patch that applies is an edit of the file at places its hunks
\* describe, in the order of the hunks, and every line it keeps is the file's
\* own (patch.py, apply_update).
UpdateIsAnEdit ==
  Done("apply_patch") /\ returned.ok =>
    \E at \in Placements(input.lines, input.hunks, "canonical") :
      returned.out = Spliced(input.lines, input.hunks, at)

\* apply_patch: a patch whose anchors and lines stand in the file exactly, in
\* order, is never refused: taking the first exact place for each hunk loses no
\* later one (patch.py, _find_line and _find_sequence).
ExactPatchApplies ==
  Done("apply_patch") /\ Placements(input.lines, input.hunks, "exact") # {} => returned.ok

\* A patch without anchors and end-of-file marks means the same to the generic
\* apply_patch and to OpenAI's: where both apply, the files agree.
PatchersAgree ==
  LET native == ApplyDiff(input.lines, input.hunks)
  IN Done("apply_patch") /\ returned.ok /\ native.ok
     /\ (\A j \in DOMAIN input.hunks : input.hunks[j].context = <<>> /\ ~input.hunks[j].eof)
       => native.out = SplitLines(returned.out)

\* edit: when just one window of the file reads like an old_string that does not
\* end in a newline, once the lines of both are stripped, and neither of the two occurs anywhere else in the file, be it inside
\* another line, then that window is the one edited, however it is indented, and
\* the rest of the file stays as it was (replace.py).
UniqueWindowIsEdited ==
  LET n     == Len(input.old)
      alike == {p \in 1..(Len(input.lines) - n + 1) :
                  TrimAll(WindowAt(input.lines, p, n)) = TrimAll(input.old)}
  IN Done("edit") /\ Cardinality(alike) = 1 /\ FindLines(input.old) = input.old =>
       LET p      == Min(alike)
           text   == Joined(input.lines)
           before == FlattenSeq([j \in 1..(p - 1) |-> Chars(input.lines[j]) \o <<"\n">>])
           window == Joined(WindowAt(input.lines, p, n))
           after  == SubSeq(text, Len(before) + Len(window) + 1, Len(text))
           Inside(cand) == \A i \in DOMAIN text : OccursAt(text, cand, i) =>
                             Len(before) < i /\ i + Len(cand) <= Len(before) + Len(window) + 1
           put    == SubSeq(returned.out, Len(before) + 1, Len(returned.out) - Len(after))
           Ink(t) == SelectSeq(t, LAMBDA c : c \notin {" ", "\n"})
       IN Inside(Joined(input.old)) /\ Inside(window) =>
            /\ returned.ok
            /\ returned.out = before \o put \o after
            /\ Ink(put) = Ink(Joined(New))

\* What Anthropic's str_replace accepts, edit does identically: the fuzzy
\* strategies never override an old_string that occurs once.
EditorsAgree ==
  Done("edit") /\ ~input.all /\ StrReplace(input.lines, input.old, New).ok =>
    returned = StrReplace(input.lines, input.old, New)

\* What an edit does is what its input describes, by whichever of the four
\* editors it is applied.
EditorsSound ==
  /\ UpdateIsAnEdit /\ ExactPatchApplies /\ PatchersAgree
  /\ UniqueWindowIsEdited /\ EditorsAgree

=============================================================================
