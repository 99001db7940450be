---------------------------------- MODULE PageScan -----------------------------------
(***************************************************************************)
(* How Meta's provider finds a post in a page: the object behind a key, cut  *)
(* out by counting braces, in the page as it is or, when that fails, in the  *)
(* page with its inner escapes undone.  A page is a sequence of bytes, told  *)
(* apart as far as the scanner tells them; a key, an id or a number is one.  *)
(* It arrives byte by byte and may be cut off anywhere, by the platform or by *)
(* the limit on a page's size, which the reader does not notice.             *)
(*                                                                         *)
(* What the platform renders, and what encoding/json accepts, is external.  *)
(***************************************************************************)
EXTENDS Integers, Sequences, FiniteSetsExt, SequencesExt

CONSTANTS Glyph,      \* the bytes captions are made of
          MaxCaption  \* bound: their length

Quote == "\""
Back == "\\"
Newline == "\n"
Nil == <<>>         \* no object

ASSUME ScanConfig ==
    Glyph \subseteq {"{", "}", "/", "n", Quote, Back, Newline} /\ MaxCaption \in Nat

VARIABLES
    caption,   \* what the post says
    nested,    \* whether its payload is escaped once more, inside a string
    page,      \* what the platform sends
    body       \* what of it has been read

scanVars == <<caption, nested, page, body>>

---------------------------------------------------------------------------
\* The bytes of word stand in the text from position i on.
Reads(text, i, word) == IsPrefix(word, SubSeq(text, i, Len(text)))

\* strings.NewReplacer at one position: what is written and how much is read for it.
Replaced(text, i) ==
    CASE Reads(text, i, <<Back, Quote>>) -> [byte |-> Quote, length |-> 2]
      [] Reads(text, i, <<Back, Back, "/">>) -> [byte |-> "/", length |-> 3]
      [] Reads(text, i, <<Back, "/">>) -> [byte |-> "/", length |-> 2]
      [] Reads(text, i, <<Back, "n">>) -> [byte |-> Newline, length |-> 2]
      [] OTHER -> [byte |-> text[i], length |-> 1]

\* Its loop over one position; skip is how much of a replaced word is left to read.
Copy(s, text, i) ==
    IF s.skip > 0 THEN [out |-> s.out, skip |-> s.skip - 1]
    ELSE [out |-> Append(s.out, Replaced(text, i).byte), skip |-> Replaced(text, i).length - 1]

Copied(text) ==
    LET at[i \in 0 .. Len(text)] ==
            IF i = 0 THEN [out |-> <<>>, skip |-> 0] ELSE Copy(at[i - 1], text, i)
    IN  at

\* unescapeJSONString: a page without \" is left alone.
UnescapeJSONString(text) ==
    IF \E i \in DOMAIN text : Reads(text, i, <<Back, Quote>>) THEN Copied(text)[Len(text)].out
    ELSE text

\* The loop of balancedObject over one byte: how deep it is in objects, and whether in
\* a string or behind a backslash.
LexerStart == [depth |-> 0, mode |-> "object"]

ModeAfter(mode, c) ==
    CASE mode = "object escape" -> "object"
      [] mode = "string escape" -> "string"
      [] mode = "object" /\ c = Back -> "object escape"
      [] mode = "string" /\ c = Back -> "string escape"
      [] mode = "object" /\ c = Quote -> "string"
      [] mode = "string" /\ c = Quote -> "object"
      [] OTHER -> mode

\* Mutant: braces count wherever they are.
BlindToStrings(depth, mode, c) ==
    IF c = "{" THEN depth + 1 ELSE IF c = "}" THEN depth - 1 ELSE depth

DepthAfter(depth, mode, c) ==
    IF mode # "object" THEN depth
    ELSE IF c = "{" THEN depth + 1 ELSE IF c = "}" THEN depth - 1 ELSE depth

ReadByte(s, c) == [mode |-> ModeAfter(s.mode, c), depth |-> DepthAfter(s.depth, s.mode, c)]

Lexed(text) ==
    LET at[i \in 0 .. Len(text)] == IF i = 0 THEN LexerStart ELSE ReadByte(at[i - 1], text[i])
    IN  at

\* The object ends where the depth comes back to zero.
BalancedObject(text) ==
    LET ends == {i \in DOMAIN text : Lexed(text)[i].depth = 0}
    IN  IF text = <<>> \/ text[1] # "{" \/ ends = {} THEN Nil ELSE SubSeq(text, 1, Min(ends))

\* findObject: the first occurrence of the key that an object follows.
FindObject(text, key) ==
    LET needle == <<Quote, key, Quote, ":">>
        object(i) == BalancedObject(SubSeq(text, i + Len(needle), Len(text)))
        found == {i \in DOMAIN text : Reads(text, i, needle) /\ object(i) # Nil}
    IN  IF found = {} THEN Nil ELSE object(Min(found))

---------------------------------------------------------------------------
\* What the platform writes: a post with its caption, as JSON, in a page or, once
\* more escaped, in a string in a page.  Either level may escape the slash.
Escaped(c, slash) ==
    CASE c \in {Quote, Back} -> <<Back, c>>
      [] c = Newline -> <<Back, "n">>
      [] c = "/" /\ slash -> <<Back, c>>
      [] OTHER -> <<c>>

Escape(text, slash) == FlattenSeq([i \in DOMAIN text |-> Escaped(text[i], slash)])

Opening == <<"{", Quote, "id", Quote, ":", "7", ",", Quote, "text", Quote, ":", Quote>>
Counters == <<Quote, ",", Quote, "likes", Quote, ":", "{", Quote, "count", Quote, ":", "3", "}", "}">>
Bare == <<Quote, "}">>

Post(said, slash) == Opening \o Escape(said, slash) \o Counters

Leading(key) == <<"{", Quote, key, Quote, ":">>
After(escaped) == IF escaped THEN <<"}", Quote, "}">> ELSE <<"}", "<">>
InPage(key, post) == <<"<">> \o Leading(key) \o post \o After(FALSE)
InString(key, post, slash) ==
    <<"{", Quote, "context", Quote, ":", Quote>> \o Escape(Leading(key) \o post, slash) \o After(TRUE)

\* encoding/json: the text of a string has no quote and no line break of its own,
\* and nothing unknown behind a backslash.
TextAfter(mode, c) ==
    CASE mode = "text" /\ c = Back -> "escape"
      [] mode = "text" /\ c \notin {Quote, Back, Newline} -> "text"
      [] mode = "escape" /\ c \in {Quote, Back, "/", "n"} -> "text"
      [] OTHER -> "broken"

Parsed(text) ==
    LET at[i \in 0 .. Len(text)] == IF i = 0 THEN "text" ELSE TextAfter(at[i - 1], text[i])
    IN  at

IsText(text) == Parsed(text)[Len(text)] = "text"

\* What of the counters it decodes from an object, if it is one.
Decoded(object) ==
    LET ends(end) == /\ IsPrefix(Opening, object) /\ IsSuffix(end, object)
                     /\ Len(object) >= Len(Opening) + Len(end)
                     /\ IsText(SubSeq(object, Len(Opening) + 1, Len(object) - Len(end)))
    IN  IF ends(Counters) THEN {"counted"} ELSE IF ends(Bare) THEN {"uncounted"} ELSE {}

\* extractShortcodeMedia: the page as it is, then unescaped; either key.
Keys == <<"shortcode_media", "xdt_shortcode_media">>
Candidates(text) == <<text, UnescapeJSONString(text)>>

ExtractShortcodeMedia(text) ==
    LET object(c) == IF FindObject(c, Keys[1]) # Nil THEN FindObject(c, Keys[1])
                     ELSE FindObject(c, Keys[2])
        read(c) == Decoded(object(c))
        good == {i \in DOMAIN Candidates(text) : read(Candidates(text)[i]) # {}}
    IN  IF good = {} THEN {} ELSE read(Candidates(text)[Min(good)])

---------------------------------------------------------------------------
ScanInit ==
    /\ caption \in BoundedSeq(Glyph, MaxCaption)
    /\ nested \in BOOLEAN
    /\ \E key \in ToSet(Keys) : \E inner, outer \in BOOLEAN :
          page = LET post == Post(caption, inner)
                 IN  IF nested THEN InString(key, post, outer) ELSE InPage(key, post)
    /\ body = <<>>

\* fetchOnce reads on, or stops here.
Read ==
    /\ body # page
    /\ body' = Append(body, page[Len(body) + 1])
    /\ UNCHANGED <<caption, nested, page>>

ScanNext == Read

ScanSpec == ScanInit /\ [][ScanNext]_scanVars

---------------------------------------------------------------------------
Simple == \A i \in DOMAIN caption : caption[i] \notin {Quote, Back, Newline}
Complete == Len(body) >= Len(page) - Len(After(nested))

\* A post is read with its counters as soon as all of it is there, whatever braces
\* its caption holds, and not before: a page cut off gives no reading rather than
\* one without counters.  But a caption with quotes, backslashes or line breaks has
\* to be whole, and in a payload that is not escaped once more: there a quote ends
\* the caption, and a brace behind it the object, which findObject's comment rules
\* out ("a `}` inside a caption cannot end the object early").
PostsAreReadWhole ==
    /\ Complete /\ (Simple \/ ~nested) => ExtractShortcodeMedia(body) = {"counted"}
    /\ ~Complete /\ Simple => ExtractShortcodeMedia(body) = {}

================================================================================
