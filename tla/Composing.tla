-------------------------------- MODULE Composing --------------------------------
(***************************************************************************)
(* What the user composed and what is sent of it.  A message is stored as  *)
(* it was composed, and the outbox makes the daemon's parameters from what *)
(* is stored, at once or after any number of retries: its mentions, the    *)
(* message it replies to, and its fields are worked out again each time.   *)
(*                                                                         *)
(* Texts are sequences of characters: a letter a, a letter i   *)
(* that is not ASCII, an emoji E that takes two units of UTF-16, digits,   *)
(* "@", "." and a blank.  The offsets of a mention count units, as the     *)
(* pages do.  Ann is called a and has number 5, Eve is called E and has 6. *)
(***************************************************************************)
EXTENDS Integers, Sequences, FiniteSets, SequencesExt

People == {"a", "E"}
Number == [a |-> "5", E |-> "6"]
Digits == {"5", "6"}
Ascii == {"a", "5", "6"}
Alnum == Ascii \cup {"i"}
TokenChars == Ascii \cup {"."}
Chars == Alnum \cup {"E", "@", ".", " "}

(* Mutation: characters are counted, not units.                            *)
CodePoints(text, i) == i

(* _utf16_boundary_map: the units in the first i characters.               *)
Units(text, i) == i + Cardinality({k \in 1 .. i : text[k] = "E"})

Indexes(text, offset) == {i \in 0 .. Len(text) : Units(text, i) = offset}

-----------------------------------------------------------------------------
(* Mentions on the page.  A text of JavaScript is a sequence of units.     *)

Label(who) == <<"@", who>>
Js(text) == FlattenSeq([i \in DOMAIN text |-> IF text[i] = "E" THEN <<"high", "low">> ELSE <<text[i]>>])

(* validateMentionSpans of the composer: the spans it can have.            *)
Mentionable(text) ==
  LET js == Js(text)
      ends(i) == i \notin DOMAIN js \/ js[i] \notin Ascii
  IN {span \in [who : People, start : 0 .. Len(js), length : {2, 3}] :
        /\ span.length = Len(Js(Label(span.who))) /\ span.start + span.length <= Len(js)
        /\ SubSeq(js, span.start + 1, span.start + span.length) = Js(Label(span.who))
        /\ ends(span.start) /\ ends(span.start + span.length + 1)}

-----------------------------------------------------------------------------
(* Mentions on the way out.                                                *)

(* What is before the text and after it is no letter.                      *)
Ends(text, i) == i \notin DOMAIN text \/ text[i] \notin Alnum

(* _mention_span_matches *)
Matches(text, span) ==
  /\ span.length = Units(Label(span.who), 2)
  /\ \E i \in Indexes(text, span.start), j \in Indexes(text, span.start + span.length) :
       SubSeq(text, i + 1, j) = Label(span.who) /\ Ends(text, i) /\ Ends(text, j + 1)

(* Records in the order of their starts, which differ.                     *)
InOrder(S) ==
  [k \in 1 .. Cardinality(S) |->
     CHOOSE s \in S : Cardinality({t \in S : t.start < s.start}) = k - 1]

(* validate_mention_spans: those that match, in order, without overlap.    *)
Validated(text, spans) ==
  LET matching == InOrder({s \in spans : Matches(text, s)})
      overlaps(kept, s) == kept # <<>> /\ s.start < Last(kept).start + Last(kept).length
      validated[k \in 0 .. Len(matching)] ==
        IF k = 0 THEN <<>>
        ELSE IF overlaps(validated[k - 1], matching[k]) THEN validated[k - 1]
        ELSE Append(validated[k - 1], matching[k])
  IN validated[Len(matching)]

(* A text with words in certain places of it, and what is between them.    *)
Replaced(text, places, words) ==
  LET after(k) == IF k = 0 THEN 1 ELSE places[k].end + 1
      parts == [k \in DOMAIN places |->
                  SubSeq(text, after(k - 1), places[k].start - 1) \o words[k]]
  IN FlattenSeq(parts) \o SubSeq(text, after(Len(places)), Len(text))

(* mention_transport_payload: numbers take the place of the names.         *)
Transport(text, spans) ==
  LET mentions == Validated(text, spans)
      index(s) == CHOOSE i \in Indexes(text, s.start) : TRUE
      places == [k \in DOMAIN mentions |->
                   [start |-> index(mentions[k]) + 1, end |-> index(mentions[k]) + 2]]
      tokens == [k \in DOMAIN mentions |-> <<"@", Number[mentions[k].who]>>]
  IN [text |-> Replaced(text, places, tokens), people |-> [k \in DOMAIN mentions |-> mentions[k].who]]

-----------------------------------------------------------------------------
(* ... and on the way in.                                                  *)

(* The tokens of a text: "@", a digit, and all that may follow it.         *)
Tokens(text) ==
  {token \in [start : 1 .. Len(text), end : 1 .. Len(text)] :
     /\ token.start < token.end
     /\ text[token.start] = "@" /\ text[token.start + 1] \in Digits
     /\ \A k \in token.start + 1 .. token.end : text[k] \in TokenChars
     /\ token.end + 1 \in DOMAIN text => text[token.end + 1] \notin TokenChars}

(* template_mention_text, then render_mention_text: if there are as many   *)
(* tokens as people are mentioned, their names take the tokens' places.    *)
Rendered(text, people) ==
  LET tokens == InOrder(Tokens(text))
  IN IF Len(tokens) # Len(people) THEN text
     ELSE Replaced(text, tokens, [k \in DOMAIN people |-> Label(people[k])])

(* A text that has tokens of its own, or goes on right after a mention     *)
(* with what could be part of one, is shown with the numbers.              *)
Unambiguous(text) ==
  /\ Tokens(text) = {}
  /\ \A i \in 3 .. Len(text) :
       text[i] = "." => \A who \in People : SubSeq(text, i - 2, i - 1) # Label(who)

(* The page and the Python side disagree on which letters end a mention.   *)
NoOtherLetters(text) == \A i \in DOMAIN text : text[i] # "i"

(* The mentions of the page are the ones sent, what is shown on the other  *)
(* side is what was written, and validating the stored mentions again      *)
(* before a retry changes nothing.                                         *)
MentionsKept(text, spans) ==
  LET sent == Transport(text, spans)
      kept == {Validated(text, spans)[k] : k \in DOMAIN Validated(text, spans)}
  IN /\ NoOtherLetters(text) => kept = spans
     /\ Transport(text, kept) = sent
     /\ Unambiguous(text) => Rendered(sent.text, sent.people) = text

-----------------------------------------------------------------------------
(* Replies.  A participant is a phone number or a hidden id, "" for the    *)
(* user; the record of the message that is replied to may be there or not. *)

Participants == {"", "phone", "lid"}
Missing == [outgoing |-> FALSE, raw |-> "", sender |-> ""]
Entries ==
  {e \in [outgoing : BOOLEAN, raw : Participants, sender : Participants] :
     e = Missing \/ e.outgoing \/ e.sender # ""}

Or(x, y) == IF x # "" THEN x ELSE y

FromPage(participant) ==
  [participant |-> participant, canonical |-> participant, fromMe |-> participant = ""]

(* _pending_reply_context and the second branch of _resolve_reply_context. *)
FromStored(m) ==
  LET participant == Or(m.raw, m.sender) IN
  [participant |-> participant, canonical |-> Or(m.sender, participant),
   fromMe |-> m.fromMe \/ participant = ""]

(* _resolve_reply_context: what the record says goes before the context.   *)
Resolved(context, entry) ==
  LET participant == Or(entry.raw, entry.sender) IN
  IF entry = Missing THEN context
  ELSE [participant |-> participant, fromMe |-> entry.outgoing,
        canonical |-> IF participant = "" THEN "" ELSE Or(entry.sender, participant)]

(* _apply_reply_context *)
Applied(context) ==
  [sender |-> Or(context.canonical, context.participant), raw |-> context.participant,
   fromMe |-> context.fromMe]

(* A retry replies to the person the first attempt replied to, also when   *)
(* the record of the user's own message has got another id since; the      *)
(* daemon takes a reply without a participant for one to the user.         *)
ReplyKept(participant, now, later) ==
  LET first == Resolved(FromPage(participant), now)
      retry == Resolved(FromStored(Applied(first)), later)
  IN (later = now \/ (now.outgoing /\ later = Missing)) =>
       /\ retry.participant = first.participant /\ retry.fromMe = first.fromMe
       /\ retry.participant = "" => retry.fromMe

-----------------------------------------------------------------------------
(* Fields: those of the stored message that each call fills, the parameter *)
(* of SendMessage that each goes to, and the ones the daemon uses.         *)

Kinds == {"text", "image", "video", "audio", "document", "sticker", "contact", "location"}

ComposedText == {"text", "mention_spans"}
ComposedPicture == {"caption", "media_path"}
ComposedAudio == {"duration", "media_path", "mimetype"}
ComposedDocument == {"caption", "media_path", "mimetype", "file_name"}
ComposedSticker == {"media_path"}
ComposedContact == {"media_path", "mimetype", "file_name"}
ComposedLocation == {"text", "link_url"}

Composed ==
  [text |-> ComposedText, image |-> ComposedPicture, video |-> ComposedPicture,
   audio |-> ComposedAudio, document |-> ComposedDocument, sticker |-> ComposedSticker,
   contact |-> ComposedContact, location |-> ComposedLocation]

(* _send_pending_message_via_rpc; PTT is always set.                       *)
Parameters ==
  [text |-> [Text |-> "text", MentionedJIDs |-> "mention_spans"],
   image |-> [FilePath |-> "media_path", Caption |-> "caption"],
   video |-> [FilePath |-> "media_path", Caption |-> "caption"],
   audio |-> [FilePath |-> "media_path", DurationSeconds |-> "duration"],
   document |-> [FilePath |-> "media_path", FileName |-> "file_name", Caption |-> "caption"],
   sticker |-> [FilePath |-> "media_path"],
   contact |-> [FilePath |-> "media_path", Text |-> "file_name"],
   location |-> [Latitude |-> "link_url", Longitude |-> "link_url"]]

Used ==
  [text |-> {"Text", "MentionedJIDs"}, image |-> {"FilePath", "Caption"},
   video |-> {"FilePath", "Caption"}, audio |-> {"FilePath", "DurationSeconds"},
   document |-> {"FilePath", "FileName", "Caption"}, sticker |-> {"FilePath"},
   contact |-> {"FilePath", "Text"}, location |-> {"Latitude", "Longitude"}]

(* _format_duration, _parse_duration_seconds                               *)
Clock(seconds) == <<seconds \div 60, seconds % 60>>
Seconds(clock) == clock[1] * 60 + clock[2]

(* What the daemon uses is what it is given, from fields that were filled. *)
FieldsKept(kind, seconds) ==
  /\ DOMAIN Parameters[kind] = Used[kind]
  /\ \A p \in Used[kind] : Parameters[kind][p] \in Composed[kind]
  /\ Seconds(Clock(seconds)) = seconds
=============================================================================
