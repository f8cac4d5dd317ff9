------------------------------- MODULE Contents -------------------------------
(***************************************************************************)
(* What a message's content becomes: its type, the fields the chat page    *)
(* shows, the preview in the chat list, the preview in a reply and the     *)
(* file to download.  The code derives each of them twice, once for a      *)
(* message that comes in live and once for one that history brings, and    *)
(* the preview a third time for a message that is quoted.                  *)
(*                                                                         *)
(* A content is the set of parts it has, and of their details only whether *)
(* there are words (the text, the caption, the name of a place), whether   *)
(* an extended text has a link, and how many seconds a recording lasts.    *)
(***************************************************************************)
EXTENDS Naturals, FiniteSets

(* The parts with a type of their own, the ones of a template, ...         *)
Plain == {"conversation", "extended", "image", "video", "ptv", "audio", "document",
          "contact", "contacts", "location", "liveLocation", "sticker"}
Template == {"templateImage", "templateText"}
(* ... a part of a kind the application does not know, and one it ignores. *)
Parts == Plain \cup Template \cup {"unknown", "ignored"}

Content == [parts : SUBSET Parts, words : BOOLEAN, link : BOOLEAN, seconds : {0, 65}]
Has(c, parts) == c.parts \cap parts # {}

(* The contents the server sends: one part, or a template with an image and*)
(* a text, and possibly an ignored part.                                   *)
Regular ==
  {c \in Content : LET p == c.parts \ {"ignored"} IN Cardinality(p) <= 1 \/ p = Template}

MediaTypes == {"image", "video", "audio", "document", "sticker"}

(* resolve_media_message_content, for an image.                            *)
Image(c) == Has(c, {"image", "templateImage"})
Video(c) == Has(c, {"video", "ptv"})
Contact(c) == Has(c, {"contact", "contacts"})
Location(c) == Has(c, {"location", "liveLocation"})

(* unsupported_message_text: a message of an unknown kind says so.         *)
Unsupported(c) == Has(c, {"unknown"})

(* The first type in order whose test holds.                               *)
FirstOf(tests, otherwise) ==
  LET hits == {i \in DOMAIN tests : tests[i][1]} IN
  IF hits = {} THEN otherwise ELSE tests[CHOOSE i \in hits : \A j \in hits : i <= j][2]

-----------------------------------------------------------------------------
(* Types.                                                                  *)

(* _derive_message_type_from_content                                       *)
LiveType(c) ==
  FirstOf(<< <<Image(c), "image">>,
             <<Has(c, {"templateText"}), "text">>,
             <<Video(c), "video">>,
             <<Has(c, {"audio"}), "audio">>,
             <<Has(c, {"document"}), "document">>,
             <<Contact(c), "contact">>,
             <<Location(c), "location">>,
             <<Has(c, {"sticker"}), "sticker">>,
             <<Has(c, {"extended"}) /\ c.link, "link">>,
             <<Has(c, {"extended", "conversation"}), "text">>,
             <<Unsupported(c), "text">> >>, "none")

(* _derive_type_from_content, _resolve_type_and_fallback_text              *)
HistoryType(c) ==
  FirstOf(<< <<Has(c, {"extended"}) /\ c.link, "link">>,
             <<Image(c), "image">>,
             <<Has(c, {"conversation", "extended", "templateText"}), "text">>,
             <<Video(c), "video">>,
             <<Has(c, {"audio"}), "audio">>,
             <<Has(c, {"document"}), "document">>,
             <<Contact(c), "contact">>,
             <<Location(c), "location">>,
             <<Has(c, {"sticker"}), "sticker">>,
             <<Unsupported(c), "text">> >>, "none")

-----------------------------------------------------------------------------
(* Fields.  Words stand for a text that is not empty, "unsupported" for    *)
(* the sentence that names an unknown kind.                                *)

Words(c) == IF c.words THEN "words" ELSE ""
Minutes(c) == <<c.seconds \div 60, c.seconds % 60>>

(* The part the fields come from, in the order both functions test them.   *)
Body(c) ==
  FirstOf(<< <<Has(c, {"image"}), "image">>, <<Image(c), "templateImage">>,
             <<Video(c), "video">>, <<Has(c, {"audio"}), "audio">>,
             <<Has(c, {"document"}), "document">>, <<Contact(c), "contact">>,
             <<Location(c), "location">> >>, "none")

Caption(c) ==
  CASE Body(c) \in {"image", "video", "document", "location"} -> Words(c)
    [] Body(c) = "templateImage" /\ Has(c, {"templateText"}) -> "words"
    [] OTHER -> ""

(* message_event_to_message                                                *)
LiveText(c) ==
  FirstOf(<< <<LiveType(c) = "none", "">>,
             <<Body(c) = "location", Words(c)>>,
             <<Has(c, {"conversation"}), "words">>,
             <<Has(c, {"extended"}), Words(c)>>,
             <<LiveType(c) = "text" /\ Has(c, {"templateText"}), "words">>,
             <<LiveType(c) = "text", "unsupported">> >>, "")

LiveFields(c) ==
  [text |-> LiveText(c),
   caption |-> Caption(c),
   duration |-> IF Body(c) \in {"video", "audio"} THEN Minutes(c) ELSE <<>>,
   name |-> Body(c) \in {"document", "contact"}]

(* _extract_content_fields                                                 *)
HistoryText(c) ==
  FirstOf(<< <<HistoryType(c) = "none", "">>,
             <<Body(c) = "location", Words(c)>>,
             <<Has(c, {"conversation"}), "words">>,
             <<Has(c, {"extended"}), Words(c)>>,
             <<~Image(c) /\ Has(c, {"templateText"}), "words">>,
             <<HistoryType(c) = "text", "unsupported">> >>, "")

HistoryFields(c) ==
  [text |-> HistoryText(c),
   caption |-> Caption(c),
   duration |-> IF Body(c) \in {"video", "audio"} /\ c.seconds # 0 THEN Minutes(c) ELSE <<>>,
   name |-> Body(c) \in {"document", "contact"}]

(* _media_download_record: what the record says there is to download.      *)
Download(c) ==
  FirstOf(<< <<Image(c), "image">>, <<Video(c), "video">>, <<Has(c, {"audio"}), "audio">>,
             <<Has(c, {"document"}), "document">>, <<Has(c, {"sticker"}), "sticker">> >>, "none")

-----------------------------------------------------------------------------
(* Previews.  A label is named by its type.                                *)

Or(words, label) == IF words # "" THEN words ELSE label

(* _message_preview_data, of the message message_event_to_message returns. *)
LivePreview(c) ==
  LET f == LiveFields(c) IN
  IF LiveType(c) = "location" THEN Or(f.text, "location")
                              ELSE Or(f.text, Or(f.caption, LiveType(c)))

(* _message_preview of history_sync.py                                     *)
HistoryPreview(c) ==
  FirstOf(<< <<Has(c, {"conversation"}), "words">>,
             <<Has(c, {"extended"}) /\ c.words, "words">>,
             <<Has(c, {"image"}), Or(Words(c), "image")>>,
             <<Image(c), IF Has(c, {"templateText"}) THEN "words" ELSE "image">>,
             <<Video(c), Or(Words(c), "video")>>,
             <<Location(c), Or(Words(c), "location")>>,
             <<Has(c, {"audio"}), "audio">>,
             <<Has(c, {"document"}), Or(Words(c), "document")>>,
             <<Contact(c), "contact">>,
             <<Has(c, {"sticker"}), "sticker">>,
             <<Has(c, {"templateText"}), "words">>,
             <<Unsupported(c), "unsupported">> >>, "")

(* Mutation: a caption is not quoted.                                      *)
QuotedLabel(c) == IF Has(c, {"image"}) THEN "image" ELSE HistoryPreview(c)

(* _quoted_message_preview                                                 *)
QuotedPreview(c) ==
  FirstOf(<< <<Has(c, {"conversation"}), "words">>,
             <<Has(c, {"extended"}) /\ c.words, "words">>,
             <<Has(c, {"image"}), Or(Words(c), "image")>>,
             <<Video(c), Or(Words(c), "video")>>,
             <<Has(c, {"audio"}), "audio">>,
             <<Has(c, {"document"}), Or(Words(c), "document")>>,
             <<Contact(c), "contact">>,
             <<Location(c), Or(Words(c), "location")>>,
             <<Has(c, {"sticker"}), "sticker">>,
             <<Image(c), IF Has(c, {"templateText"}) THEN "words" ELSE "image">> >>, "")

-----------------------------------------------------------------------------
(* Properties.                                                             *)

(* A message that history brings looks like the same message come in live: *)
(* same type, same fields, same preview in the chat list.  Two texts of    *)
(* the code disagree: an extended text without words has a preview only    *)
(* live, and a recording of no known length shows 0:00 only live.          *)
HistoryLooksLive(c) ==
  /\ HistoryType(c) = LiveType(c)
  /\ [HistoryFields(c) EXCEPT !.duration = 0] = [LiveFields(c) EXCEPT !.duration = 0]
  /\ HistoryFields(c).duration # LiveFields(c).duration => c.seconds = 0
  /\ LiveType(c) # "none" /\ HistoryPreview(c) # LivePreview(c)
       => Has(c, {"extended"}) /\ ~c.words

(* A reply shows of the message it quotes what the chat list showed of it, *)
(* or nothing: nothing for a template of text only and for unknown kinds.  *)
QuoteMatches(c) ==
  \/ QuotedPreview(c) \in {LivePreview(c), HistoryPreview(c)}
  \/ QuotedPreview(c) = "" /\ Has(c, {"templateText", "unknown"})

(* Whatever parts a content mixes, a message shown as media has a file of  *)
(* that kind to download, whether it came in live or with the history.     *)
ShownIsDownloadable(c) ==
  \A type \in {LiveType(c), HistoryType(c)} : type \in MediaTypes => Download(c) = type
=============================================================================
