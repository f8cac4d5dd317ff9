---------------------------------- MODULE Calls ----------------------------------
(***************************************************************************)
(* A call of a page: its arguments are decoded, the handler runs - it asks *)
(* the daemon, reads and writes kv.db, sends events - and its answer is    *)
(* checked.  A call that raises on the way is never answered: the page's   *)
(* callback does not run, and a page that waits for it (for the draft to   *)
(* be saved, for the next page of messages) waits until it is closed.      *)
(***************************************************************************)
EXTENDS Contracts

Daemon == INSTANCE DaemonContracts

-----------------------------------------------------------------------------
(* Requests: the types of the fields, and how many have no default.        *)

Request(types, least) == [types |-> types, least |-> least]
One(type) == Request(<<type>>, 1)

QueryRequests ==
  [ChatIdRequest |-> One("str"), JidRequest |-> One("str"), PairPhoneRequest |-> One("str"),
   SetNotificationsSuppressedRequest |-> One("bool"), SetErrorReportingRequest |-> One("bool"),
   SetStopDaemonOnExitRequest |-> One("bool"), SendPresenceRequest |-> One("bool"),
   GetChatListRequest |-> Request(<<"bool">>, 0),
   PrioritizeChatAvatarsRequest |-> Request(<<"strs">>, 0),
   GetMessagesRequest |-> Request(<<"str", "str", "int">>, 1),
   GetMessageReactionsRequest |-> Request(<<"str", "str">>, 2),
   SetChatDraftRequest |-> Request(<<"str", "str", "spans">>, 2),
   StartChatByPhoneRequest |-> One("str"), StartChatFromContactRequest |-> One("str")]

MessageRequests ==
  LET file == Request(<<"str", "str", "str", "str", "context">>, 2) IN
  [DeleteMessageRequest |-> Request(<<"str", "str">>, 2),
   EditTextMessageRequest |-> Request(<<"str", "str", "str">>, 3),
   DownloadMediaRequest |-> Request(<<"str", "str", "str">>, 3),
   SendTextMessageRequest |-> Request(<<"str", "str", "str", "context", "spans">>, 2),
   SendMessageReactionRequest |-> Request(<<"str", "str", "str">>, 3),
   SendImageMessageRequest |-> file, SendVideoMessageRequest |-> file,
   SendAudioMessageRequest |-> Request(<<"str", "str", "int", "str", "context">>, 2),
   SendDocumentMessageRequest |-> file,
   SendStickerMessageRequest |-> Request(<<"str", "str", "str", "context">>, 2),
   SendContactMessageRequest |-> Request(<<"str", "str", "str", "context">>, 2),
   SendLocationMessageRequest |-> Request(<<"str", "float", "float", "str", "context">>, 3)]

Requests == QueryRequests @@ MessageRequests @@ [NoRequest |-> Request(<<>>, 0)]

(* API_CONTRACTS: what a call is decoded to, and the contract of its answer.*)
Contract(request, reply) == [request |-> request, reply |-> reply]
Asks(request) == Contract(request, "SuccessResponse")
Plain(reply) == Contract("NoRequest", reply)

ApiContracts ==
  [check_daemon_status |-> Plain("DaemonStatusResponse"),
   check_daemon_version |-> Plain("EnsureDaemonVersionResponse"),
   clear_data |-> Plain("ClearDataResponse"),
   delete_message |-> Asks("DeleteMessageRequest"),
   download_media |-> Contract("DownloadMediaRequest", "DownloadMediaResponse"),
   edit_text_message |-> Asks("EditTextMessageRequest"),
   get_cached_stickers |-> Plain("CachedStickersResponse"),
   get_chat_draft |-> Contract("ChatIdRequest", "ChatDraftResponse"),
   get_chat_info |-> Contract("ChatIdRequest", "ChatInfoResponse"),
   get_chat_list |-> Contract("GetChatListRequest", "ChatListResponse"),
   get_contact_list |-> Plain("ContactListResponse"),
   get_group_mention_candidates |-> Contract("ChatIdRequest", "GroupMentionCandidatesResponse"),
   get_message_reactions |-> Contract("GetMessageReactionsRequest", "MessageReactionsResponse"),
   get_messages |-> Contract("GetMessagesRequest", "MessagesResponse"),
   get_phone_number |-> Contract("JidRequest", "PhoneNumberResponse"),
   get_session_status |-> Plain("SessionStatusResponse"), get_settings |-> Plain("SettingsResponse"),
   get_sync_status |-> Plain("bool"), install_daemon |-> Plain("SuccessResponse"),
   mark_messages_as_read |-> Asks("ChatIdRequest"),
   pair_phone |-> Contract("PairPhoneRequest", "PairPhoneResponse"),
   ping_daemon |-> Plain("SuccessResponse"),
   prioritize_chat_avatars |-> Contract("PrioritizeChatAvatarsRequest", "none"),
   run_storage_migrations |-> Plain("none"),
   send_audio_message |-> Asks("SendAudioMessageRequest"),
   send_contact_message |-> Asks("SendContactMessageRequest"),
   send_document_message |-> Asks("SendDocumentMessageRequest"),
   send_image_message |-> Asks("SendImageMessageRequest"),
   send_location_message |-> Asks("SendLocationMessageRequest"),
   send_message_reaction |-> Asks("SendMessageReactionRequest"),
   handle_application_exit |-> Plain("none"),
   send_presence |-> Contract("SendPresenceRequest", "none"),
   send_sticker_message |-> Asks("SendStickerMessageRequest"),
   send_text_message |-> Asks("SendTextMessageRequest"),
   send_video_message |-> Asks("SendVideoMessageRequest"),
   set_chat_draft |-> Asks("SetChatDraftRequest"),
   start_chat_by_phone |-> Contract("StartChatByPhoneRequest", "StartChatByPhoneResponse"),
   start_chat_from_contact |-> Contract("StartChatFromContactRequest", "StartChatByPhoneResponse"),
   set_notifications_suppressed |-> Asks("SetNotificationsSuppressedRequest"),
   set_error_reporting |-> Asks("SetErrorReportingRequest"),
   set_stop_daemon_on_exit |-> Asks("SetStopDaemonOnExitRequest"),
   start_event_loop |-> Plain("none"), subscribe_presence |-> Contract("ChatIdRequest", "none"),
   toggle_archive |-> Asks("ChatIdRequest"), toggle_mute |-> Asks("ChatIdRequest"),
   uninstall_daemon |-> Plain("SuccessResponse")]

-----------------------------------------------------------------------------
(* Decoding.  JavaScript has one type of numbers: a "whole" one reaches    *)
(* Python as an int, or as a float without a fraction.                     *)

(* _normalize_qml_request_value: a float without a fraction is an int      *)
(* where one is expected, in the objects of a list too.                    *)
Normal(type, value) ==
  CASE type = "int" /\ value = "whole" -> "int"
    [] type = "spans" /\ value = "whole spans" -> "spans"
    [] OTHER -> value

(* dacite, strict: an int will do for a float, None for a context.         *)
Accepted(type, value) ==
  \/ value = type
  \/ type = "float" /\ value \in {"int", "whole"}
  \/ type = "context" /\ value = "null"

(* request_arg_bounds *)
Arity(request) == request.least .. Len(request.types)

(* decode_qml_request *)
Understands(call, args) ==
  LET request == Requests[ApiContracts[call].request] IN
  /\ Len(args) \in Arity(request)
  /\ \A i \in DOMAIN args : Accepted(request.types[i], Normal(request.types[i], args[i]))

-----------------------------------------------------------------------------
(* What the pages pass.                                                    *)

Strings(n) == {[i \in 1 .. n |-> "str"]}
Contexts == {"null", "context"}
Spans == {"spans", "whole spans"}
Number == {"int", "whole"}
Real == Number \cup {"float"}

ListPageArgs ==
  [get_chat_list |-> {<<"bool">>}, prioritize_chat_avatars |-> {<<"strs">>},
   toggle_archive |-> Strings(1), toggle_mute |-> Strings(1), start_chat_by_phone |-> Strings(1),
   start_chat_from_contact |-> Strings(1), get_sync_status |-> {<<>>}, send_presence |-> {<<"bool">>}]

ChatPageArgs ==
  LET send(types) == {Append(types, c) : c \in Contexts} IN
  [get_chat_draft |-> Strings(1), get_chat_info |-> Strings(1),
   get_group_mention_candidates |-> Strings(1), mark_messages_as_read |-> Strings(1),
   subscribe_presence |-> Strings(1), get_phone_number |-> Strings(1),
   get_messages |-> {<<"str", "str", n>> : n \in Number},
   get_message_reactions |-> Strings(2), delete_message |-> Strings(2),
   edit_text_message |-> Strings(3), download_media |-> Strings(3),
   send_message_reaction |-> Strings(3), get_cached_stickers |-> {<<>>},
   set_chat_draft |-> {<<"str", "str", s>> : s \in Spans},
   send_text_message |-> {<<"str", "str", "str", c, s>> : c \in Contexts, s \in Spans},
   send_image_message |-> send(<<"str", "str", "str", "str">>),
   send_video_message |-> send(<<"str", "str", "str", "str">>),
   send_document_message |-> send(<<"str", "str", "str", "str">>),
   send_audio_message |-> UNION {send(<<"str", "str", n, "str">>) : n \in Number},
   send_sticker_message |-> send(<<"str", "str", "str">>),
   send_contact_message |-> send(<<"str", "str", "str">>),
   send_location_message |->
     UNION {send(<<"str", lat, long, "str">>) : lat \in Real, long \in Real}]

OtherPageArgs ==
  [pair_phone |-> Strings(1), get_session_status |-> {<<>>}, get_settings |-> {<<>>},
   set_notifications_suppressed |-> {<<"bool">>}, set_error_reporting |-> {<<"bool">>}]

PageArgs == ListPageArgs @@ ChatPageArgs @@ OtherPageArgs

-----------------------------------------------------------------------------
(* Handlers: the class they answer, the methods of the daemon they call,   *)
(* the events they send, and what becomes of the call when the daemon      *)
(* refuses, when its reply cannot be decoded, when kv.db fails and when    *)
(* the picked file cannot be read: it "raises", or it is "caught" and      *)
(* answered.                                                               *)

Handler(answers) ==
  [answers |-> answers, methods |-> {}, emits |-> {}, reads |-> FALSE,
   refused |-> "caught", invalid |-> "caught", store |-> "raises", file |-> "caught"]

Catches(handler) == [handler EXCEPT !.store = "caught"]
Checks(handler) == [handler EXCEPT !.store = "caught", !.invalid = "raises"]
Rpc(handler, methods) == [handler EXCEPT !.methods = methods]
Emits(handler, events) == [handler EXCEPT !.emits = events]

(* These read message records, and raise on one they cannot read.          *)
Reads(handler) == [handler EXCEPT !.reads = TRUE]

ChatListCalls ==
  [get_contact_list |-> Rpc(Checks(Handler("ContactListResponse")), {"GetContacts"}),
   get_chat_list |-> Checks(Handler("ChatListResponse")),
   prioritize_chat_avatars |-> Rpc(Catches(Handler("none")), {"EnsureJID", "PrioritizeAvatars"})]

StartChatCalls ==
  LET start == Rpc(Checks(Handler("StartChatByPhoneResponse")), {"EnsureJID"}) IN
  [start_chat_by_phone |-> start, start_chat_from_contact |-> start]

ChatInfoCalls ==
  [get_chat_info |-> Handler("ChatInfoResponse"),
   get_group_mention_candidates |->
     Rpc(Checks(Handler("GroupMentionCandidatesResponse")), {"GetGroupParticipants"})]

Drafts ==
  [get_chat_draft |-> Handler("ChatDraftResponse"),
   set_chat_draft |-> Emits(Handler("SuccessResponse"), {"chat_draft_update"})]

Toggles ==
  LET toggle == Emits(Handler("SuccessResponse"), {"chat_list_update"}) IN
  [toggle_archive |-> toggle, toggle_mute |-> toggle]

ReadMessages ==
  [get_messages |-> Reads(Handler("MessagesResponse")),
   get_message_reactions |-> Handler("MessageReactionsResponse"),
   mark_messages_as_read |->
     Reads(Emits(Rpc(Handler("SuccessResponse"),
                     {"MarkRead", "ClearChatNotifications", "SetNotificationCounter"}),
                 {"chat_list_update"}))]

ChangeMessages ==
  LET change(method) ==
        Reads(Emits(Rpc(Handler("SuccessResponse"), {method}),
                    {"message_upsert", "chat_list_update"})) IN
  [edit_text_message |-> change("EditMessage"), delete_message |-> change("DeleteMessage"),
   send_message_reaction |->
     Reads(Emits(Rpc(Handler("SuccessResponse"), {"SendReaction"}),
                 {"message_upsert", "message_reaction_update"}))]

(* The message is stored and an attempt to send it scheduled; what the     *)
(* attempt meets is no longer the call's.                                  *)
Send == Emits(Handler("SuccessResponse"), {"message_upsert", "chat_list_update"})

Cached(send) == [send EXCEPT !.file = "raises"]

SendPlain == [send_text_message |-> Send, send_location_message |-> Send]

SendPicture == [send_image_message |-> Cached(Send), send_video_message |-> Cached(Send)]

(* What cannot be moved or copied is sent to the page as a failed message. *)
SendRecording == [send_audio_message |-> Send, send_document_message |-> Send]

SendCard == [send_sticker_message |-> Cached(Send), send_contact_message |-> Cached(Send)]

Media ==
  [get_cached_stickers |-> Handler("CachedStickersResponse"),
   download_media |->
     Reads(Emits(Rpc(Handler("DownloadMediaResponse"), {"DownloadMedia"}), {"message_upsert"}))]

SessionCalls ==
  [get_sync_status |-> Rpc(Checks(Handler("bool")), {"ListEvents"}),
   get_session_status |-> Rpc(Checks(Handler("SessionStatusResponse")), {"GetSessionStatus"}),
   pair_phone |-> Rpc(Checks(Handler("PairPhoneResponse")), {"PairPhone"}),
   ping_daemon |-> Rpc(Catches(Handler("SuccessResponse")), {"Ping"})]

Settings ==
  [get_settings |-> Checks(Handler("SettingsResponse")),
   set_notifications_suppressed |-> Catches(Handler("SuccessResponse")),
   set_error_reporting |-> Catches(Handler("SuccessResponse")),
   set_stop_daemon_on_exit |-> Catches(Handler("SuccessResponse"))]

ContactCalls ==
  [get_phone_number |-> Rpc(Catches(Handler("PhoneNumberResponse")), {"EnsureJID"}),
   send_presence |-> Rpc(Catches(Handler("none")), {"SendPresence"}),
   subscribe_presence |-> Rpc(Catches(Handler("none")), {"SubscribePresence"})]

(* The calls that Service and StorageMigrations take step by step.         *)
Lifecycle ==
  [check_daemon_status |-> Handler("DaemonStatusResponse"),
   check_daemon_version |-> Handler("EnsureDaemonVersionResponse"),
   clear_data |-> Handler("ClearDataResponse"),
   install_daemon |-> Catches(Handler("SuccessResponse")),
   uninstall_daemon |-> Catches(Handler("SuccessResponse")),
   run_storage_migrations |-> Handler("none"), start_event_loop |-> Handler("none"),
   handle_application_exit |-> Catches(Handler("none"))]

Handlers ==
  ChatListCalls @@ StartChatCalls @@ ChatInfoCalls @@ Drafts @@ Toggles @@ ReadMessages @@ ChangeMessages
  @@ SendPlain @@ SendPicture @@ SendRecording @@ SendCard @@ Media @@ SessionCalls @@ Settings
  @@ ContactCalls @@ Lifecycle

(* The objects an event carries.                                           *)
Payloads ==
  [chat_list_update |-> "ChatListItem", message_upsert |-> "UiMessage",
   message_reaction_update |-> "MessageReactionUpdate", chat_draft_update |-> "ChatDraft"]

-----------------------------------------------------------------------------
(* What a call meets: the daemon "answers", or answers with a list that is *)
(* "null", or "refuses" (it is not there, it is not logged in, it fails);  *)
(* kv.db fails, or the file cannot be read.  A quoted message is read.     *)

Daemons == {"answers", "null", "refuses"}
Faults == {"none", "store", "file"}

Raises(call, args, daemon, fault, readable) ==
  LET h == Handlers[call] IN
  \/ fault # "none" /\ h[fault] = "raises"
  \/ ~readable /\ (h.reads \/ \E i \in DOMAIN args : args[i] = "context")
  \/ daemon = "refuses" /\ h.methods # {} /\ h.refused = "raises"
  \/ \E m \in h.methods : ~Daemon!Decodes(m, daemon = "null") /\ h.invalid = "raises"
  \/ \E e \in h.emits : ~EventFits(e, Payloads[e])

(* validate_qml_response, of an answer that says success or not.           *)
Fits(call, success) ==
  LET class == Handlers[call].answers IN
  IF class \in {"none", "bool"} THEN class = ApiContracts[call].reply
  ELSE ReplyFits(class, ApiContracts[call].reply, success)

(* qml_api: what the page gets.                                            *)
Outcome(call, args, daemon, fault, readable, success) ==
  IF ~Understands(call, args) THEN "turned away"
  ELSE IF \E m \in Handlers[call].methods : ~Daemon!Understood(m) THEN "misunderstood"
  ELSE IF Raises(call, args, daemon, fault, readable) \/ ~Fits(call, success) THEN "raised"
  ELSE "answered"
=============================================================================
