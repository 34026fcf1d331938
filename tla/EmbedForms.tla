----------------------------- MODULE EmbedForms -----------------------------
(***************************************************************************)
(* The parts of an embed and the embed itself: include/embed.h and its     *)
(* copy in no_cache/, whose definitions end in Nc.  Of each part: the      *)
(* members it shows, those with a setter, its from_json and its to_json.   *)
(***************************************************************************)
EXTENDS Forms

Part(shows, sets, reads, writes) ==
    [shows |-> shows, sets |-> sets, reads |-> reads, writes |-> writes, inPlace |-> FALSE]

\* A part all of whose members have a setter.
Built(reads, writes) == Part(Members(reads), Members(reads), reads, writes)

\* A part that keeps only texts and numbers that may be missing.
Optionals(texts, numbers) ==
    Built(All(MayNull, "text", texts) \o All(MayNull, "number", numbers),
          All(WritesSet, "text", texts) \o All(WritesSet, "number", numbers))

Footer ==
    Built(<<Must("text", "text")>> \o All(MayNull, "text", <<"icon_url", "proxy_icon_url">>),
          <<Writes("text", "text")>> \o All(WritesSet, "text", <<"icon_url", "proxy_icon_url">>))

Image     == Optionals(<<"url", "proxy_url">>, <<"height", "width">>)
Thumbnail == Optionals(<<"url", "proxy_url">>, <<"height", "width">>)
Video     == Optionals(<<"url">>, <<"height", "width">>)
Provider  == Optionals(<<"name", "url">>, <<>>)
Author    == Optionals(<<"name", "url", "icon_url", "proxy_icon_url">>, <<>>)

EmbedField ==
    Built(All(Must, "text", <<"name", "value">>) \o <<MayNull("bool", "inline")>>,
          All(Writes, "text", <<"name", "value">>) \o <<WritesSet("bool", "inline")>>)

\* The objects that an embed holds.
EmbedObjects == <<"footer", "image", "author", "thumbnail", "video", "provider">>
\* Those of which nothing has to be set.
MayBeHollow == Range(EmbedObjects) \ {"footer"}

EmbedShows ==
    {"title", "description", "url", "timestamp", "color", "fields"} \cup Range(EmbedObjects)
EmbedReads ==
    All(MayNull, "text", <<"title", "description", "url">>) \o <<MayNull("number", "color")>>
      \o All(MayNull, "object", EmbedObjects) \o <<IfThere("list", "fields")>>
EmbedWritesOld == \* a mutant: without what was added last
    All(WritesSet, "text", <<"title", "description", "url">>)
      \o All(WritesSet, "object", <<"author", "footer", "provider", "video">>)
      \o <<WritesSet("list", "fields"), WritesSet("number", "color")>>
EmbedWrites ==
    All(WritesSet, "text", <<"title", "description", "url">>)
      \o All(WritesSet, "object", <<"author", "footer", "provider", "video">>)
      \o <<WritesSet("list", "fields"), WritesSet("number", "color")>>
      \o All(WritesSet, "object", <<"image", "thumbnail">>)

\* There is no set_thumbnail.
Embed == Part(EmbedShows, EmbedShows \ {"thumbnail"}, EmbedReads, EmbedWrites)

-----------------------------------------------------------------------------
\* The cacheless library's: the same keys, read and written in the same order.
FooterNc      == Footer
ImageNc       == Optionals(<<"url", "proxy_url">>, <<"height", "width">>)
ThumbnailNc   == Optionals(<<"url", "proxy_url">>, <<"height", "width">>)
VideoNc       == Optionals(<<"url">>, <<"height", "width">>)
ProviderNc    == Optionals(<<"name", "url">>, <<>>)
AuthorNc      == Optionals(<<"name", "url", "icon_url", "proxy_icon_url">>, <<>>)
EmbedFieldNc  == EmbedField
EmbedReadsNc  == EmbedReads
EmbedWritesNc == EmbedWrites

\* Here the thumbnail has a setter.
EmbedNc == Part(EmbedShows, EmbedShows, EmbedReadsNc, EmbedWritesNc)

=============================================================================
