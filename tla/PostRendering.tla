----------------------------- MODULE PostRendering -----------------------------
(***************************************************************************)
(* How processTweets() of src/src/index.ts makes the record of one tweet:  *)
(* links, media, the quoted post, cards, polls, the rewriting by a model   *)
(* and the posting policy.  Most of it asks somebody who may not answer.   *)
(*                                                                         *)
(* A text is the length of its body and the links in it, each of which     *)
(* counts for one.  Nothing is kept between two attempts: a delivery that  *)
(* is given up makes the record anew.                                      *)
(***************************************************************************)
EXTENDS Integers, FiniteSets

CONSTANTS MaxPhotos, MaxVideos,
          ImageSlots,   \* images one record holds
          PostLimit,    \* length of a post
          MaxBody       \* bound on the length of a body

ASSUME RenderingAssumption ==
  /\ {MaxPhotos, MaxVideos, ImageSlots, PostLimit, MaxBody} \subseteq Nat
  /\ MaxPhotos <= ImageSlots /\ MaxVideos <= ImageSlots

VARIABLES tweet,     \* what is rendered
          step,
          text,
          seen,      \* the card of the tweet as far as it is known here
          untried,   \* media that were not tried yet
          images, video, quoting, card,   \* what the record can carry
          reworded   \* history: a model has rewritten the text

renderVars == <<tweet, step, text, seen, untried, images, video, quoting, card, reworded>>
--------------------------------------------------------------------------------
\* link: a page elsewhere.  quote: the quoted post.  media: the links X gives its media.
\* video, status: the tweet itself, as a substitute for its video, for its poll or as
\* its origin.  card: what a sponsored card leads to.
Links == {"link", "quote", "media", "video", "status", "card"}
Texts == [body : 0 .. MaxBody + 1, links : SUBSET Links]
Stages == {"links", "cards", "media", "clean", "quote", "screenshot", "link", "fetch", "append", "poll",
           "rewrite", "policy", "done", "abandoned"}

Posted == {t \in [body : 0 .. MaxBody, links : SUBSET {"link", "quote"}, photos : 0 .. MaxPhotos, videos : 0 .. MaxVideos,
                  quote : {"none", "mirrored", "described", "bare"}, card : {"none", "poll", "sponsored"}, repost : BOOLEAN] :
            t.quote = "none" => "quote" \notin t.links}

RenderTypeOK ==
  /\ tweet \in Posted
  /\ step \in Stages /\ text \in Texts /\ seen \in {"none", "poll", "sponsored"}
  /\ untried \in [photos : 0 .. ImageSlots, videos : 0 .. MaxVideos]
  /\ images \in 0 .. ImageSlots /\ video \in BOOLEAN
  /\ quoting \in {"none", "embed", "screenshot"} /\ card \in {"none", "quote", "link", "poll"}
  /\ reworded \in BOOLEAN

HasMedia(t) == t.photos + t.videos > 0

RenderInit ==
  /\ tweet \in Posted
  /\ step = "links"
  /\ text = [body |-> tweet.body, links |-> tweet.links \cup IF HasMedia(tweet) THEN {"media"} ELSE {}]
  /\ seen = "none" /\ untried = [photos |-> 0, videos |-> 0]
  /\ images = 0 /\ video = FALSE /\ quoting = "none" /\ card = "none" /\ reworded = FALSE

Length(x) == x.body + Cardinality(x.links)
With(kinds) == [text EXCEPT !.links = @ \cup kinds]
Without(kinds) == [text EXCEPT !.links = @ \ kinds]

Goes(next) == step' = next /\ UNCHANGED tweet

\* assertDeliveryActive(): the delivery has lost its lease or its time.
GiveUp == step \notin {"done", "abandoned"} /\ Goes("abandoned")
           /\ UNCHANGED <<text, seen, untried, images, video, quoting, card, reworded>>
--------------------------------------------------------------------------------
(***************************************************************************)
(* Links and media.                                                        *)
(***************************************************************************)
\* A link that cannot be resolved stays as X shortened it, which is as good.
ExpandLinks ==
  /\ step = "links" /\ Goes("cards")
  /\ UNCHANGED <<text, seen, untried, images, video, quoting, card, reworded>>

\* mergeMediaEntities(): the images of a sponsored card, or those the syndication service
\* lists, as far as there is room.
Merged(t, extra) ==
  LET room == ImageSlots - t.videos IN
  [videos |-> t.videos, photos |-> IF t.photos + extra > room THEN room ELSE t.photos + extra]

\* recoverCardData(): the card is with the tweet, or the syndication service has it, or
\* nobody has.
RecoverCard ==
  /\ step = "cards" /\ Goes("media")
  /\ seen' \in {"none", tweet.card}
  /\ untried' \in {[photos |-> tweet.photos, videos |-> tweet.videos], Merged(tweet, 1)}
  /\ UNCHANGED <<text, images, video, quoting, card, reworded>>

\* orderMediaForUpload(): the first video that is there to be had wins, and nothing
\* after it is tried.
EmbedVideo ==
  /\ step = "media" /\ untried.videos > 0
  /\ video' = TRUE /\ Goes("clean") /\ untried' = [photos |-> 0, videos |-> 0]
  /\ UNCHANGED <<text, seen, images, quoting, card, reworded>>

\* Too long, over the limits of the account, not to be downloaded, not accepted.
LinkVideo ==
  /\ step = "media" /\ untried.videos > 0
  /\ untried' = [untried EXCEPT !.videos = @ - 1] /\ text' = With({"video"})
  /\ Goes("media") /\ UNCHANGED <<seen, images, video, quoting, card, reworded>>

\* In two qualities; a photo that fails in both is left out.
TryPhoto ==
  /\ step = "media" /\ untried.videos = 0 /\ untried.photos > 0
  /\ untried' = [untried EXCEPT !.photos = @ - 1] /\ images' \in {images, images + 1}
  /\ Goes("media") /\ UNCHANGED <<text, seen, video, quoting, card, reworded>>

EndMedia ==
  /\ step = "media" /\ untried = [photos |-> 0, videos |-> 0]
  /\ Goes("clean") /\ UNCHANGED <<text, seen, untried, images, video, quoting, card, reworded>>

CleanText ==
  /\ step = "clean" /\ text' = Without({"media"})
  /\ Goes(IF tweet.quote # "none" THEN "quote"
          ELSE IF (images = 0 /\ ~video) \/ seen = "sponsored" THEN "link" ELSE "append")
  /\ UNCHANGED <<seen, untried, images, video, quoting, card, reworded>>
--------------------------------------------------------------------------------
(***************************************************************************)
(* The quoted post: the record that mirrors it, a card, a picture, a link. *)
(***************************************************************************)
\* Mutation: a card is made whatever else the record carries.
MayCarryACard == TRUE

\* canUseExternalCard and canUseScreenshot.
CanUseCard == images = 0 /\ ~video
CanUseScreenshot == images < ImageSlots /\ ~video

\* resolveQuoteStrongRef(): in the history of this destination or of another.
EmbedQuote ==
  /\ step = "quote" /\ tweet.quote = "mirrored"
  /\ quoting' = "embed" /\ Goes("append")
  /\ UNCHANGED <<text, seen, untried, images, video, card, reworded>>

QuoteByCard ==
  /\ step = "quote" /\ tweet.quote \in {"described", "bare"} /\ CanUseCard
  /\ card' = "quote" /\ text' = Without({"quote"}) /\ Goes("append")
  /\ UNCHANGED <<seen, untried, images, video, quoting, reworded>>

\* Only what the scraper described is certain to make a card.
QuoteWithoutCard ==
  /\ step = "quote" /\ tweet.quote \in {"described", "bare"}
  /\ ~CanUseCard \/ tweet.quote = "bare"
  /\ Goes(IF CanUseScreenshot THEN "screenshot" ELSE "append")
  /\ UNCHANGED <<text, seen, untried, images, video, quoting, card, reworded>>

TakeScreenshot ==
  /\ step = "screenshot" /\ Goes("append")
  /\ \/ images' = images + 1 /\ quoting' = "screenshot"
     \/ UNCHANGED <<images, quoting>>
  /\ UNCHANGED <<text, seen, untried, video, card, reworded>>
--------------------------------------------------------------------------------
(***************************************************************************)
(* The card of a link, and what is appended.                               *)
(***************************************************************************)
LinkToEmbed == IF seen = "sponsored" THEN "card" ELSE "link"
IsKnownLink == seen = "sponsored" \/ "link" \in tweet.links

\* shouldDropCardLinkFromText().
IsDropped(kind) ==
  kind \in text.links /\ Length(text) > PostLimit /\ Length(text) - 1 <= PostLimit

DropLink ==
  /\ step = "link"
  /\ IF IsKnownLink
     THEN /\ Goes("fetch")
          /\ text' = IF IsDropped(LinkToEmbed) THEN Without({LinkToEmbed}) ELSE text
     ELSE Goes("append") /\ UNCHANGED text
  /\ UNCHANGED <<seen, untried, images, video, quoting, card, reworded>>

\* fetchEmbedUrlCard(): a page that does not answer, or has neither title nor
\* description, has no card.
FetchCard ==
  /\ step = "fetch" /\ Goes("append") /\ card' \in {card, "link"}
  /\ UNCHANGED <<text, seen, untried, images, video, quoting, reworded>>

\* No embed refers to the quoted post.
IsUnquoted == tweet.quote \in {"described", "bare"} /\ card = "none" /\ quoting # "screenshot"

AppendLinks ==
  /\ step = "append" /\ Goes("poll")
  /\ \E hasImages \in BOOLEAN :
       text' = With((IF IsUnquoted THEN {"quote"} ELSE {})
                    \cup IF seen = "sponsored" /\ hasImages THEN {"card"} ELSE {})
  /\ UNCHANGED <<seen, untried, images, video, quoting, card, reworded>>

\* buildPollNote().
AppendPoll ==
  /\ step = "poll" /\ Goes("rewrite")
  /\ IF seen = "poll"
     THEN /\ text' = With({"status"})
          /\ card' \in IF quoting # "embed" /\ CanUseCard /\ card = "none" THEN {card, "poll"} ELSE {card}
     ELSE UNCHANGED <<text, card>>
  /\ UNCHANGED <<seen, untried, images, video, quoting, reworded>>

\* applyTextCapabilities(): a text from a model is taken as it is, and a model that
\* fails changes nothing.
Rewrite ==
  /\ step = "rewrite" /\ Goes("policy")
  /\ \/ UNCHANGED <<text, reworded>>
     \/ /\ reworded' = TRUE
        /\ \E kept \in SUBSET text.links, body \in 0 .. MaxBody : text' = [body |-> body, links |-> kept]
  /\ UNCHANGED <<seen, untried, images, video, quoting, card>>

\* applyPostingPolicy(): the destination may want an attribution and a link to the
\* status; a repost has the link in any case.
ApplyPolicy ==
  /\ step = "policy" /\ Goes("done")
  /\ \E attributes, appends \in BOOLEAN :
       text' = [body |-> text.body + IF attributes THEN 1 ELSE 0,
                links |-> text.links \cup IF appends \/ tweet.repost THEN {"status"} ELSE {}]
  /\ UNCHANGED <<seen, untried, images, video, quoting, card, reworded>>

RenderNext ==
  \/ GiveUp \/ ExpandLinks \/ RecoverCard \/ EmbedVideo \/ LinkVideo \/ TryPhoto \/ EndMedia \/ CleanText
  \/ EmbedQuote \/ QuoteByCard \/ QuoteWithoutCard \/ TakeScreenshot
  \/ DropLink \/ FetchCard \/ AppendLinks \/ AppendPoll \/ Rewrite \/ ApplyPolicy

RenderSpec == RenderInit /\ [][RenderNext]_renderVars
--------------------------------------------------------------------------------
(***************************************************************************)
(* Properties.                                                             *)
(***************************************************************************)
\* The embed of the first chunk: media before a card, and a quoted record beside both.
Embed == IF video THEN "video" ELSE IF images > 0 THEN "images"
         ELSE IF quoting = "embed" THEN "quote" ELSE card

QuoteIsShown == quoting = "embed" \/ (quoting = "screenshot" /\ ~video) \/ (card = "quote" /\ Embed = "quote")
                \/ "quote" \in text.links
VideoIsShown == video \/ "video" \in text.links
OriginIsShown == "status" \in text.links

\* Whatever could be fetched, uploaded or drawn, a reader of the post gets to the quoted
\* post, to the video and from a repost to its origin, unless a model rewrote the links.
NothingIsCutOff ==
  step = "done" =>
    /\ tweet.repost => OriginIsShown
    /\ ~reworded => (tweet.quote # "none" => QuoteIsShown) /\ (tweet.videos > 0 => VideoIsShown)
================================================================================
