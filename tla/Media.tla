-------------------------------- MODULE Media --------------------------------
(***************************************************************************)
(* The media block that offers and content share: dto/shared.go on the     *)
(* wire, internal/mapping/mapping.go, and media/media.go.                  *)
(*                                                                         *)
(* A text is a word or "", its length a number of the model.  A Go pointer *)
(* is a set of at most one element.  Fields that are copied as they are,   *)
(* and that no other is read with, are one field "copied".                 *)
(***************************************************************************)
EXTENDS Lists, SequencesExt

CONSTANTS
    Words,     \* texts and codes other than ""
    Numbers    \* widths, areas, quantities; 0 when there is none

ASSUME NumbersAssumption == Numbers \subseteq Nat /\ 0 \in Numbers

Text == Words \union {""}

Optional(S) == {block \in SUBSET S : \A x, y \in block : x = y}

-----------------------------------------------------------------------------
(* The wire. *)

QualifiedFreeTextResponse == [text : Text, type : Text]

DimensionsResponse == [area : Numbers, width : Numbers, height : Numbers, length : Numbers]

MediaScaleResponse == [href : Text, dimensions : Optional(DimensionsResponse)]

MediaMetaDataResponse ==
    [copied : Text, source : Optional(Text), clickToAction : Optional(Text)]

MediaResponse ==
    [copied : Text, href : Text, type : Text, mediaType : Text, tags : Seq(Text),
     description : Optional(QualifiedFreeTextResponse), scales : Seq(MediaScaleResponse),
     metadata : Optional(MediaMetaDataResponse)]

-----------------------------------------------------------------------------
(* Mapping. *)

\* mapping.QualifiedText, of a block that is there.
QualifiedText(t) == IF t.text = "" THEN {} ELSE {[value |-> t.text, type |-> t.type]}

NoDimensions == [area |-> 0, width |-> 0, height |-> 0, length |-> 0]

\* Measurements that came as a plain struct: all zero is none.
measured(d) == IF d = NoDimensions THEN {} ELSE {d}

\* The first of the two types that is one of the three, else whether there is an image.
mediaKind(m) ==
    LET stated == SelectSeq(<<m.type, m.mediaType>>, LAMBDA t : t \in {"IMAGE", "ICON", "FILE"})
    IN  IF stated # <<>> THEN Head(stated)
        ELSE IF m.href # "" \/ m.scales # <<>> THEN "IMAGE" ELSE ""

MediaAsset(m) ==
    [copied |-> m.copied, kind |-> mediaKind(m), url |-> m.href, tags |-> m.tags,
     description |-> UNION {QualifiedText(t) : t \in m.description},
     scales |-> [i \in DOMAIN m.scales |-> [url |-> m.scales[i].href,
                                            dimensions |-> m.scales[i].dimensions]],
     metadata |-> m.metadata]

MediaAssets(wire) == [i \in DOMAIN wire |-> MediaAsset(wire[i])]

-----------------------------------------------------------------------------
(* media.Asset. *)

\* As if only the original counted.
IsVisual_OriginalOnly(asset) == asset.url # ""

IsVisual(asset) == asset.url # "" \/ \E i \in DOMAIN asset.scales : asset.scales[i].url # ""

\* The widest rendition of those no wider than wanted, failing one the narrowest,
\* failing any the original.  The first of two of one width wins.
Best(asset, targetWidth) ==
    LET WidthOf(s) == CHOOSE w \in {d.width : d \in s.dimensions} : TRUE
        sized     == Kept(asset.scales, {s \in ToSet(asset.scales) :
                                            s.url # "" /\ \E d \in s.dimensions : d.width > 0})
        fitting   == Kept(sized, {s \in ToSet(sized) : WidthOf(s) <= targetWidth})
        widest    == Kept(fitting, {s \in ToSet(fitting) :
                                       \A other \in ToSet(fitting) : WidthOf(other) <= WidthOf(s)})
        narrowest == Kept(sized, {s \in ToSet(sized) :
                                     \A other \in ToSet(sized) : WidthOf(s) <= WidthOf(other)})
    IN  IF fitting # <<>> THEN Head(widest).url
        ELSE IF sized # <<>> THEN Head(narrowest).url
        ELSE asset.url
=============================================================================
