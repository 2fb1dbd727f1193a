----------------------------- MODULE PlaybackPlan -----------------------------
(***************************************************************************)
(* How a player's request to watch a title becomes bytes.  The player      *)
(* reports what it can decode and display; the server probes the title and *)
(* answers a plan: which tracks are copied, which are converted, which     *)
(* dynamic range the picture keeps, and a URL that carries the decision in *)
(* its query.  Later the player opens that URL, and a handler which knows  *)
(* neither the plan nor the player rebuilds the decision from the query    *)
(* and from what the server's FFmpeg can do at that moment.                *)
(*                                                                         *)
(* A codec, a container and a dynamic range are names; a resolution is a   *)
(* class (1 below 1080p, 2 is 1080p, 3 is 4K, 0 unknown), a level and a    *)
(* profile of a decoder one number.  The formats a decoder and the display *)
(* list are one set, since the code only asks for both.  The empty string  *)
(* of the code, of whatever is unknown or left out, is "none".             *)
(***************************************************************************)
EXTENDS Integers, Sequences

CONSTANTS
    Devices,    \* the capabilities players may report
    Media,      \* the titles, as the probe describes them
    Servers,    \* settings and abilities of the server
    Gone        \* no report, no plan, nothing served

VARIABLES
    title,      \* what the player wants to see
    reported,   \* taterPlaybackCapabilityProfiles of this player, or Gone
    aged,       \* the report is older than 24 hours
    server,     \* the settings in force
    plan,       \* the last plan the player was given, or Gone
    served      \* what the handler made of the plan's URL, or Gone

planVars == <<title, reported, aged, server, plan, served>>

IsHDR(range) == range \notin {"none", "sdr"}

-------------------------------------------------------------------------------
(* What a player can use.                                                    *)

NativeTV(c) == c.platform = "android_tv" \/ (c.platform = "tvos" /\ c.container = "hls")

CanUseHDRHEVC(c) == NativeTV(c) /\ "hevc" \in c.codecs /\ c.hdr /\ c.depth >= 10

(* A v7 Android player lists its decoders; a limit of 0 is no limit.         *)
Within(value, limit) == value = 0 \/ limit = 0 \/ value <= limit

AndroidDecoderSupports(c, m) ==
    \/ c.version < 7 \/ c.platform # "android_tv" \/ c.decoders = <<>> \/ m.codec = "none"
    \/ \E i \in DOMAIN c.decoders :
           LET d == c.decoders[i]
           IN d.codec = m.codec /\ Within(m.level, d.level) /\ Within(m.depth, d.depth) /\ Within(m.size, d.size)

Upscaled(c, m, s) ==
    s.upscale /\ c.platform \in {"tvos", "android_tv"} /\ m.size > 0 /\ c.profile > m.size

PictureFits(c, m, s) ==
    /\ m.codec = "none" \/ m.codec \in c.codecs
    /\ AndroidDecoderSupports(c, m)
    /\ Within(m.size, c.size)
    /\ ~Upscaled(c, m, s)

(* The handler switches the enhancement off when the filter does not probe.  *)
Enhanced(c, m, s) ==
    s.enhance /\ s.placebo /\ m.range = "sdr" /\ CanUseHDRHEVC(c) /\ "hdr10" \in c.ranges

CanOutputRange(c, m) ==
    \/ ~IsHDR(m.range)
    \/ /\ c.hdr /\ m.range \in c.ranges
       /\ \/ m.range # "dolby_vision"
          \/ /\ c.platform = "tvos" /\ c.version >= 5 => m.dv > 0
             /\ m.dv = 0 \/ c.dolby = {} \/ m.dv \in c.dolby

(* The single-layer profile 8 carries a picture other displays can use.      *)
CompatibleBase(c, m) ==
    IF m.dv = 8 /\ m.compat = 1 /\ "hdr10" \in c.ranges THEN "hdr10"
    ELSE IF m.dv = 8 /\ m.compat = 4 /\ "hlg" \in c.ranges THEN "hlg" ELSE "none"

HDRFallbackRange(c, m) ==
    IF /\ c.hdr /\ "hdr10" \in c.ranges
       /\ m.range = "hdr10plus" \/ (m.range = "dolby_vision" /\ m.dv = 7 /\ CanUseHDRHEVC(c))
    THEN "hdr10"
    ELSE IF c.hdr /\ m.range = "dolby_vision" THEN CompatibleBase(c, m) ELSE "none"

ReencodedHDRRange(c, m, planned) ==
    IF planned \in {"hdr10", "hdr10plus"} /\ "hdr10" \in c.ranges THEN "hdr10"
    ELSE IF planned = "hlg" /\ "hlg" \in c.ranges THEN "hlg"
    ELSE IF planned = "dolby_vision" THEN CompatibleBase(c, m) ELSE "none"

-------------------------------------------------------------------------------
(* What happens to the picture.                                              *)

ToneMapped(t) == [t EXCEPT !.fits = FALSE, !.range = "sdr", !.toneMapped = TRUE, !.fallback = FALSE]

(* The picture as the player and the enhancement leave it.                   *)
Shown(c, m, s) ==
    [fits |-> PictureFits(c, m, s) /\ ~Enhanced(c, m, s),
     range |-> IF Enhanced(c, m, s) THEN "hdr10" ELSE IF m.range = "none" THEN "sdr" ELSE m.range,
     toneMapped |-> FALSE, fallback |-> FALSE, hevc |-> Enhanced(c, m, s)]

(* The base layer of a dual-layer source is not copied.                      *)
FellBack(t, base, m) == [t EXCEPT !.range = base, !.fallback = TRUE, !.fits = @ /\ m.dv # 7]

(* Faulty variant: the base layer of a dual-layer source is copied.          *)
DisplayedDualLayer(c, m, s) ==
    LET t == Shown(c, m, s)
        base == HDRFallbackRange(c, m)
    IN IF CanOutputRange(c, m) THEN t
       ELSE IF base # "none" THEN [t EXCEPT !.range = base, !.fallback = TRUE] ELSE ToneMapped(t)

Displayed(c, m, s) ==
    LET t == Shown(c, m, s)
        base == HDRFallbackRange(c, m)
    IN IF CanOutputRange(c, m) THEN t ELSE IF base # "none" THEN FellBack(t, base, m) ELSE ToneMapped(t)

DeepEnough(c, m, t) == IF Within(m.depth, c.depth) THEN t ELSE ToneMapped(t)

(* A native TV player gets HDR as HEVC Main 10 or not at all.                *)
Native(c, m, t) ==
    LET range == ReencodedHDRRange(c, m, t.range)
    IN CASE ~NativeTV(c) \/ (t.fits /\ m.codec = "hevc") -> t
         [] NativeTV(c) /\ ~(t.fits /\ m.codec = "hevc") /\ ~t.toneMapped /\ CanUseHDRHEVC(c) /\ range # "none" ->
                [t EXCEPT !.fits = FALSE, !.range = range, !.fallback = range # m.range, !.hevc = TRUE]
         [] OTHER -> ToneMapped(t)

Treatment(c, m, s) ==
    LET shown == Displayed(c, m, s)
    IN IF IsHDR(m.range) THEN Native(c, m, DeepEnough(c, m, shown)) ELSE shown

-------------------------------------------------------------------------------
(* The audio track and what happens to it.                                   *)

Passes(c, codec) == codec # "none" /\ codec \in c.passthrough

AudioFits(c, codec, channels) ==
    IF codec = "none" THEN ~c.compatibility
    ELSE \/ Passes(c, codec)
         \/ codec \in c.audio /\ (c.downmix \/ Within(channels, c.channels))

PreferenceTier(t) ==
    (IF t.main THEN 3 ELSE 0) + (CASE t.language = "english" -> 2 [] t.language = "none" -> 1 [] OTHER -> 0)

CodecRank(codec) ==
    CASE codec \in {"truehd", "flac"} -> 9
      [] codec = "eac3" -> 7
      [] codec \in {"dts", "ac3"} -> 6
      [] codec = "aac" -> 5
      [] OTHER -> 1

TrackScore(c, t) ==
    (CASE t.language = "english" -> 100000000 [] t.language = "none" -> 10000000 [] OTHER -> 0)
    - (IF t.main THEN 0 ELSE 20000000)
    + CodecRank(t.codec) * 1000000 + t.channels * 100000
    + (IF t.default THEN 1000 ELSE 0)
    + (IF AudioFits(c, t.codec, t.channels) THEN 1 ELSE 0)

(* The track the player asked for, or the first of the best.                 *)
SelectAudioTrack(c, m, wanted) ==
    LET Better(i, j) ==
            \/ PreferenceTier(m.tracks[i]) > PreferenceTier(m.tracks[j])
            \/ /\ PreferenceTier(m.tracks[i]) = PreferenceTier(m.tracks[j])
               /\ TrackScore(c, m.tracks[i]) > TrackScore(c, m.tracks[j])
    IN CASE m.tracks = <<>> -> 0
         [] m.tracks # <<>> /\ wanted \in DOMAIN m.tracks -> wanted
         [] OTHER -> CHOOSE i \in DOMAIN m.tracks :
                         \A j \in DOMAIN m.tracks : ~Better(j, i) /\ (j < i => Better(i, j))

TranscodeAudioChannels(c, channels) ==
    CASE c.platform \notin {"tvos", "android_tv"} -> 0
      [] c.platform \in {"tvos", "android_tv"} /\ channels >= 6 /\ c.channels >= 6 -> 6
      [] OTHER -> 2

-------------------------------------------------------------------------------
(* The query of a URL.                                                       *)

Bare == [mode |-> "none", codec |-> "none", container |-> "none", track |-> 0, channels |-> 0,
         source |-> "none", output |-> "none", copied |-> "none", toneMap |-> FALSE, strip |-> FALSE,
         enhancement |-> FALSE, scaler |-> FALSE]

Preferred(container) == IF container \in {"hls", "mpegts"} THEN container ELSE "none"

(* taterPlaybackPlannedURL: of the old query only the enhancement is kept.   *)
PlannedURL(q, mode, codec, track, container) ==
    [Bare EXCEPT !.enhancement = q.enhancement, !.mode = mode, !.track = track,
                 !.codec = IF mode \in {"video", "full"} THEN codec ELSE "none",
                 !.container = Preferred(container)]

AnnotateURL(q, p, container) ==
    [q EXCEPT !.copied = p.videoCodec, !.source = p.source, !.output = p.output,
              !.container = Preferred(container), !.toneMap = p.toneMapped, !.track = p.track,
              !.strip = p.source = "dolby_vision" /\ p.output # "dolby_vision" /\ ~p.toneMapped,
              !.channels = IF p.audioMode = "transcode" THEN p.channels ELSE 0]

-------------------------------------------------------------------------------
(* The plan for a title.                                                     *)

(* tvOS gets no copied E-AC-3 beside HEVC repackaged as HLS, and no native   *)
(* TV player copied audio beside a new picture.                              *)
AudioIsCopied(c, m, fits, codec, channels) ==
    LET repackaged == c.platform = "tvos" /\ c.container = "hls"
                      /\ m.container \notin c.containers \cup {"none"} /\ m.codec = "hevc"
    IN AudioFits(c, codec, channels) /\ ~(repackaged /\ codec = "eac3") /\ (NativeTV(c) => fits)

ModeOf(fits, copied, repackage) ==
    CASE fits /\ copied /\ repackage -> "remux"
      [] fits /\ copied /\ ~repackage -> "direct"
      [] fits /\ ~copied -> "audio"
      [] ~fits /\ copied -> "video"
      [] OTHER -> "full"

TitlePlan(c, m, s, q, wanted) ==
    LET track == SelectAudioTrack(c, m, wanted)
        codec == IF track = 0 THEN "none" ELSE m.tracks[track].codec
        channels == IF track = 0 THEN 0 ELSE m.tracks[track].channels
        t == Treatment(c, m, s)
        copied == AudioIsCopied(c, m, t.fits, codec, channels)
        repackage == (c.container # "none" /\ m.container \notin c.containers \cup {"none"}) \/ t.fallback
        mode == ModeOf(t.fits, copied, repackage)
    IN [caps |-> c, media |-> m, channel |-> FALSE, mode |-> mode,
        videoMode |-> IF t.fits THEN "direct" ELSE "transcode",
        audioMode |-> CASE ~copied -> "transcode"
                        [] copied /\ Passes(c, codec) -> "bitstream"
                        [] OTHER -> "direct",
        videoCodec |-> IF t.fits THEN m.codec ELSE IF t.hevc THEN "hevc" ELSE "h264",
        container |-> CASE mode = "direct" -> m.container
                        [] mode = "full" /\ c.container = "none" -> "mpegts"
                        [] OTHER -> c.container,
        source |-> IF m.range = "none" THEN "sdr" ELSE m.range, output |-> t.range,
        toneMapped |-> t.toneMapped, track |-> track,
        channels |-> IF copied THEN channels ELSE TranscodeAudioChannels(c, channels),
        query |-> q]

TitleURL(c, m, s, p) ==
    LET planned == IF p.mode = "direct" THEN p.query
                   ELSE PlannedURL(p.query, p.mode, p.videoCodec, p.track, c.container)
        url == AnnotateURL(planned, p, IF c.container = "none" THEN "none" ELSE p.container)
    IN [url EXCEPT !.scaler = @ \/ Upscaled(c, m, s), !.enhancement = @ \/ Enhanced(c, m, s)]

BuildPlan(c, m, s, q, wanted) ==
    LET p == TitlePlan(c, m, s, q, wanted)
    IN [p EXCEPT !.query = TitleURL(c, m, s, p)]

(* The plan for a channel: always a whole conversion into one HLS timeline.  *)
FixedOutput(c) == c.version >= 6 /\ c.platform = "tvos" /\ c.container = "hls" /\ c.tube \in {"sdr", "hdr10"}

FixedRange(c) == IF c.tube = "hdr10" /\ CanUseHDRHEVC(c) /\ "hdr10" \in c.ranges THEN "hdr10" ELSE "sdr"

ChannelRange(c, m) ==
    LET range == IF m.dv = 7 /\ "hdr10" \in c.ranges THEN "hdr10" ELSE ReencodedHDRRange(c, m, m.range)
    IN IF c.hdr /\ range # "none" THEN range ELSE "sdr"

ChannelCodec(c) ==
    IF \/ FixedOutput(c) /\ FixedRange(c) = "hdr10"
       \/ FixedOutput(c) /\ c.profile > 2 /\ "hevc" \in c.codecs
       \/ ~FixedOutput(c) /\ CanUseHDRHEVC(c) /\ c.ranges # {}
    THEN "hevc" ELSE "h264"

BuildChannelPlan(c, m, q, wanted) ==
    LET track == SelectAudioTrack(c, m, wanted)
        channels == IF track = 0 THEN 0 ELSE m.tracks[track].channels
        range == CASE FixedOutput(c) -> FixedRange(c)
                   [] ~FixedOutput(c) /\ ChannelCodec(c) = "hevc" -> ChannelRange(c, m)
                   [] OTHER -> "sdr"
        wide == IF FixedOutput(c) THEN c.channels >= 6 ELSE TranscodeAudioChannels(c, channels) = 6
        p == [caps |-> c, media |-> m, channel |-> TRUE, mode |-> "full",
              videoMode |-> "transcode", audioMode |-> "transcode", videoCodec |-> ChannelCodec(c),
              container |-> "hls", source |-> IF m.range = "none" THEN "sdr" ELSE m.range, output |-> range,
              toneMapped |-> IsHDR(m.range) /\ range = "sdr", track |-> track,
              channels |-> IF wide THEN 6 ELSE 2, query |-> q]
    IN [p EXCEPT !.query = AnnotateURL(PlannedURL(q, "full", ChannelCodec(c), track, "hls"), p, "hls")]

-------------------------------------------------------------------------------
(* What the handler makes of the URL.                                        *)

ShouldTranscode(m, q) == q.mode # "none" /\ m.convertible

(* Faulty variant: only the library goes to HLS.                             *)
OverHLSFromLibrary(m, q) == q.container = "hls" /\ m.local

(* Local files go to HLS whenever the query says so, others only if they are *)
(* to be converted at all.                                                   *)
OverHLS(m, q) == q.container = "hls" /\ (m.local \/ ShouldTranscode(m, q))

Encoder(q, s) == IF q.codec = "hevc" /\ s.hevc THEN "hevc" ELSE "h264"

EnhancementRequested(q) == q.enhancement /\ q.source = "sdr" /\ q.output = "hdr10"

(* Faulty variant: the range is what the plan wanted.                        *)
EncodedRangeAsPlanned(q, s) == q.output

(* The range the encoder is told to write: HDR needs the HEVC encoder, and   *)
(* an enhancement that cannot be made leaves SDR.                            *)
EncodedRange(q, s) ==
    IF \/ q.codec = "hevc" /\ ~s.hevc /\ IsHDR(q.output)
       \/ EnhancementRequested(q) /\ ~s.placebo
    THEN "sdr" ELSE q.output

ToneMapRequested(q) == q.toneMap /\ IsHDR(q.source) /\ q.output = "sdr"

(* The picture a decoder finds in a source once the parts it may not use are *)
(* dropped.                                                                  *)
BaseOf(m) ==
    IF m.range = "hdr10plus" \/ m.dv = 7 \/ (m.dv = 8 /\ m.compat = 1) THEN "hdr10"
    ELSE IF m.dv = 8 /\ m.compat = 4 THEN "hlg"
    ELSE IF m.range = "none" THEN "sdr" ELSE m.range

Answer(kind, codec, label, content) ==
    [kind |-> kind, hls |-> FALSE, codec |-> codec, label |-> label, content |-> content,
     segments |-> "none", tag |-> "none"]

Refused == Answer("error", "none", "none", "none")
Raw(m) == Answer("raw", m.codec, "none", m.range)

(* A new picture; enhanced says that an SDR picture is made HDR.             *)
Picture(m, q, s, toned, label, enhanced) ==
    IF toned /\ ~s.toneMap THEN Refused
    ELSE Answer(q.mode, Encoder(q, s), label,
                CASE toned -> "sdr" [] ~toned /\ enhanced -> "hdr10" [] OTHER -> BaseOf(m))

Enhances(q, s) == EnhancementRequested(q) /\ EncodedRange(q, s) = "hdr10"

Remuxed(m, q) == IF q.container = "mpegts" THEN Answer("remux", m.codec, "none", m.range) ELSE Refused

AudioConverted(m, q) == Answer("audio", m.codec, "none", m.range)

(* The range is the target of the tone mapping, if there is one.             *)
VideoConverted(m, q, s) ==
    Picture(m, q, s, ToneMapRequested(q), IF ToneMapRequested(q) THEN "sdr" ELSE "none", FALSE)

WhollyConverted(m, q, s) ==
    Picture(m, q, s, ToneMapRequested(q), EncodedRange(q, s), Enhances(q, s))

Transcoded(m, q, s) ==
    CASE q.mode = "remux" -> Remuxed(m, q)
      [] q.mode = "audio" -> AudioConverted(m, q)
      [] q.mode = "video" -> VideoConverted(m, q, s)
      [] OTHER -> WhollyConverted(m, q, s)

(* The HLS command strips Dolby Vision from a picture it copies, and tone-   *)
(* maps whatever ends in SDR.                                                *)
HLSCommand(m, q, s) ==
    LET toned == ToneMapRequested(q) \/ (IsHDR(q.source) /\ EncodedRange(q, s) = "sdr")
    IN CASE q.mode = "none" -> Refused
         [] q.mode \in {"remux", "audio"} ->
                Answer(q.mode, q.copied, q.output, IF q.strip THEN BaseOf(m) ELSE m.range)
         [] OTHER -> Picture(m, q, s, toned, EncodedRange(q, s), q.mode = "full" /\ Enhances(q, s))

(* HEVC goes into fragmented MP4, with a tag of its own for Dolby Vision.    *)
AsHLS(a) ==
    IF a.kind = "error" THEN a
    ELSE [a EXCEPT !.hls = TRUE,
                   !.segments = IF a.codec = "hevc" THEN "fmp4" ELSE "mpegts",
                   !.tag = CASE a.codec # "hevc" -> "none"
                             [] a.codec = "hevc" /\ a.label = "dolby_vision" -> "dvh1"
                             [] OTHER -> "hvc1"]

Serve(m, q, s) ==
    CASE OverHLS(m, q) -> AsHLS(HLSCommand(m, q, s))
      [] ~OverHLS(m, q) /\ ShouldTranscode(m, q) -> Transcoded(m, q, s)
      [] OTHER -> Raw(m)

-------------------------------------------------------------------------------
(* The requests.                                                             *)

PlanInit ==
    /\ reported = Gone /\ aged = FALSE /\ plan = Gone /\ served = Gone
    /\ title \in Media /\ server \in Servers

(* POST capabilities                                                         *)
ReportCapabilities(c) ==
    /\ reported' = c /\ aged' = FALSE
    /\ UNCHANGED <<title, server, plan, served>>

ReportAges ==
    /\ reported # Gone /\ ~aged
    /\ aged' = TRUE
    /\ UNCHANGED <<title, reported, server, plan, served>>

(* Settings are changed, a driver or a build of FFmpeg comes or goes; a      *)
(* stream already begun stays what it is and is looked at no longer.         *)
ServerChanges(s) ==
    /\ server' = s /\ served' = Gone
    /\ UNCHANGED <<title, reported, aged, plan>>

(* The player sends the URL it was listed, or the one it was given for the   *)
(* same title, which already carries a plan.                                 *)
Urls == {Bare} \cup (IF plan # Gone THEN {plan.query} ELSE {})

Answered(c, channel, wanted, q) ==
    /\ plan' = IF channel THEN BuildChannelPlan(c, title, q, wanted) ELSE BuildPlan(c, title, server, q, wanted)
    /\ served' = Gone
    /\ UNCHANGED <<title, server>>

(* POST playback session with capabilities in it                             *)
PlanWithReport(c, channel, wanted, q) ==
    /\ reported' = c /\ aged' = FALSE
    /\ Answered(c, channel, wanted, q)

(* The same without: the last report answers, for a day.                     *)
PlanFromCache(channel, wanted, q) ==
    /\ reported # Gone /\ ~aged
    /\ Answered(reported, channel, wanted, q)
    /\ UNCHANGED <<reported, aged>>

PlanRefused ==
    /\ reported = Gone \/ aged
    /\ reported' = Gone /\ aged' = FALSE
    /\ UNCHANGED <<title, server, plan, served>>

(* GET the stream                                                            *)
Play ==
    /\ plan # Gone /\ ~plan.channel
    /\ served' = Serve(plan.media, plan.query, server)
    /\ UNCHANGED <<title, reported, aged, server, plan>>

PlanNext ==
    \/ \E c \in Devices : ReportCapabilities(c)
    \/ ReportAges
    \/ \E s \in Servers : ServerChanges(s)
    \/ \E c \in Devices, channel \in BOOLEAN, wanted \in {0, 2}, q \in Urls : PlanWithReport(c, channel, wanted, q)
    \/ \E channel \in BOOLEAN, wanted \in {0, 2}, q \in Urls : PlanFromCache(channel, wanted, q)
    \/ PlanRefused
    \/ Play

PlanSpec == PlanInit /\ [][PlanNext]_planVars

-------------------------------------------------------------------------------
(* Every variable has a value of its type.                                   *)
PlanTypeOK ==
    /\ title \in Media /\ reported \in Devices \cup {Gone} /\ aged \in BOOLEAN /\ server \in Servers
    /\ plan # Gone => plan.mode \in {"direct", "remux", "audio", "video", "full"}
    /\ served # Gone => served.kind \in {"raw", "error", "remux", "audio", "video", "full"}

(* A plan asks nothing of a player it did not report: a copied picture is one*)
(* it decodes, at a size and a depth it takes, in a range the display shows, *)
(* the source's own or the base picture in it; a converted one is H.264, or  *)
(* HEVC where HDR is kept, never Dolby Vision or HDR10+, and whatever loses  *)
(* its range is tone-mapped; copied audio is audio it takes.                 *)
DisplayShows(c, m, range) ==
    /\ c.hdr /\ range \in c.ranges
    /\ range = "dolby_vision" => m.dv \in c.dolby \/ c.dolby = {}

PictureIsPlayable(p) ==
    LET c == p.caps
        m == p.media
    IN IF p.videoMode = "direct"
       THEN /\ m.codec \in c.codecs \cup {"none"} /\ Within(m.size, c.size) /\ AndroidDecoderSupports(c, m)
            /\ IsHDR(p.source) => /\ p.output \in {p.source, BaseOf(m)} /\ (m.dv = 7 => p.output = p.source)
                                  /\ DisplayShows(c, m, p.output) /\ Within(m.depth, c.depth)
       ELSE /\ IsHDR(p.output) => /\ p.output \in {"hdr10", "hlg"} /\ p.videoCodec = "hevc"
                                  /\ DisplayShows(c, m, p.output) /\ "hevc" \in c.codecs /\ c.depth >= 10
                                  /\ IsHDR(p.source) /\ ~p.channel => p.output = BaseOf(m)
            /\ p.videoCodec = "hevc" => "hevc" \in c.codecs
            /\ p.toneMapped <=> IsHDR(p.source) /\ ~IsHDR(p.output)

SoundIsPlayable(p) ==
    IF p.audioMode = "transcode" THEN p.channels > p.caps.channels => p.channels = 2
    ELSE p.track # 0 => AudioFits(p.caps, p.media.tracks[p.track].codec, p.media.tracks[p.track].channels)

PlansSuitThePlayer == plan # Gone => PictureIsPlayable(plan) /\ SoundIsPlayable(plan)

(* A direct plan does not clean the URL it is asked for.                     *)
StaleDirect == plan.mode = "direct" /\ plan.query.mode # "none"

(* Over HLS, whatever became of the server between the plan and the stream,  *)
(* and elsewhere as long as a plan of HEVC meets an HEVC encoder, the        *)
(* picture says what it is: an encoded stream is labelled with the range its *)
(* frames have, HDR is only written by the HEVC encoder, HEVC goes out over  *)
(* HLS in fragmented MP4, and the Dolby Vision tag stands on Dolby Vision    *)
(* alone.  LostEncodersToneMap, which is violated, is about the rest.        *)
PictureIsHonest ==
    served # Gone /\ ~StaleDirect /\ (served.hls \/ server.hevc \/ plan.query.codec # "hevc") =>
        /\ served.kind \in {"video", "full"} =>
               /\ served.content = IF served.label = "none" THEN "sdr" ELSE served.label
               /\ IsHDR(served.content) => served.codec = "hevc"
        /\ served.segments # "none" => (served.segments = "fmp4" <=> served.codec = "hevc")
        /\ served.tag = "dvh1" => served.content = "dolby_vision"
        /\ served.hls /\ served.content = "dolby_vision" => served.tag = "dvh1"

(* A player that named a container is served what its plan says: nothing is  *)
(* refused that FFmpeg can do, and what the plan copies is not converted.    *)
PlansAreServed ==
    served # Gone /\ plan.caps.container # "none" /\ ~StaleDirect /\ plan.media.convertible =>
        \/ served.kind = IF plan.mode = "direct" THEN "raw" ELSE plan.mode
        \/ served.kind = "error" /\ ~server.toneMap

(* Every plan that uses the base picture of a source is one the handler      *)
(* serves.                                                                   *)
BaseLayersArePlayed ==
    served # Gone /\ plan.output # plan.source /\ plan.videoMode = "direct" => served.kind # "error"

(* "Kept unsupported Dolby Vision and unavailable HEVC HDR encoders on the   *)
(* safe SDR tone-mapping path" (.github/release-notes/v1.5.1.md:7): the      *)
(* frames that are encoded have the range that the stream is labelled with,  *)
(* over HLS or not and with or without an HEVC encoder.  TLC finds a         *)
(* progressive stream on a server that has none: its label becomes SDR and   *)
(* its frames stay as they are (stream_handler.go:820-823).                  *)
LostEncodersToneMap ==
    served # Gone /\ ~StaleDirect /\ served.kind \in {"video", "full"} =>
        served.content = IF served.label = "none" THEN "sdr" ELSE served.label

===============================================================================
