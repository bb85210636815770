----------------------------- MODULE ImageBlocks -----------------------------
(***************************************************************************)
(* docker/overlay-025-vision/patches/vision_exp: from the images of a      *)
(* prompt to the embeddings the model reads in their place                 *)
(* (image_processor.py, processor.py, merge_one_image of apply.py).        *)
(*                                                                         *)
(* An image is resized until the block of tokens it will take fits, the    *)
(* block is laid out in pairs of rows, padded so that its cells start at a *)
(* multiple of four in the expanded prompt, and the tower's outputs are    *)
(* put at the cells.  The attention of the model compresses four positions *)
(* into one, which is why the positions matter.                            *)
(*                                                                         *)
(* Sizes of an image are pixels until it is cut into patches, then patches *)
(* (n_vit), then cells (n_llm).  The floor of a float is that of the exact *)
(* number, or one less where that number is whole (AtMost).                *)
(***************************************************************************)
EXTENDS Integers, SequencesExt

CONSTANTS
  PatchSize,   \* vision_patch_size
  Ratio,       \* vision_downsample_ratio
  MaxTokens,   \* vision_max_n_token
  MinPixels,   \* vision_min_pixels
  MaxAspect,   \* vision_max_wh_ratio
  Sizes,       \* pixel sizes <<height, width>> of the images
  MaxImages, MaxText \* bounds: images given, and tokens of text in a prompt
                     \* (and as many placeholders, where no image is given)

ImageBlocksAssumption ==
  /\ {PatchSize, Ratio, MaxTokens, MinPixels, MaxAspect} \subseteq Nat \ {0}
  /\ Sizes \subseteq (Nat \ {0}) \X (Nat \ {0})

VARIABLES
  given,    \* number of images that come with the prompt
  prompt,   \* the prompt's tokens so far, "text" or "image"
  expanded, \* expanded_len
  image,    \* the image under way, or NoImage
  rows,     \* an entry of the batch for each image laid out
  outcome   \* "reading", "processed", "merged", "refused" or "failed"

imageVars == <<given, prompt, expanded, image, rows, outcome>>

CompressPadTo == 4
NoImage == <<>>

CeilDiv(n, d) == (n + d - 1) \div d

\* The floor of a float for k, which is exact if it stands for k itself.
AtMost(k, exact) == {k} \union (IF exact THEN {k - 1} ELSE {})
Floors(n, d) == AtMost(n \div d, n % d = 0)

-----------------------------------------------------------------------------
(* Sizes.                                                                  *)

\* grid_tokens: the tokens of h times w patches.
GridTokens(h, w) ==
  LET lh == CeilDiv(h, Ratio)
      len == CeilDiv(w, Ratio) + 1
  IN  lh * len + 2 + (lh % 2) * len + ((((lh + 1) \div 2) * len) % 2) * 2

\* int(a * sqrt(vision_min_pixels / (a * b))).
Enlarged(a, b) ==
  LET k == Max({n \in 0..(a + MinPixels) : n * n * b <= a * MinPixels})
  IN  AtMost(k, k * k * b = a * MinPixels)

\* The sizes pil_to_patches() starts from: not too wide, not too small.
FirstSizes(h, w) ==
  LET wide == Min({w, h * MaxAspect})
  IN  IF h * wide < MinPixels THEN Enlarged(h, wide) \X Enlarged(wide, h)
      ELSE {<<h, wide>>}

\* floor(max_w_float) and floor(max_h_float): the columns and rows, one more
\* column for the line ends, that n tokens allow at the aspect h / w.
MaxColumns(h, w, n) ==
  LET k == Max({c \in 0..n : c * (c + 1) * h <= (n - 2) * w})
  IN  AtMost(k, k * (k + 1) * h = (n - 2) * w)
MaxRows(h, w, n) ==
  LET k == Max({r \in 0..n : r * r * w + r * h <= (n - 2) * h})
  IN  AtMost(k, k * k * w + k * h = (n - 2) * h)

Even(n) == n - (n % 2)

\* The largest patch grid of aspect h / w inside mr rows and mc columns.
Inside(h, w, mr, mc) ==
  IF mc * h <= mr * w THEN Floors(h * mc * Ratio, w) \X AtMost(mc * Ratio, TRUE)
  ELSE AtMost(mr * Ratio, TRUE) \X Floors(w * mr * Ratio, h)

\* solve_resize_ratio: patch grids for n tokens, none if its assertion fails.
SolveResizeRatio(h, w, n) ==
  UNION {CASE mc < 1 -> {<<Even((n - 2) \div 2) * Ratio, Ratio>>}
           [] mc >= 1 /\ mr < 2 ->
                LET c == (n - 2) \div 2 - 1
                IN  IF c > 1 THEN {<<2 * Ratio, c * Ratio>>} ELSE {}
           [] OTHER -> Inside(h, w, Even(mr), mc)
         : mc \in MaxColumns(h, w, n), mr \in MaxRows(h, w, n)}

-----------------------------------------------------------------------------
(* Blocks.                                                                 *)

CompressPad(start) == CompressPadTo - 1 - (start % CompressPadTo)

\* Row and column, from 0, of each token of the body: two rows at a time,
\* column by column.
Order(nRows, len) ==
  [k \in 1..(nRows * len) |->
     <<2 * ((k - 1) \div (2 * len)) + ((k - 1) % 2), ((k - 1) % (2 * len)) \div 2>>]

\* build_image_block for lh times lw cells after start tokens.
BuildImageBlock(lh, lw, start) ==
  LET nRows == lh + (lh % 2)
      order == Order(nRows, lw + 1)
      type(at) == CASE at[1] = lh -> "pad"
                    [] at[1] < lh /\ at[2] = lw -> "newline"
                    [] at[1] < lh /\ at[2] < lw -> "image"
      cells == SelectSeq(order, LAMBDA at : type(at) = "image")
      pads(n) == [k \in 1..n |-> "pad"]
  IN  [types |-> pads(CompressPad(start)) \o <<"start">>
                 \o [k \in DOMAIN order |-> type(order[k])]
                 \o pads((((nRows \div 2) * (lw + 1)) % 2) * 2) \o <<"end">>,
       perm |-> [k \in DOMAIN cells |-> cells[k][1] * lw + cells[k][2]]]

\* _pad_1d: rows of one width, for the batch.
Padded(s, fill) == s \o [k \in 1..(MaxTokens - Len(s)) |-> fill]

\* The outputs of the aligner for h times w patches, padded to whole cells.
AlignerOutputs(h, w) == 0..(CeilDiv(h, Ratio) * CeilDiv(w, Ratio) - 1)

\* merge_one_image: the padding goes, and an output goes to each cell.
Types(row) == SubSeq(row.types, 1, row.tokens)
Perm(row) == SelectSeq(row.perm, LAMBDA k : k >= 0)
NthImage(row, k) ==
  Len(SelectSeq(SubSeq(row.types, 1, k), LAMBDA type : type = "image"))
Fits(row) ==
  /\ NthImage(row, row.tokens) = Len(Perm(row))
  /\ Range(Perm(row)) \subseteq AlignerOutputs(row.h, row.w)
Merged(row) ==
  [k \in 1..row.tokens |->
     IF Types(row)[k] = "image" THEN <<"image", Perm(row)[NthImage(row, k)]>>
     ELSE <<Types(row)[k], 0>>]

-----------------------------------------------------------------------------
(* _call_hf_processor.  Nothing of it is cached (_cached_apply_hf_processor)*)

ImagesInit ==
  /\ given \in 0..MaxImages
  /\ prompt = <<>>
  /\ expanded = 0
  /\ image = NoImage
  /\ rows = <<>>
  /\ outcome = "reading"

Reading == outcome = "reading" /\ image = NoImage
Seen(tok) == Len(SelectSeq(prompt, LAMBDA t : t = tok))

ReadText ==
  /\ Reading
  /\ Seen("text") < MaxText
  /\ prompt' = Append(prompt, "text")
  /\ expanded' = expanded + 1
  /\ UNCHANGED <<given, image, rows, outcome>>

\* The loop body begins: the image's first size.
ReadImage ==
  /\ Reading
  /\ Len(rows) < given
  /\ prompt' = Append(prompt, "image")
  /\ \E size \in Sizes : \E first \in FirstSizes(size[1], size[2]) :
       image' = [height |-> first[1], width |-> first[2],
                 h |-> CeilDiv(first[1], PatchSize),
                 w |-> CeilDiv(first[2], PatchSize),
                 budget |-> MaxTokens - (CompressPadTo - 1)]
  /\ UNCHANGED <<given, expanded, rows, outcome>>

\* Without images the prompt goes back as it is, placeholders and all.
ReadUnmatched ==
  /\ Reading
  /\ given = 0
  /\ Seen("image") < MaxText
  /\ prompt' = Append(prompt, "image")
  /\ UNCHANGED <<given, expanded, image, rows, outcome>>

\* One placeholder more than there are images: next(image_iter) raises.
ReadTooMany ==
  /\ Reading
  /\ given > 0 /\ Len(rows) = given
  /\ prompt' = Append(prompt, "image")
  /\ outcome' = "refused"
  /\ UNCHANGED <<given, expanded, image, rows>>

TooLarge ==
  outcome = "reading" /\ image # NoImage /\
    GridTokens(image.h, image.w) > MaxTokens - (CompressPadTo - 1)

\* A turn of the loop of safe_resize(), with a smaller budget each time.
Resize ==
  /\ TooLarge
  /\ LET solved == SolveResizeRatio(image.height, image.width, image.budget)
     IN  /\ outcome' = IF solved = {} THEN "failed" ELSE outcome
         /\ image' \in IF solved = {} THEN {image} ELSE
              {[image EXCEPT !.h = best[1], !.w = best[2], !.budget = @ - 1]
               : best \in solved}
  /\ UNCHANGED <<given, prompt, expanded, rows>>

\* Fault: an image counts as the one token that stands for it.
ExpandedByOne(block) == expanded + 1
ExpandedBy(block) == expanded + Len(block.types)

\* The loop body ends: the block is laid out where the prompt has got to.  One
\* that is too long raises, and what was gathered so far is lost with it.
LayOut ==
  /\ outcome = "reading" /\ image # NoImage /\ ~TooLarge
  /\ LET block == BuildImageBlock(CeilDiv(image.h, Ratio), CeilDiv(image.w, Ratio),
                                  expanded)
     IN  /\ outcome' = IF Len(block.types) > MaxTokens THEN "failed" ELSE outcome
         /\ rows' = Append(rows, [h |-> image.h, w |-> image.w,
                                  types |-> block.types, perm |-> block.perm,
                                  tokens |-> Len(block.types)])
         /\ expanded' = ExpandedBy(block)
  /\ image' = NoImage
  /\ UNCHANGED <<given, prompt>>

\* The prompt is through; images that are left over are refused.
EndPrompt ==
  /\ Reading
  /\ prompt # <<>>
  /\ \/ /\ Len(rows) < given
        /\ outcome' = "refused"
        /\ UNCHANGED rows
     \/ /\ Len(rows) = given
        /\ outcome' = "processed"
        /\ rows' = [i \in DOMAIN rows |->
                      [rows[i] EXCEPT !.types = Padded(@, "pad"),
                                      !.perm = Padded(@, -1)]]
  /\ UNCHANGED <<given, prompt, expanded, image>>

\* embed_multimodal: every image, or an error.
EmbedMultimodal ==
  /\ outcome = "processed"
  /\ outcome' = IF \A i \in DOMAIN rows : Fits(rows[i]) THEN "merged" ELSE "failed"
  /\ UNCHANGED <<given, prompt, expanded, image, rows>>

ImagesNext ==
  \/ ReadText \/ ReadImage \/ ReadUnmatched \/ ReadTooMany
  \/ Resize \/ LayOut
  \/ EndPrompt \/ EmbedMultimodal

-----------------------------------------------------------------------------
(* Properties.                                                             *)

\* Position of the i-th image in the prompt as the engine expands it: each
\* placeholder replaced by as many as get_replacement() says.
PlaceOf(i) == CHOOSE p \in DOMAIN prompt :
                prompt[p] = "image"
                /\ Len(SelectSeq(SubSeq(prompt, 1, p), LAMBDA t : t = "image")) = i
StartOf(i) ==
  FoldLeft(LAMBDA n, row : n + row.tokens, PlaceOf(i) - i, SubSeq(rows, 1, i - 1))

\* Every image finds a size that its block fits in, and no count of cells
\* differs from the outputs for them.  In the prompt as it is expanded the
\* body of a block starts and ends at a multiple of four, so that no four
\* positions compressed into one hold both cells and text; and of each two
\* rows the cells stand column by column, the upper before the lower, every
\* row with its end after it, and each holds the output for its place.
ImagesPlaced ==
  /\ outcome # "failed"
  /\ outcome = "merged" =>
       \A i \in DOMAIN rows :
         LET lh == CeilDiv(rows[i].h, Ratio)
             lw == CeilDiv(rows[i].w, Ratio)
             merged == Merged(rows[i])
             body == SelectInSeq(merged, LAMBDA e : e[1] = "start")
             place(r, c) == body + 1 + 2 * (r \div 2) * (lw + 1) + 2 * c + (r % 2)
         IN  /\ (StartOf(i) + body) % 4 = 0
             /\ (Len(merged) - 1 - body) % 4 = 0
             /\ merged[Len(merged)][1] = "end"
             /\ \A r \in 0..(lh - 1) :
                  /\ \A c \in 0..(lw - 1) :
                       merged[place(r, c)] = <<"image", r * lw + c>>
                  /\ merged[place(r, lw)][1] = "newline"
             /\ NthImage(rows[i], rows[i].tokens) = lh * lw
=============================================================================
