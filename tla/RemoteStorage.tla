--------------------------- MODULE RemoteStorage ---------------------------
(***************************************************************************)
(* Remote objects read by byte ranges: the access policy, the HTTP client  *)
(* and the I/O receipts (crates/genegis-storage/src), the readers built on *)
(* them (the block cache of genegis-vector/src/geoparquet.rs, the COPC     *)
(* source of genegis-pointcloud, PMTiles of genegis-tile/src/pmtiles.rs),  *)
(* and the benchmark evidence made of what they transfer (genegis-testkit/ *)
(* src/cloud_io.rs, managed_cloud.rs).                                     *)
(*                                                                         *)
(* An object is a sequence of bytes, offsets count from 0.  A host is the  *)
(* sequence of its characters.  A server answers a range with status and   *)
(* bytes according to its kind, since nothing obliges it to honour one.    *)
(***************************************************************************)
EXTENDS Integers, Sequences, FiniteSets, FiniteSetsExt, SequencesExt, Folds, Bitwise

-----------------------------------------------------------------------------
(* Access policy                                                           *)

RemoteAccessPolicy(hosts, loopback, limit) ==
    [allowed_hosts |-> hosts, allow_loopback |-> loopback, max_response_bytes |-> limit, max_redirects |-> 0]

(* A URL is [scheme, credentials, host].                                   *)
remote_url_host(url) == url.scheme \in {"http", "https"} /\ ~url.credentials /\ url.host # <<>>

is_loopback_host(host) == host = <<"l">>

(* A wildcard stands for at least one label in front of the suffix.        *)
host_matches(host, allowed) ==
    IF IsPrefix(<<"*", ".">>, allowed)
    THEN IsSuffix(<<".">> \o SubSeq(allowed, 3, Len(allowed)), host)
    ELSE host = allowed

validate_url(policy, url) ==
    /\ remote_url_host(url)
    /\ \/ policy.allow_loopback /\ is_loopback_host(url.host)
       \/ \E allowed \in policy.allowed_hosts : host_matches(url.host, allowed)

-----------------------------------------------------------------------------
(* Ranges and the HTTP client.  A source is [object, kind, policy, url].   *)

Slice(object, first, last) == SubSeq(object, first + 1, last + 1)

ByteRange(first, last) == [ok |-> last >= first, start |-> first, end |-> last]
RangeLen(range) == range.end - range.start + 1

(* What the server does with a range: honour it, ignore it, answer another *)
(* range of the same length and say so, or cut the answer short.           *)
ServerAnswer(source, range) ==
    LET object == source.object
        Part(a, b) == [status |-> 206, bytes |-> Slice(object, a, b), content_range |-> <<a, b, Len(object)>>]
    IN CASE source.kind = "honours" ->
              IF range.start >= Len(object) THEN [status |-> 416, bytes |-> <<>>, content_range |-> <<>>]
              ELSE Part(range.start, Min({range.end, Len(object) - 1}))
         [] source.kind = "ignores" -> [status |-> 200, bytes |-> object, content_range |-> <<>>]
         [] source.kind = "shifts" -> Part(0, Min({RangeLen(range), Len(object)}) - 1)
         [] OTHER -> Part(range.start, range.end - 1)

Failed == [ok |-> FALSE, status |-> 0, bytes |-> <<>>, content_range |-> <<>>]

(* A partial answer has the length asked for; a whole one is passed on as  *)
(* it is, for the caller to notice by its status.                          *)
fetch_http_range_with_policy(source, range) ==
    LET answer == ServerAnswer(source, range)
    IN IF \/ ~validate_url(source.policy, source.url)
          \/ RangeLen(range) > source.policy.max_response_bytes
          \/ answer.status \notin {200, 206}
          \/ Len(answer.bytes) > source.policy.max_response_bytes
          \/ answer.status = 206 /\ Len(answer.bytes) # RangeLen(range)
       THEN Failed ELSE [ok |-> TRUE] @@ answer

fetch_http_bytes_with_policy(source) ==
    IF validate_url(source.policy, source.url) /\ Len(source.object) <= source.policy.max_response_bytes
    THEN [ok |-> TRUE, status |-> 200, bytes |-> source.object, content_range |-> <<>>] ELSE Failed

(* A request body is held to the limit of a response.                      *)
post_http_json_bytes_with_policy(source, body) ==
    IF validate_url(source.policy, source.url) /\ Len(body) <= source.policy.max_response_bytes
    THEN [ok |-> TRUE, sent |-> body] ELSE [ok |-> FALSE, sent |-> <<>>]

(* HEAD reports the length; without one, a one-byte range does.            *)
probe_http_content_length(source, head) ==
    IF head THEN [ok |-> validate_url(source.policy, source.url), length |-> Len(source.object)]
    ELSE LET answer == ServerAnswer(source, ByteRange(0, 0))
         IN [ok |-> validate_url(source.policy, source.url) /\ answer.status = 206, length |-> Len(source.object)]

probe_http_object_metadata(source, head) ==
    [ok |-> validate_url(source.policy, source.url) /\ head, content_length |-> Len(source.object),
     accepts_byte_ranges |-> source.kind # "ignores"]

(* A local range fails when the file ends before it.                       *)
read_local_range(object, range) ==
    IF range.end < Len(object) THEN [ok |-> TRUE, bytes |-> Slice(object, range.start, range.end)]
    ELSE [ok |-> FALSE, bytes |-> <<>>]

read_asset_range_with_policy(source, range) == fetch_http_range_with_policy(source, range)

-----------------------------------------------------------------------------
(* Readers                                                                 *)

BLOCK_BYTES == 3

(* The COPC source hands on what it gets.                                  *)
CopcReadRange(source, offset, length) ==
    IF length = 0 THEN [ok |-> TRUE, bytes |-> <<>>]
    ELSE LET answer == fetch_http_range_with_policy(source, ByteRange(offset, offset + length - 1))
         IN [ok |-> answer.ok, bytes |-> answer.bytes]

BlockRange(source, block) == ByteRange(block, Min({block + BLOCK_BYTES - 1, source.length - 1}))

(* Faulty variant: a block of any length is kept.                          *)
FetchBlock_any(source, block) ==
    LET answer == read_asset_range_with_policy(source, BlockRange(source, block))
    IN [ok |-> answer.ok, bytes |-> answer.bytes]

FetchBlock(source, block) ==
    LET answer == read_asset_range_with_policy(source, BlockRange(source, block))
    IN [ok |-> answer.ok /\ Len(answer.bytes) = RangeLen(BlockRange(source, block)), bytes |-> answer.bytes]

(* Blocks not in the cache are fetched in order, up to the first failure;  *)
(* the blocks fetched before it stay.                                      *)
HttpRangeFetch(source, cache, start, length) ==
    LET end == start + length - 1
        Block(position) == (position \div BLOCK_BYTES) * BLOCK_BYTES
        missing == {b \in {BLOCK_BYTES * k : k \in 0..(end \div BLOCK_BYTES)} : b >= Block(start) /\ b \notin DOMAIN cache}
        bad == {b \in missing : ~FetchBlock(source, b).ok}
        kept == {b \in missing : \A x \in bad : b < x}
        filled == [b \in DOMAIN cache \cup kept |-> IF b \in DOMAIN cache THEN cache[b] ELSE FetchBlock(source, b).bytes]
    IN IF length = 0 THEN [ok |-> TRUE, bytes |-> <<>>, cache |-> cache]
       ELSE IF end >= source.length THEN [ok |-> FALSE, bytes |-> <<>>, cache |-> cache]
       ELSE IF bad # {} THEN [ok |-> FALSE, bytes |-> <<>>, cache |-> filled]
       ELSE [ok |-> TRUE, cache |-> filled,
             bytes |-> [k \in 1..length |-> filled[Block(start + k - 1)][((start + k - 1) % BLOCK_BYTES) + 1]]]

-----------------------------------------------------------------------------
(* PMTiles.  An archive is [header, body], the body following the header.  *)

HEADER_BYTES == 127
ROOT_DIRECTORY_LIMIT == 16384

DirectoryEntry(id, offset, length, run) == [tile_id |-> id, offset |-> offset, length |-> length, run_length |-> run]

(* The Hilbert curve: the levels of the zoom are walked from the largest   *)
(* square to the smallest, with the coordinates turned on the way.         *)
TurnedStep(z, acc, scale) ==
    LET rx == IF acc.x & scale # 0 THEN 1 ELSE 0
        ry == IF acc.y & scale # 0 THEN 1 ELSE 0
        flip == ry = 0 /\ rx = 1
        x == IF flip THEN 2^z - 1 - acc.x ELSE acc.x
        y == IF flip THEN 2^z - 1 - acc.y ELSE acc.y
        quadrant == IF rx = 0 THEN ry ELSE 3 - ry
    IN [d |-> acc.d + scale * scale * quadrant, x |-> IF ry = 0 THEN y ELSE x, y |-> IF ry = 0 THEN x ELSE y]

(* Faulty variant: the coordinates are not turned.                         *)
zxy_to_tile_id_unturned(z, x, y) ==
    LET scales == [k \in 1..(IF z = 0 THEN 1 ELSE z) |-> 2^((IF z = 0 THEN 1 ELSE z) - k)]
        Step(acc, s) == LET rx == IF x & s # 0 THEN 1 ELSE 0
                            ry == IF y & s # 0 THEN 1 ELSE 0
                        IN acc + s * s * (IF rx = 0 THEN ry ELSE 3 - ry)
    IN (4^z - 1) \div 3 + FoldLeft(Step, 0, scales)

zxy_to_tile_id(z, x, y) ==
    LET scales == [k \in 1..(IF z = 0 THEN 1 ELSE z) |-> 2^((IF z = 0 THEN 1 ELSE z) - k)]
    IN (4^z - 1) \div 3 + FoldLeft(LAMBDA acc, s : TurnedStep(z, acc, s), [d |-> 0, x |-> x, y |-> y], scales).d

push_varint[n \in Nat] == IF n < 128 THEN <<n>> ELSE <<(n % 128) + 128>> \o push_varint[n \div 128]

(* The value of the varint that begins at the position, and where it ends. *)
read_varint(bytes, at) ==
    LET last == {k \in at..Len(bytes) : bytes[k] < 128}
        end == Min(last)
        Digit(k) == (bytes[k] % 128) * 128^(k - at)
    IN IF at > Len(bytes) \/ last = {} THEN [ok |-> FALSE, value |-> 0, next |-> at]
       ELSE [ok |-> TRUE, value |-> MapThenSumSet(Digit, at..end), next |-> end + 1]

(* Faulty variant: offsets are written as they are, so that the offset     *)
(* zero reads as the sign of a contiguous one.                             *)
encode_directory_sentinel(entries) ==
    FlattenSeq(<<push_varint[Len(entries)]>>
      \o [k \in DOMAIN entries |-> push_varint[entries[k].tile_id - (IF k = 1 THEN 0 ELSE entries[k - 1].tile_id)]]
      \o [k \in DOMAIN entries |-> push_varint[entries[k].run_length]]
      \o [k \in DOMAIN entries |-> push_varint[entries[k].length]]
      \o [k \in DOMAIN entries |-> push_varint[entries[k].offset]])

(* Identifiers as differences, then runs, lengths and offsets; zero stands *)
(* for an offset that follows on the entry before.                         *)
encode_directory(entries) ==
    LET Contiguous(k) == k > 1 /\ entries[k].offset = entries[k - 1].offset + entries[k - 1].length
    IN FlattenSeq(<<push_varint[Len(entries)]>>
         \o [k \in DOMAIN entries |-> push_varint[entries[k].tile_id - (IF k = 1 THEN 0 ELSE entries[k - 1].tile_id)]]
         \o [k \in DOMAIN entries |-> push_varint[entries[k].run_length]]
         \o [k \in DOMAIN entries |-> push_varint[entries[k].length]]
         \o [k \in DOMAIN entries |-> push_varint[IF Contiguous(k) THEN 0 ELSE entries[k].offset + 1]])

Varints(bytes) ==
    LET ends == {k \in DOMAIN bytes : bytes[k] < 128}
        End(n) == CHOOSE e \in ends : Cardinality({k \in ends : k <= e}) = n
    IN [n \in 1..Cardinality(ends) |-> read_varint(bytes, IF n = 1 THEN 1 ELSE End(n - 1) + 1).value]

Entries(v, n) ==
    LET ids[k \in 0..n] == IF k = 0 THEN 0 ELSE LET before == ids[k - 1] IN before + v[1 + k]
        offsets[k \in 0..n] ==
            IF k = 0 THEN 0
            ELSE IF v[1 + 3 * n + k] > 0 THEN v[1 + 3 * n + k] - 1
            ELSE LET before == offsets[k - 1] IN before + v[1 + 2 * n + k - 1]
    IN IF n = 0 \/ Len(v) # 1 + 4 * n \/ v[1 + 3 * n + 1] = 0 \/ \E k \in 1..n : v[1 + 2 * n + k] = 0
       THEN [ok |-> FALSE, entries |-> <<>>]
       ELSE [ok |-> TRUE, entries |-> [k \in 1..n |-> DirectoryEntry(ids[k], offsets[k], v[1 + 2 * n + k], v[1 + n + k])]]

decode_directory(bytes) ==
    IF bytes = <<>> \/ bytes[Len(bytes)] >= 128 THEN [ok |-> FALSE, entries |-> <<>>]
    ELSE Entries(Varints(bytes), Varints(bytes)[1])

(* The last of the leading entries that do not lie behind the tile.        *)
find_entry(entries, id) ==
    LET lead == {k \in DOMAIN entries : \A j \in 1..k : entries[j].tile_id <= id}
    IN IF lead = {} THEN <<>> ELSE <<entries[Max(lead)]>>

gzip(bytes) == <<31>> \o bytes
encode_payload(bytes, compression) == IF compression = 2 THEN gzip(bytes) ELSE bytes
decode_payload(bytes, compression) == IF compression = 2 THEN Tail(bytes) ELSE bytes

parse_header(header, object_bytes) ==
    LET Inside(offset, length, limit) == offset + length <= limit
    IN /\ header.root_directory_offset >= HEADER_BYTES
       /\ Inside(header.root_directory_offset, header.root_directory_length, ROOT_DIRECTORY_LIMIT)
       /\ header.minimum_zoom <= header.maximum_zoom
       /\ Inside(header.tile_data_offset, header.tile_data_length, object_bytes)
       /\ Inside(header.leaf_directory_offset, header.leaf_directory_length, object_bytes)
       /\ Inside(header.root_directory_offset, header.root_directory_length, object_bytes)

build_header(layout, compression) ==
    [root_directory_offset |-> HEADER_BYTES, root_directory_length |-> layout.root_length,
     leaf_directory_offset |-> 0, leaf_directory_length |-> 0, tile_data_offset |-> layout.tile_data_offset,
     tile_data_length |-> layout.tile_data_length, tile_compression |-> compression,
     minimum_zoom |-> layout.minimum_zoom, maximum_zoom |-> layout.maximum_zoom]

Refusal(why) == [ok |-> FALSE, why |-> why, bytes |-> <<>>, requests |-> <<>>]

Archive(tiles, compression, root, meta, data) ==
    [ok |-> TRUE, body |-> root \o meta \o data,
     header |-> build_header([root_length |-> Len(root), tile_data_offset |-> HEADER_BYTES + Len(root) + Len(meta),
                              tile_data_length |-> Len(data), minimum_zoom |-> Min({t.z : t \in tiles}),
                              maximum_zoom |-> Max({t.z : t \in tiles})], compression)]

Directory(sorted, payloads) ==
    [k \in DOMAIN sorted |-> DirectoryEntry(zxy_to_tile_id(sorted[k].z, sorted[k].x, sorted[k].y),
                                            Len(FlattenSeq(SubSeq(payloads, 1, k - 1))), Len(payloads[k]), 1)]

(* Tiles are laid out in the order of the curve, each its own entry; the   *)
(* metadata lies between the directory and the tiles.                      *)
write_pmtiles_archive(tiles, compress, metadata) ==
    LET Id(t) == zxy_to_tile_id(t.z, t.x, t.y)
        sorted == SetToSortSeq(tiles, LAMBDA a, b : Id(a) < Id(b))
        compression == IF compress THEN 2 ELSE 1
        payloads == [k \in DOMAIN sorted |-> encode_payload(sorted[k].bytes, compression)]
    IN IF tiles = {} \/ (\E t \in tiles : t.bytes = <<>>) \/ (\E s, t \in tiles : s # t /\ Id(s) = Id(t))
       THEN [ok |-> FALSE]
       ELSE Archive(tiles, compression, gzip(encode_directory(Directory(sorted, payloads))), gzip(metadata), FlattenSeq(payloads))

(* Status 200 is a whole object and is refused by its status.              *)
read_exact_range(archive, kind, start, length) ==
    LET first == start - HEADER_BYTES
        object == archive.body
        answer == ServerAnswer([object |-> object, kind |-> kind], ByteRange(first, first + length - 1))
    IN IF length = 0 THEN Refusal("Invalid")
       ELSE IF answer.status # 206 THEN Refusal("WholeObjectFallback")
       ELSE IF Len(answer.bytes) # length THEN Refusal("Invalid")
       ELSE [ok |-> TRUE, bytes |-> answer.bytes, why |-> "none",
             requests |-> <<[start |-> start, end |-> start + length - 1, response_bytes |-> length]>>]

\* What a directory that was read says of a tile: no entry or one.
Located(read, directory, id) ==
    IF ~read.ok THEN read
    ELSE IF ~directory.ok THEN Refusal("Invalid")
    ELSE [ok |-> TRUE, why |-> "none", requests |-> read.requests, entry |-> find_entry(directory.entries, id)]

Look(read, id) == Located(read, decode_directory(decode_payload(read.bytes, 2)), id)

After(requests, next) == [next EXCEPT !.requests = requests \o @]

\* An entry without a run leads to a leaf directory.
ThroughLeaf(archive, kind, id, root) ==
    IF root.ok /\ root.entry # <<>> /\ root.entry[1].run_length = 0
    THEN After(root.requests,
               Look(read_exact_range(archive, kind, archive.header.leaf_directory_offset + root.entry[1].offset,
                                     root.entry[1].length), id))
    ELSE root

StoredTile(archive, kind, id, at) ==
    IF ~at.ok THEN at
    ELSE IF \/ at.entry = <<>>
            \/ id \notin at.entry[1].tile_id..(at.entry[1].tile_id + at.entry[1].run_length - 1)
    THEN Refusal("TileNotFound")
    ELSE After(at.requests,
               read_exact_range(archive, kind, archive.header.tile_data_offset + at.entry[1].offset, at.entry[1].length))

(* The header (taken as read), the root directory, perhaps a leaf, and the *)
(* tile, whose bytes are returned as they are stored.                      *)
read_pmtiles_tile(archive, kind, z, x, y) ==
    LET header == archive.header
        id == zxy_to_tile_id(z, x, y)
    IN CASE ~parse_header(header, HEADER_BYTES + Len(archive.body)) -> Refusal("Invalid")
         [] z \notin header.minimum_zoom..header.maximum_zoom \/ x >= 2^z \/ y >= 2^z -> Refusal("TileNotFound")
         [] OTHER -> StoredTile(archive, kind, id, ThroughLeaf(archive, kind, id,
                         Look(read_exact_range(archive, kind, header.root_directory_offset, header.root_directory_length), id)))

decode_tile_payload(bytes, tile_compression) == decode_payload(bytes, tile_compression)

-----------------------------------------------------------------------------
(* Receipts and budgets.  Ratios are in percent of the object; a receipt's *)
(* frame is <<>> without GPU metrics or <<[first_frame, fps]>>.            *)

IoReceipt(format, object_bytes, logical, requests, fallback) ==
    [format |-> format, object_bytes |-> object_bytes, logical_dataset_bytes |-> logical, requests |-> requests,
     transferred_bytes |-> FoldLeft(LAMBDA sum, r : sum + r.response_bytes, 0, requests),
     maximum_response_bytes |-> Max({0} \cup {requests[k].response_bytes : k \in DOMAIN requests}),
     whole_object_fallback |-> fallback, peak_rss |-> 0, gpu |-> <<>>]

(* Sizes in units of the smallest object of the full lane.                 *)
phase_12_full(require_gpu) ==
    [minimum_object_bytes |-> 10, minimum_logical_dataset_bytes |-> 40, maximum_transfer_percent |-> 20,
     maximum_response_bytes |-> 4, maximum_peak_rss |-> 40, maximum_first_frame |-> 2, minimum_fps |-> 30,
     require_gpu |-> require_gpu]

ci(require_gpu) ==
    [phase_12_full(require_gpu) EXCEPT !.minimum_object_bytes = 1, !.minimum_logical_dataset_bytes = 1]

validate(receipt, budget) ==
    {f \in {"ObjectTooSmall", "LogicalDatasetTooSmall", "WholeObjectFallback", "TransferRatioExceeded",
            "ResponseExceeded", "PeakRssExceeded", "FirstFrameExceeded", "GpuMetricsMissing", "InvalidGpuMetrics",
            "SteadyStateFpsBelowMinimum", "MalformedRequestEvidence"} :
       CASE f = "ObjectTooSmall" -> receipt.object_bytes < budget.minimum_object_bytes
         [] f = "LogicalDatasetTooSmall" -> receipt.logical_dataset_bytes < budget.minimum_logical_dataset_bytes
         [] f = "WholeObjectFallback" -> receipt.whole_object_fallback
         [] f = "TransferRatioExceeded" ->
              100 * receipt.transferred_bytes > budget.maximum_transfer_percent * Max({receipt.object_bytes, 1})
         [] f = "ResponseExceeded" -> receipt.maximum_response_bytes > budget.maximum_response_bytes
         [] f = "PeakRssExceeded" -> receipt.peak_rss > budget.maximum_peak_rss
         [] f = "FirstFrameExceeded" -> receipt.gpu # <<>> /\ receipt.gpu[1].first_frame > budget.maximum_first_frame
         [] f = "GpuMetricsMissing" -> receipt.gpu = <<>> /\ budget.require_gpu
         [] f = "InvalidGpuMetrics" -> receipt.gpu # <<>> /\ receipt.gpu[1].fps <= 0
         [] f = "SteadyStateFpsBelowMinimum" -> receipt.gpu # <<>> /\ receipt.gpu[1].fps \in 1..(budget.minimum_fps - 1)
         [] OTHER -> \E k \in DOMAIN receipt.requests :
                       LET r == receipt.requests[k]
                       IN r.end < r.start \/ r.response_bytes # r.end - r.start + 1
                          \/ r.response_bytes > budget.maximum_response_bytes}

(* The fixture server records what it sends; a request without a range     *)
(* counts as a whole read.  The end of a range is cut to the object.       *)
serve_range(object, ask) ==
    IF ask = <<>> THEN [requests |-> <<>>, full |-> 1]
    ELSE IF ask[1].start >= Len(object) THEN [requests |-> <<>>, full |-> 0]
    ELSE LET end == Min({ask[1].end, Len(object) - 1})
         IN [requests |-> <<[start |-> ask[1].start, end |-> end, response_bytes |-> end - ask[1].start + 1]>>, full |-> 0]

(* Five selections are timed; the receipt is that of the last one, with    *)
(* the requests the server has counted since that one began.               *)
benchmark_fixture(format, object, samples) ==
    LET asks == samples[Len(samples)]
        served == [k \in DOMAIN asks |-> serve_range(object, asks[k])]
        receipt == IoReceipt(format, Len(object), 4 * Len(object), FlattenSeq([k \in DOMAIN asks |-> served[k].requests]),
                             \E k \in DOMAIN asks : served[k].full > 0)
    IN [format |-> format, receipt |-> receipt, budget_failures |-> validate(receipt, ci(FALSE))]

MAX_PROXIED == 4

(* The proxy forwards bounded ranges only; an upstream that ignores one is *)
(* counted as a whole read and never passed on.                            *)
serve_remote_range(source, ask) ==
    IF ask = <<>> THEN [requests |-> <<>>, full |-> 1, ok |-> FALSE]
    ELSE IF ask[1].end >= source.length \/ RangeLen(ask[1]) > MAX_PROXIED THEN [requests |-> <<>>, full |-> 0, ok |-> FALSE]
    ELSE LET answer == fetch_http_range_with_policy(source, ask[1])
         IN IF ~answer.ok THEN [requests |-> <<>>, full |-> 0, ok |-> FALSE]
            ELSE IF answer.status # 206 THEN [requests |-> <<>>, full |-> 1, ok |-> FALSE]
            ELSE [requests |-> <<[start |-> ask[1].start, end |-> ask[1].end, response_bytes |-> Len(answer.bytes)]>>,
                  full |-> 0, ok |-> TRUE]

Formats == <<"Cog", "GeoParquet", "Copc", "PmTiles">>

Sum(s) == FoldLeft(LAMBDA a, b : a + b, 0, s)

GpuFailed(gpu) == gpu.first_frame > 2 \/ gpu.fps <= 0

Gates(receipts, gpu) ==
    Sum([k \in DOMAIN receipts |-> Cardinality(validate(receipts[k], ci(FALSE)))]) + (IF GpuFailed(gpu) THEN 1 ELSE 0)

(* Faulty variant: the run is judged by the budget of the full lane.       *)
selected_view_full(receipts, gpu, wall) ==
    LET failed == Sum([k \in DOMAIN receipts |-> Cardinality(validate(receipts[k], phase_12_full(FALSE)))])
    IN [receipts |-> receipts, total_object_bytes |-> Sum([k \in DOMAIN receipts |-> receipts[k].object_bytes]),
        total_transferred_bytes |-> Sum([k \in DOMAIN receipts |-> receipts[k].transferred_bytes]),
        total_range_requests |-> Sum([k \in DOMAIN receipts |-> Len(receipts[k].requests)]),
        whole_object_fallback |-> \E k \in DOMAIN receipts : receipts[k].whole_object_fallback,
        gpu |-> gpu, selection_wall |-> wall, end_to_end |-> wall + gpu.first_frame,
        failed_gates |-> failed, status |-> IF failed = 0 THEN "pass" ELSE "fail"]

(* The four selections run in parallel, each against a server of its own;  *)
(* the frame is measured after all of them.                                *)
selected_view(receipts, gpu, wall) ==
    [receipts |-> receipts, total_object_bytes |-> Sum([k \in DOMAIN receipts |-> receipts[k].object_bytes]),
     total_transferred_bytes |-> Sum([k \in DOMAIN receipts |-> receipts[k].transferred_bytes]),
     total_range_requests |-> Sum([k \in DOMAIN receipts |-> Len(receipts[k].requests)]),
     whole_object_fallback |-> \E k \in DOMAIN receipts : receipts[k].whole_object_fallback,
     gpu |-> gpu, selection_wall |-> wall, end_to_end |-> wall + gpu.first_frame,
     failed_gates |-> Gates(receipts, gpu), status |-> IF Gates(receipts, gpu) = 0 THEN "pass" ELSE "fail"]

(* Every aggregate is computed again from the receipts.                    *)
validate_view(v) ==
    LET gates == Gates(v.receipts, v.gpu)
    IN /\ [k \in DOMAIN v.receipts |-> v.receipts[k].format] = Formats
       /\ v.total_object_bytes = Sum([k \in DOMAIN v.receipts |-> v.receipts[k].object_bytes])
       /\ v.total_transferred_bytes = Sum([k \in DOMAIN v.receipts |-> v.receipts[k].transferred_bytes])
       /\ v.total_range_requests = Sum([k \in DOMAIN v.receipts |-> Len(v.receipts[k].requests)])
       /\ v.whole_object_fallback = (\E k \in DOMAIN v.receipts : v.receipts[k].whole_object_fallback)
       /\ v.failed_gates = gates /\ v.status = (IF gates = 0 THEN "pass" ELSE "fail")
       /\ v.end_to_end = v.selection_wall + v.gpu.first_frame

(* One format of the full lane: the object must be the published one and   *)
(* advertise ranges before anything is selected.                           *)
benchmark_remote(source, expected, format, asks) ==
    LET metadata == probe_http_object_metadata(source, TRUE)
        served == [k \in DOMAIN asks |-> serve_remote_range(source, <<asks[k]>>)]
        requests == FlattenSeq([k \in DOMAIN asks |-> served[k].requests])
        receipt == IoReceipt(format, metadata.content_length, metadata.content_length, requests, \E k \in DOMAIN asks : served[k].full > 0)
    IN IF \/ ~metadata.ok \/ expected # metadata.content_length \/ ~metadata.accepts_byte_ranges
          \/ \E k \in DOMAIN asks : ~served[k].ok
       THEN [ok |-> FALSE]
       ELSE [ok |-> TRUE, receipt |-> receipt, budget_failures |-> validate(receipt, phase_12_full(FALSE))]

(* The lane of bundled objects and the lane of published ones, which also  *)
(* demands a hardware GPU; formats is the list of format benchmarks.       *)
FormatFailures(formats) == Sum([k \in DOMAIN formats |-> Cardinality(formats[k].budget_failures)])

run_cloud_io_benchmark(formats, gpu) ==
    [lane |-> "deterministic_ci", formats |-> formats,
     failed_gates |-> FormatFailures(formats) + (IF GpuFailed(gpu) THEN 1 ELSE 0)]

run_full_cloud_io_benchmark(formats, gpu, hardware_gpu) ==
    [lane |-> "public_full_size", formats |-> formats,
     failed_gates |-> FormatFailures(formats) + (IF ~hardware_gpu \/ GpuFailed(gpu) THEN 1 ELSE 0)]

-----------------------------------------------------------------------------
(* Evidence of a managed deployment: four ranges spread over the object.   *)

MANAGED_RANGE == 2

source_identity_digest(source, length) == <<source.url.host, length>>

(* Faulty variant: the range the server says it sent is not compared.      *)
verify_managed_cloud_range_receipt_unlabelled(r) ==
    /\ r.content_length > 0 /\ r.accepts_byte_ranges /\ ~r.whole_object_fallback
    /\ \A k \in DOMAIN r.requests :
         LET q == r.requests[k] IN q.end < r.content_length /\ q.status = 206 /\ q.response_bytes = q.end - q.start + 1

verify_managed_cloud_range_receipt(r) ==
    /\ r.content_length > 0 /\ r.accepts_byte_ranges /\ ~r.whole_object_fallback /\ Len(r.requests) \in 1..64
    /\ r.source_identity_digest = source_identity_digest(r.source, r.content_length)
    /\ \A k \in DOMAIN r.requests :
         LET q == r.requests[k]
         IN /\ q.start <= q.end /\ q.end < r.content_length /\ q.status = 206
            /\ q.response_bytes = q.end - q.start + 1
            /\ q.content_range = <<q.start, q.end, r.content_length>>

(* A receipt that does not verify is not returned.                         *)
collect_managed_cloud_range_receipt(source) ==
    LET metadata == probe_http_object_metadata(source, TRUE)
        length == metadata.content_length
        size == Min({length, MANAGED_RANGE})
        last == length - size
        starts == <<0, last \div 3, (2 * last) \div 3, last>>
        answers == [k \in 1..4 |-> fetch_http_range_with_policy(source, ByteRange(starts[k], starts[k] + size - 1))]
        receipt ==
          [source |-> source, source_identity_digest |-> source_identity_digest(source, length), content_length |-> length,
           accepts_byte_ranges |-> metadata.accepts_byte_ranges,
           whole_object_fallback |-> \E k \in 1..4 : answers[k].status # 206,
           requests |-> [k \in 1..4 |-> [start |-> starts[k], end |-> starts[k] + size - 1, status |-> answers[k].status,
                                         response_bytes |-> Len(answers[k].bytes), digest |-> answers[k].bytes,
                                         content_range |-> answers[k].content_range]]]
    IN IF \/ ~metadata.ok \/ ~metadata.accepts_byte_ranges \/ length < 4
          \/ \E k \in 1..4 : ~answers[k].ok
          \/ ~verify_managed_cloud_range_receipt(receipt)
       THEN [ok |-> FALSE] ELSE [ok |-> TRUE, receipt |-> receipt]
=============================================================================
