----------------------------- MODULE ArchiveFile -----------------------------
(***************************************************************************)
(* The bytes of an archive, as cells that know which section they are from  *)
(* and where in it they stand, so that a section decodes from its own cells *)
(* and from no others.  How a section's value is encoded is left to         *)
(* bitcode and bytemuck: only its length matters here.                      *)
(***************************************************************************)
EXTENDS Sums

CONSTANTS
  HEADER_SIZE,        \* bytes of a FileHeader
  FORMAT_SIZE(_),     \* bytes of a format's data
  SUPPORTED_VERSION

SSMC == "ssmc"
SSMD == "ssmd"

ASSUME ArchiveFileAssumption ==
  /\ HEADER_SIZE \in Nat \ {0}
  /\ FORMAT_SIZE(SSMC) \in Nat \ {0} /\ FORMAT_SIZE(SSMD) \in Nat \ {0}
  /\ SUPPORTED_VERSION \in Nat

DAMAGED == <<"damaged", << >>>>

Cells(section, length) == [k \in 1..length |-> <<section, k, length>>]

Decode(cells) ==
  IF cells # << >> /\ cells = Cells(cells[1][1], Len(cells)) THEN cells[1][1] ELSE DAMAGED

(* What a format has after its data, in the order it is written, and what   *)
(* of that belongs to the compressed data, which come last.                 *)
MetadataParts(format) ==
  IF format = SSMC THEN << "manifest", "dictionary", "chunk_index" >>
  ELSE << "manifest", "dictionary", "chunk_index", "audio_index", "excep_index", "subheaders",
          "exceptions" >>

Parts(format) ==
  IF format = SSMC THEN MetadataParts(format) ELSE Append(MetadataParts(format), "audio")

build_file_header(file_count, format, toc_length) ==
  [version |-> SUPPORTED_VERSION, file_count |-> file_count, format_id |-> format,
   enc_toc_offset |-> HEADER_SIZE, enc_toc_length |-> toc_length,
   format_data_offset |-> HEADER_SIZE + toc_length]

(* Mutant of LengthBefore: a region begins where the one before it does.    *)
LengthBeforeLast(parts, n, length) == Sum([m \in 1..(n - 2) |-> length[parts[m]]])

LengthBefore(parts, n, length) == Sum([m \in 1..(n - 1) |-> length[parts[m]]])

build_format_data(format_data_offset, format, length) ==
  LET parts == Parts(format)
      base == format_data_offset + FORMAT_SIZE(format)
  IN [region |-> [n \in DOMAIN parts |-> [offset |-> base + LengthBefore(parts, n, length),
                                          length |-> length[parts[n]]]],
      data_offset |-> base + LengthBefore(parts, Len(parts) + 1, length)]

(* The archive before the compressed data; a section without bytes leaves   *)
(* none.                                                                    *)
final_data(format, toc_length, length) ==
  LET parts == MetadataParts(format)
  IN Cells(<<"header", << >>>>, HEADER_SIZE)
     \o Cells(<<"toc", << >>>>, toc_length)
     \o Cells(<<"format", << >>>>, FORMAT_SIZE(format))
     \o FlattenSeq([n \in DOMAIN parts |-> Cells(<<parts[n], << >>>>, length[parts[n]])])

(* Too few bytes are an error.                                              *)
read_file_data(file, offset, length) ==
  IF offset + length > Len(file) THEN << >> ELSE SubSeq(file, offset + 1, offset + length)

parse_file_header(file, header) ==
  /\ Decode(read_file_data(file, 0, HEADER_SIZE)) = <<"header", << >>>>
  /\ header.version <= SUPPORTED_VERSION

(* The table of contents and the format's data lie where the header says.   *)
HeadReadable(file, header) ==
  /\ parse_file_header(file, header)
  /\ Decode(read_file_data(file, header.enc_toc_offset, header.enc_toc_length)) = <<"toc", << >>>>
  /\ Decode(read_file_data(file, header.format_data_offset, FORMAT_SIZE(header.format_id)))
       = <<"format", << >>>>

(* An optical archive's sections are read one by one; an empty one is not.  *)
SectionsReadable(file, header, data) ==
  \A n \in DOMAIN data.region :
    LET r == data.region[n]
    IN r.length > 0 => Decode(read_file_data(file, r.offset, r.length))
                         = <<Parts(header.format_id)[n], << >>>>

(* The three parts of the metadata of an ssmc archive are read at once and  *)
(* cut apart by their lengths.                                              *)
MetadataReadable(file, data) ==
  LET length(n) == data.region[n].length
      block == read_file_data(file, data.region[1].offset, length(1) + length(2) + length(3))
  IN /\ Decode(SubSeq(block, 1, length(1))) = <<"manifest", << >>>>
     /\ Decode(SubSeq(block, length(1) + 1, length(1) + length(2))) = <<"dictionary", << >>>>
     /\ Decode(SubSeq(block, length(1) + length(2) + 1, Len(block))) = <<"chunk_index", << >>>>

(* What a place in the index leads to.                                      *)
ReadChunk(file, data, location) ==
  Decode(read_file_data(file, data.data_offset + location.offset, location.compressed_length))
=============================================================================
