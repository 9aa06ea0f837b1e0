----------------------------- MODULE Descriptors -----------------------------
(***************************************************************************)
(* The descriptors of usb_conf.cpp, how qsb_standard.c makes the reply to  *)
(* GET_DESCRIPTOR from them, and how a host reads that reply. A descriptor *)
(* is the sequence of its bytes, in the order of the packed structures of  *)
(* qsb_std_data.h and qsb_cdc.h; their pointers are fields of a record.    *)
(***************************************************************************)
EXTENDS Naturals, Sequences
Seqs == INSTANCE SequencesExt

INTF_COMM == 0
INTF_DATA == 1
DATA_OUT_1 == 1
DATA_IN_1 == 128 + 2
COMM_IN_1 == 128 + 3
CDCACM_PACKET_SIZE == 64
USB_CONTROL_BUF_SIZE == 256

QSB_DT_DEVICE == 1
QSB_DT_CONFIGURATION == 2
QSB_DT_STRING == 3
QSB_DT_INTERFACE == 4
QSB_DT_ENDPOINT == 5
QSB_DT_INTERFACE_ASSOCIATION == 11
QSB_CDC_FUNC_DT_INTERFACE == 36
QSB_ENDPOINT_ATTR_CONTROL == 0
QSB_ENDPOINT_ATTR_BULK == 2
QSB_ENDPOINT_ATTR_INTERRUPT == 3

\* Class, subclass and protocol.
ClassMisc == <<239, 2, 1>>
ClassCommAcmAt == <<2, 2, 1>>
ClassData == <<10, 0, 0>>
QSB_ACM_CAP_LINE_CODING == 2

----------------------------------------------------------------------------
(* The packed structures, field by field; words have their low byte first.  *)

Word(n) == <<n % 256, n \div 256>>

DeviceDesc(usb, class, packet, vendor, product, release, manufacturer_id, product_id, serial_id, configs) ==
    <<18, QSB_DT_DEVICE>> \o Word(usb) \o class \o <<packet>> \o Word(vendor) \o Word(product)
    \o Word(release) \o <<manufacturer_id, product_id, serial_id, configs>>
\* The total length is filled in later.
ConfigDesc(interfaces, value, attributes, power) ==
    <<9, QSB_DT_CONFIGURATION>> \o Word(0) \o <<interfaces, value, 0, attributes, power>>
AssocDesc(first, count, class, string) ==
    <<8, QSB_DT_INTERFACE_ASSOCIATION, first, count>> \o class \o <<string>>
InterfaceDesc(number, setting, endpoints, class, string) ==
    <<9, QSB_DT_INTERFACE, number, setting, endpoints>> \o class \o <<string>>
EndpointDesc(addr, attributes, size, interval) ==
    <<7, QSB_DT_ENDPOINT, addr, attributes>> \o Word(size) \o <<interval>>

HeaderDesc(release) == <<5, QSB_CDC_FUNC_DT_INTERFACE, 0>> \o Word(release)
CallManagementDesc(capabilities, interface) ==
    <<5, QSB_CDC_FUNC_DT_INTERFACE, 1, capabilities, interface>>
AcmDesc(capabilities) == <<4, QSB_CDC_FUNC_DT_INTERFACE, 2, capabilities>>
UnionDesc(control, subordinate) == <<5, QSB_CDC_FUNC_DT_INTERFACE, 6, control, subordinate>>
FunctionalDescs(header, call_mgmt, acm, cdc_union) == header \o call_mgmt \o acm \o cdc_union

----------------------------------------------------------------------------
(* usb_conf.cpp                                                             *)

\* Lengths of the strings; the third is the serial number.
usb_strings == <<9, 10, 8, 19, 17, 17>>
StringIndex ==
    [manufacturer |-> 1, product |-> 2, serial_number |-> 3, serial_port |-> 4,
     comm |-> 5, data |-> 6]

comm_ep_1_desc == <<EndpointDesc(COMM_IN_1, QSB_ENDPOINT_ATTR_INTERRUPT, 16, 255)>>
data_ep_1_desc ==
    <<EndpointDesc(DATA_OUT_1, QSB_ENDPOINT_ATTR_BULK, CDCACM_PACKET_SIZE, 1),
      EndpointDesc(DATA_IN_1, QSB_ENDPOINT_ATTR_BULK, CDCACM_PACKET_SIZE, 1)>>

cdc_func_desc ==
    FunctionalDescs(HeaderDesc(272), CallManagementDesc(0, INTF_DATA),
                    AcmDesc(QSB_ACM_CAP_LINE_CODING), UnionDesc(INTF_COMM, INTF_DATA))

comm_if_1_desc ==
    <<[desc |-> InterfaceDesc(INTF_COMM, 0, Len(comm_ep_1_desc), ClassCommAcmAt,
                              StringIndex.comm),
       extra |-> cdc_func_desc, endpoint |-> comm_ep_1_desc]>>
data_if_1_desc ==
    <<[desc |-> InterfaceDesc(INTF_DATA, 0, Len(data_ep_1_desc), ClassData, StringIndex.data),
       extra |-> <<>>, endpoint |-> data_ep_1_desc]>>
assoc_1_desc == AssocDesc(INTF_COMM, 2, ClassCommAcmAt, StringIndex.serial_port)

usb_interfaces ==
    <<[iface_assoc |-> assoc_1_desc, altsetting |-> comm_if_1_desc],
      [iface_assoc |-> <<>>, altsetting |-> data_if_1_desc]>>
bConfigurationValue == 1
config_desc == ConfigDesc(Len(usb_interfaces), bConfigurationValue, 128, 50)
bMaxPacketSize0 == 16
dev_desc ==
    DeviceDesc(512, ClassMisc, bMaxPacketSize0, 4617, 32840, 288, StringIndex.manufacturer,
               StringIndex.product, StringIndex.serial_number, 1)

----------------------------------------------------------------------------
\* Mutant: the descriptors between an interface and its endpoints are left out.
InterfaceBytesShort(iface) == iface.desc \o Seqs!FlattenSeq(iface.endpoint)

\* An alternate setting, its function descriptors and its endpoints.
InterfaceBytes(iface) == iface.desc \o iface.extra \o Seqs!FlattenSeq(iface.endpoint)

\* build_config_descriptor()
BuildConfigDescriptor ==
    LET settings(i) == [j \in DOMAIN usb_interfaces[i].altsetting |->
                            InterfaceBytes(usb_interfaces[i].altsetting[j])]
        all == config_desc \o Seqs!FlattenSeq([i \in DOMAIN usb_interfaces |->
                    usb_interfaces[i].iface_assoc \o Seqs!FlattenSeq(settings(i))])
    IN  [all EXCEPT ![3] = Word(Len(all))[1], ![4] = Word(Len(all))[2]]

Least(a, b) == IF a <= b THEN a ELSE b
FirstBytes(bytes, len) == SubSeq(bytes, 1, Least(len, Len(bytes)))

\* get_string_descriptor(): bLength is that of the whole string, and the reply
\* what fits (the characters are not told apart). Index 0 is for the languages.
StringDescriptor(index) ==
    LET size == IF index = 0 THEN 4 ELSE 2 * usb_strings[index] + 2
    IN  [i \in 1 .. size |-> CASE i = 1 -> size [] i = 2 -> QSB_DT_STRING [] OTHER -> 0]

----------------------------------------------------------------------------
(* A host that reads a configuration descriptor, by the USB specification.  *)

\* Where descriptors start, each found from the length of the one before;
\* 0 if a length leads nowhere.
DescriptorStarts(bytes) ==
    LET from[p \in 1 .. Len(bytes) + 1] ==
            IF p = Len(bytes) + 1 THEN <<>>
            ELSE IF bytes[p] < 2 \/ p + bytes[p] > Len(bytes) + 1 THEN <<0>>
            ELSE <<p>> \o from[p + bytes[p]]
    IN  from[1]

\* The places of the descriptors of a type.
Places(bytes, type) ==
    {p \in Seqs!ToSet(DescriptorStarts(bytes)) : p # 0 /\ bytes[p + 1] = type}

\* The endpoints a host finds in a configuration descriptor.
AdvertisedEndpoints(bytes) ==
    {[addr |-> bytes[p + 2], type |-> bytes[p + 3], size |-> bytes[p + 4] + 256 * bytes[p + 5]]
        : p \in Places(bytes, QSB_DT_ENDPOINT)}

\* The endpoint descriptors that follow an interface descriptor, up to the next.
EndpointsOf(bytes, p) ==
    {e \in Places(bytes, QSB_DT_ENDPOINT) :
        e > p /\ \A q \in Places(bytes, QSB_DT_INTERFACE) : ~(p < q /\ q < e)}
=============================================================================
